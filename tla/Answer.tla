------------------------------- MODULE Answer --------------------------------
(***************************************************************************)
(* From the model's last words to the client: what runTurn does with the   *)
(* raw answer (structurize, the style layer, the history), the metrics its *)
(* tracer leaves in the MetricsStore, and what the two kinds of client get *)
(* (collectBlocking, streamSSE).  TurnEngine has the loop before it.       *)
(*                                                                         *)
(* A text is known by where it comes from: "raw" is the model's answer,    *)
(* "final" the final_answer of its structured form, "rewritten" the style  *)
(* model's, and "" is the empty text.                                      *)
(***************************************************************************)
EXTENDS Metrics, FiniteSets

CONSTANTS
  TurnIds,      \* turns that are followed in detail
  Items,        \* bound: literals that a structured response may ask to keep
  Structures,   \* bound: the structured responses the model may give
  MaxMeasured   \* bound: turns that are measured, others included

VARIABLES
  processor,    \* a StyleProcessor is configured
  turn,         \* the turns, as records
  pushed        \* all metrics ever pushed, in order

vars == <<processor, turn, pushed, store>>

Texts == {"", "raw", "final", "rewritten"}
Risks == {"low", "medium", "high"}
Scenes == {"chat", "reflection", "discussion", "tutorial", "coding", "emotional",
           "risky", "unknown"}
Modes == {"bypass", "light_rewrite", "strong_rewrite", "unknown"}
Reasons == {"", "llm error", "empty rewrite output", "mustkeep_violation"}

(* StructuredResponse, as far as the style layer looks at it. *)
StructuredResponse ==
  [final : {"", "raw", "final"}, must : SUBSET Items, risk : Risks, scene : Scenes,
   mode : Modes, allowed : BOOLEAN]

ASSUME StructuresAssumption == Structures \subseteq StructuredResponse

(* What runTurn goes on with when structurize fails. *)
Plainly(raw) ==
  [final |-> raw, must |-> {}, risk |-> "low", scene |-> "chat",
   mode |-> "light_rewrite", allowed |-> TRUE]

ResolveProfile(scene, risk) ==
  CASE risk = "high" -> "plain"
    [] risk # "high" /\ scene \in {"chat", "reflection", "discussion"} -> "sharp"
    [] risk # "high" /\ scene \in {"emotional", "risky"} -> "plain"
    [] OTHER -> "blunt"

NewTurn ==
  [at |-> "asking", streamed |-> <<>>, raw |-> "", structured |-> Plainly(""),
   output |-> "", applied |-> FALSE, profile |-> "none", kept |-> {}, remembered |-> {},
   error |-> FALSE, rewrite |-> FALSE, fallback |-> ""]

Init ==
  /\ processor \in BOOLEAN
  /\ turn = [t \in TurnIds |-> NewTurn]
  /\ pushed = <<>>
  /\ StoreInit

(* The turn goes on at a statement, with some of its fields changed. *)
Step(t, from, changed) ==
  /\ turn[t].at = from
  /\ turn' = [turn EXCEPT ![t] = changed]
  /\ UNCHANGED <<processor, pushed, store>>

-----------------------------------------------------------------------------
(* The model's rounds: text of every round is streamed to the client, and  *)
(* the answer is that of the round without tool calls.                     *)

ToolRound(t) ==
  /\ turn[t].streamed = <<>>
  /\ Step(t, "asking", [turn[t] EXCEPT !.streamed = <<"aside">>])

AnswerComes(t) ==
  Step(t, "asking", [turn[t] EXCEPT !.at = "answered", !.raw = "raw",
                                    !.streamed = Append(@, "raw")])

(* The model's reply is empty, or no round was without tool calls. *)
NoAnswer(t) == Step(t, "asking", [turn[t] EXCEPT !.at = "answered"])

TurnErrorsGoesOn(t) ==
  Step(t, "asking", [turn[t] EXCEPT !.at = "answered", !.error = TRUE])
(* runTurn returns an empty TurnResult and the error, perhaps with part of *)
(* the answer streamed.                                                    *)
TurnErrors(t) ==
  \E part \in {<<>>, <<"part">>} :
    Step(t, "asking", [turn[t] EXCEPT !.at = "measuring", !.error = TRUE,
                                      !.streamed = @ \o part])

-----------------------------------------------------------------------------
(* structurize and the style layer. *)

NoProcessor(t) ==
  /\ ~processor
  /\ Step(t, "answered", [turn[t] EXCEPT !.at = "storing", !.output = turn[t].raw])

Structured(t, sr) ==
  /\ processor
  /\ Step(t, "answered", [turn[t] EXCEPT !.at = "routing", !.structured = sr,
                                         !.output = sr.final])

(* An empty answer is not structured; else the call may fail, or what it   *)
(* returns is not the JSON expected.                                       *)
StructurizeFails(t) == Structured(t, Plainly(turn[t].raw))

StructurizeOk(t) ==
  /\ turn[t].raw # ""
  /\ \E sr \in Structures :
       Structured(t, [sr EXCEPT !.final = IF @ = "" THEN turn[t].raw ELSE @])

MayRewrite(sr) == sr.allowed /\ sr.mode # "bypass"

Bypass(t) ==
  /\ ~MayRewrite(turn[t].structured)
  /\ Step(t, "routing", [turn[t] EXCEPT !.at = "storing"])

(* The tracer notes the rewrite, and the style model is asked. *)
StartRewrite(t) ==
  LET sr == turn[t].structured
  IN /\ MayRewrite(sr)
     /\ Step(t, "routing", [turn[t] EXCEPT !.at = "rewriting", !.rewrite = TRUE,
                                           !.profile = ResolveProfile(sr.scene, sr.risk)])

FallbackUnexplained(t, reason) ==
  Step(t, "rewriting", [turn[t] EXCEPT !.at = "storing"])
(* The style layer gives the reason and leaves the output as it is. *)
Fallback(t, reason) ==
  Step(t, "rewriting", [turn[t] EXCEPT !.at = "storing", !.fallback = reason])

RewriteFails(t) == Fallback(t, "llm error")
RewriteBlank(t) == Fallback(t, "empty rewrite output")

(* A rewritten text comes back with some of the literals in it. *)
RewriteOkUnchecked(t, kept) ==
  Step(t, "rewriting", [turn[t] EXCEPT !.at = "storing", !.output = "rewritten",
                                       !.applied = TRUE, !.kept = kept])
RewriteOk(t, kept) ==
  /\ turn[t].structured.must \subseteq kept
  /\ Step(t, "rewriting", [turn[t] EXCEPT !.at = "storing", !.output = "rewritten",
                                          !.applied = TRUE, !.kept = kept])

RewriteRejected(t, kept) ==
  /\ ~(turn[t].structured.must \subseteq kept)
  /\ Fallback(t, "mustkeep_violation")

-----------------------------------------------------------------------------
(* The end of runTurn, the metrics, and the client. *)

(* The history gets the raw answer, and an empty output is replaced by it. *)
StoreTurnStoresOutput(t) ==
  Step(t, "storing", [turn[t] EXCEPT !.at = "measuring", !.remembered = {turn[t].output},
                                     !.output = IF @ = "" THEN turn[t].raw ELSE @])
StoreTurn(t) ==
  Step(t, "storing", [turn[t] EXCEPT !.at = "measuring", !.remembered = {turn[t].raw},
                                     !.output = IF @ = "" THEN turn[t].raw ELSE @])

(* Tracer.Finish, before the events that end the turn. *)
MeasureOf(t) ==
  [turn |-> t, rewrite |-> turn[t].rewrite, fallback |-> turn[t].fallback]

MeasureAnsweredOnly(t) ==
  /\ turn[t].at = "measuring"
  /\ Len(pushed) < MaxMeasured
  /\ IF turn[t].error
     THEN UNCHANGED <<pushed, store>>
     ELSE Push(MeasureOf(t)) /\ pushed' = Append(pushed, MeasureOf(t))
  /\ turn' = [turn EXCEPT ![t].at = "reporting"]
  /\ UNCHANGED processor
Measure(t) ==
  /\ turn[t].at = "measuring"
  /\ Len(pushed) < MaxMeasured
  /\ Push(MeasureOf(t)) /\ pushed' = Append(pushed, MeasureOf(t))
  /\ turn' = [turn EXCEPT ![t].at = "reporting"]
  /\ UNCHANGED processor

(* The handler has the last event and answers: 200 in any case, with the   *)
(* output and style_applied as JSON, or after the text it has streamed.    *)
Reply(t) == Step(t, "reporting", [turn[t] EXCEPT !.at = "replied"])

OtherMeasure == [turn |-> "other", rewrite |-> FALSE, fallback |-> ""]

ASSUME MeasuresAssumption ==
  /\ "other" \notin TurnIds
  /\ OtherMeasure \in Measures
  /\ [turn : TurnIds, rewrite : BOOLEAN, fallback : Reasons] \subseteq Measures

(* Turns of other sessions end too. *)
OtherTurnMeasured ==
  /\ Len(pushed) < MaxMeasured
  /\ Push(OtherMeasure) /\ pushed' = Append(pushed, OtherMeasure)
  /\ UNCHANGED <<processor, turn>>

TurnNext(t) ==
  \/ ToolRound(t) \/ AnswerComes(t) \/ NoAnswer(t) \/ TurnErrors(t)
  \/ NoProcessor(t) \/ StructurizeFails(t) \/ StructurizeOk(t)
  \/ Bypass(t) \/ StartRewrite(t) \/ RewriteFails(t) \/ RewriteBlank(t)
  \/ \E kept \in SUBSET Items : RewriteOk(t, kept) \/ RewriteRejected(t, kept)
  \/ StoreTurn(t) \/ Measure(t) \/ Reply(t)

Next == OtherTurnMeasured \/ \E t \in TurnIds : TurnNext(t)

Spec == Init /\ [][Next]_vars

-----------------------------------------------------------------------------
TurnRecord ==
  [at : {"asking", "answered", "routing", "rewriting", "storing", "measuring",
         "reporting", "replied"},
   streamed : Seq({"aside", "part", "raw"}), raw : {"", "raw"},
   structured : StructuredResponse, output : Texts, applied : BOOLEAN,
   profile : {"none", "plain", "blunt", "sharp"}, kept : SUBSET Items,
   remembered : SUBSET Texts, error : BOOLEAN, rewrite : BOOLEAN,
   fallback : Reasons]

TypeOK ==
  /\ processor \in BOOLEAN
  /\ turn \in [TurnIds -> TurnRecord]
  /\ pushed \in Seq(Measures)
  /\ StoreTypeOK

Replied == {t \in TurnIds : turn[t].at = "replied"}

(* An answer goes out as styled only if the structured response allowed it *)
(* and every literal that must be kept is still in the text; and one of    *)
(* high risk only in the plain profile ("High-risk content always falls    *)
(* back to plain", router.go; README.md says more: HighRiskIsBypassed).    *)
StyledIsChecked ==
  \A t \in Replied :
    turn[t].applied =>
      LET sr == turn[t].structured
      IN /\ processor /\ sr.allowed /\ sr.mode # "bypass"
         /\ sr.must \subseteq turn[t].kept
         /\ sr.risk = "high" => turn[t].profile = "plain"

(* The style layer is "bypassed on high-risk scenes" (README.md): what a   *)
(* client gets of an answer of high risk is not a rewritten text.          *)
HighRiskIsBypassed ==
  \A t \in Replied : turn[t].structured.risk = "high" => ~turn[t].applied

(* "On failure fall back to FinalAnswer, the main path is not affected":   *)
(* whatever fails in the style layer, an answer of the model reaches the   *)
(* client in one of its forms.  So an empty output, under status 200 all a *)
(* blocking client gets of an error, means that there is no answer, and    *)
(* after an error nothing was stored.                                      *)
EmptyOutputMeansNoAnswer ==
  \A t \in Replied :
    /\ turn[t].output = "" <=> turn[t].error \/ (turn[t].raw = "" /\ ~turn[t].applied)
    /\ turn[t].error <=> turn[t].remembered = {}

(* The history keeps what the model itself said, which is the last text    *)
(* that was streamed; the style layer never feeds back into later prompts. *)
RememberedIsStreamed ==
  \A t \in TurnIds :
    /\ turn[t].remembered \subseteq {"", "raw"}
    /\ "raw" \in turn[t].remembered =>
         \E n \in 1..Len(turn[t].streamed) :
           n = Len(turn[t].streamed) /\ turn[t].streamed[n] = "raw"

(* The metrics say truly what became of the style layer: a rewrite that    *)
(* has no fallback reason was applied, and nothing else was.               *)
MetricsExplainStyle ==
  \A t \in Replied, n \in 1..Len(pushed) :
    pushed[n].turn = t =>
      (turn[t].applied <=> pushed[n].rewrite /\ pushed[n].fallback = "")

(* A client that has its answer, or an error, finds the turn in the recent *)
(* metrics, until as many later turns have ended as the ring has slots.    *)
AnsweredIsMeasured ==
  \A t \in Replied :
    LET listed == Recent(0)
    IN \E n \in 1..Len(pushed) :
         /\ pushed[n].turn = t
         /\ n > Len(pushed) - RingSize =>
              listed[Len(pushed) - n + 1] = pushed[n]
=============================================================================
