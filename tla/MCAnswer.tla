------------------------------ MODULE MCAnswer -------------------------------
(* Instances of Answer for TLC. *)
EXTENDS Answer

Structure(final, must, risk, scene, mode, allowed) ==
  [final |-> final, must |-> must, risk |-> risk, scene |-> scene, mode |-> mode,
   allowed |-> allowed]

(* Responses that allow, bypass or forbid the style layer, of every risk,  *)
(* with and without literals to keep, and with values nobody has named.    *)
SomeStructures ==
  {Structure("final", {}, "low", "chat", "bypass", TRUE),
   Structure("final", {}, "low", "emotional", "light_rewrite", FALSE),
   Structure("", Items, "high", "chat", "strong_rewrite", TRUE),
   Structure("final", {}, "medium", "unknown", "unknown", TRUE),
   Structure("final", Items, "low", "tutorial", "light_rewrite", TRUE)}

SomeMeasures ==
  {OtherMeasure} \union
  [turn : TurnIds, rewrite : BOOLEAN, fallback : Reasons]
=============================================================================
