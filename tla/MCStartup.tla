---------------------------- MODULE MCStartup ----------------------------
EXTENDS Startup

SomeTexts == {"", "default", "project", "user", "env", "openai", "openai_compat",
              "anthropic", "local_model"}

(* Files as they are written: a few settings, the rest left out. *)
With(settings) ==
  [f \in Fields |-> IF f \in DOMAIN settings THEN settings[f] ELSE ""]

SomeFiles ==
  {Empty} \union
  {With([f \in {"llm.provider", "llm.api_key", "skills.dir", "style.enabled",
                "storage.session_db_path"} |->
           CASE f = "llm.provider" -> provider
             [] f = "llm.api_key" -> key
             [] OTHER -> other]) :
     provider \in {"", "anthropic"},
     key \in {"", "user"}, other \in {"", "project"}}
  \union {With([f \in {"llm.provider", "style.backend", "skills.dir", "tool.timeout_s"} |->
                  CASE f = "llm.provider" -> "openai_compat"
                    [] f = "style.backend" -> "local_model"
                    [] OTHER -> "user"])}

Skill(dir, doc, name, bin, ready, body) ==
  [dir |-> dir, isDir |-> doc # "missing", doc |-> doc, name |-> name,
   bin |-> bin, ready |-> ready, body |-> body]

(* A good skill with or without its binary, a text-only one, a broken one,  *)
(* a stray file, one that is named like a built-in tool, and one that is    *)
(* named like the first.                                                    *)
SomeSkills ==
  { Skill("a", "good", "", "gh", TRUE, TRUE),
    Skill("b", "broken", "", "", TRUE, FALSE),
    Skill("c", "good", "echo", "gh", TRUE, TRUE),
    Skill("d", "good", "a", "jq", TRUE, TRUE),
    Skill("e", "good", "", "jq", FALSE, TRUE),
    Skill("f", "good", "", "", TRUE, TRUE),
    Skill("g", "missing", "", "", TRUE, FALSE) }

Sorted == <<"a", "b", "c", "d", "e", "f", "g">>
ListingOf(chosen) ==
  LET dirs == SelectSeq(Sorted, LAMBDA d : \E s \in chosen : s.dir = d)
  IN [i \in 1..Len(dirs) |-> CHOOSE s \in chosen : s.dir = dirs[i]]
SomeListings ==
  {ListingOf(chosen) : chosen \in {c \in SUBSET SomeSkills : Cardinality(c) =< 3}}
=============================================================================
