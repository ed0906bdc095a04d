------------------------------ MODULE Startup ------------------------------
(***************************************************************************)
(* main: reads the layers of the configuration, builds the client, loads   *)
(* the skills and fills the tool registry, opens the store, serves, stops. *)
(*                                                                         *)
(* A layer gives each field a text; "" stands for the zero value of the    *)
(* field, which in Go is also what a field absent from the file has.       *)
(***************************************************************************)
EXTENDS Naturals, Sequences, FiniteSets

CONSTANTS
  Texts,     \* the values of fields, "" among them
  Files,     \* bound: the contents a configuration file may have
  Skills,    \* bound: the entries a skills directory may have
  Listings   \* bound: the skills directories, in the order of os.ReadDir

Merged == {"llm.provider", "llm.model", "llm.api_key", "llm.base_url", "llm.max_tokens",
           "llm.temperature", "search.api_key", "search.max_results", "server.addr",
           "storage.session_db_path", "skills.dir", "style.backend",
           "style.local_base_url", "style.local_model"}

(* mergeConfig has no line for these: the user's file cannot set them. *)
NotMerged == {"style.enabled", "tool.timeout_s", "tool.work_dir", "tool.base_dir",
              "memory.short_term_max", "server.read_timeout_s",
              "server.write_timeout_s", "server.idle_timeout_s"}

Fields == Merged \union NotMerged
Layers == [Fields -> Texts]

NoFile == <<>>         \* there is no file, or it cannot be read or parsed

Builtins == {"echo", "shell_exec", "file_read", "web_search"}

(* What the loader sees of a directory entry: SKILL.md is missing, broken  *)
(* or good, and then gives a name, a binary and a body, each perhaps empty. *)
SkillType == [dir : STRING, isDir : BOOLEAN, doc : {"missing", "broken", "good"},
              name : STRING, bin : STRING, ready : BOOLEAN, body : BOOLEAN]

ASSUME TextsAssumption == {"", "default", "env", "openai"} \subseteq Texts
ASSUME FilesAssumption == Files \subseteq Layers
ASSUME SkillsAssumption == \A skill \in Skills : skill \in SkillType /\ skill.dir # ""
ASSUME ListingsAssumption ==
  /\ Listings \subseteq Seq(Skills)
  /\ \A entries \in Listings :
       \A i, j \in 1..Len(entries) : i # j => entries[i].dir # entries[j].dir

VARIABLES
  project, user, envKey,   \* what is in the files and in the environment
  listing,                 \* what is in the skills directory
  at,                      \* main's next statement
  config,                  \* cfg
  client,                  \* the kind of bigModel
  todo,                    \* the skills still to be loaded, or tools to be registered
  found,                   \* skillResult.Tools, each the skill it comes from
  prompts, warnings,       \* names of skills
  registry,                \* what the tool of a name runs
  style, store

inputs == <<project, user, envKey, listing>>
skills == <<todo, found, prompts, warnings>>
vars == <<inputs, at, config, client, skills, registry, style, store>>

Empty == [f \in Fields |-> ""]

defaultConfig ==
  [f \in Fields |->
     CASE f = "llm.provider" -> "openai"
       [] f \in {"server.addr", "server.read_timeout_s", "server.write_timeout_s",
                 "server.idle_timeout_s", "llm.model", "llm.max_tokens",
                 "llm.temperature", "style.enabled", "style.backend",
                 "tool.timeout_s", "memory.short_term_max"} -> "default"
       [] OTHER -> ""]

Init ==
  /\ project \in Files \union {NoFile}
  /\ user \in Files \union {NoFile}
  /\ envKey \in {"", "env"}
  /\ listing \in Listings \union {<<>>}     \* no directory, no skills
  /\ at = "loading" /\ config = Empty
  /\ client = "none" /\ style = "none" /\ store = "none"
  /\ todo = <<>> /\ found = <<>> /\ prompts = <<>> /\ warnings = {}
  /\ registry = <<>>

-----------------------------------------------------------------------------
(* The configuration.                                                      *)

(* A file that cannot be read or parsed is a warning, and the defaults     *)
(* apply; a file that can has no defaults.                                 *)
LoadConfig ==
  /\ at = "loading" /\ at' = "merging"
  /\ config' = IF project = NoFile THEN defaultConfig ELSE project
  /\ UNCHANGED <<inputs, client, skills, registry, style, store>>

mergeConfigAll(base, override) ==
  [f \in Fields |-> IF f \in Merged THEN override[f] ELSE base[f]]
mergeConfig(base, override) ==
  [f \in Fields |-> IF f \in Merged /\ override[f] # "" THEN override[f] ELSE base[f]]

MergeUser ==
  /\ at = "merging" /\ at' = "overriding"
  /\ config' = IF user = NoFile THEN config ELSE mergeConfig(config, user)
  /\ UNCHANGED <<inputs, client, skills, registry, style, store>>

(* GO_AGENT_LLM_API_KEY; the search key of the environment is read where    *)
(* the search tool is built.                                               *)
OverrideByEnv ==
  /\ at = "overriding" /\ at' = "connecting"
  /\ config' = IF envKey = "" THEN config ELSE [config EXCEPT !["llm.api_key"] = envKey]
  /\ UNCHANGED <<inputs, client, skills, registry, style, store>>

Exit ==
  /\ at' = "exited"
  /\ UNCHANGED <<inputs, config, client, skills, registry, style, store>>

(* The anthropic client insists on a key.                                  *)
Buildable(cfg) ==
  \/ cfg["llm.provider"] \in {"openai", "openai_compat", "ollama"}
  \/ cfg["llm.provider"] = "anthropic" /\ cfg["llm.api_key"] # ""

BuildClient ==
  /\ at = "connecting"
  /\ Buildable(config)
  /\ at' = "scanning"
  /\ client' = config["llm.provider"]
  /\ UNCHANGED <<inputs, config, skills, registry, style, store>>

BuildClientFails == at = "connecting" /\ ~Buildable(config) /\ Exit

-----------------------------------------------------------------------------
(* The skills.                                                             *)

(* No directory is configured, it does not exist, or reading it fails.     *)
ScanSkills ==
  /\ at = "scanning" /\ at' = "reading"
  /\ todo' = IF config["skills.dir"] = "" THEN <<>> ELSE listing
  /\ UNCHANGED <<inputs, config, client, found, prompts, warnings, registry, style, store>>

SkillNameAsWritten(skill) == skill.name
SkillName(skill) == IF skill.name = "" THEN skill.dir ELSE skill.name

(* Plain files and directories without a SKILL.md are passed over; one     *)
(* that does not parse is a warning.  A binary or a variable that is       *)
(* missing (~ready) is a warning too, and the tool is offered all the same. *)
Loads(skill) == skill.isDir /\ skill.doc = "good"
Warns(skill) == /\ skill.isDir
                /\ skill.doc = "broken" \/ (skill.doc = "good" /\ ~skill.ready)

(* After a skill comes the next, whatever became of it. *)
RestStopsAtError(queue) == IF Head(queue).doc = "broken" THEN <<>> ELSE Tail(queue)
RestStuckAtFiles(queue) == IF Head(queue).isDir THEN Tail(queue) ELSE queue
Rest(queue) == Tail(queue)

(* One turn of the loop of LoadSkillsDir. *)
LoadSkill ==
  /\ at = "reading" /\ todo # <<>>
  /\ todo' = Rest(todo)
  /\ LET skill == Head(todo)
     IN /\ found' = IF Loads(skill) /\ skill.bin # "" THEN Append(found, skill) ELSE found
        /\ prompts' = IF Loads(skill) /\ skill.body THEN Append(prompts, SkillName(skill))
                                                   ELSE prompts
        /\ warnings' = IF Warns(skill) THEN warnings \union {skill.dir} ELSE warnings
  /\ UNCHANGED <<inputs, at, config, client, registry, style, store>>

SkillsLoaded ==
  /\ at = "reading" /\ todo = <<>>
  /\ at' = "registering"
  /\ todo' = found
  /\ registry' = [name \in Builtins |-> "builtin"]     \* registerBuiltinTools
  /\ UNCHANGED <<inputs, config, client, found, prompts, warnings, style, store>>

WithTool(reg, name, run) ==
  [n \in DOMAIN reg \union {name} |-> IF n = name THEN run ELSE reg[n]]

(* Register refuses a name that is taken; main turns that into a warning.  *)
RegisterSkillOverwrites ==
  /\ at = "registering" /\ todo # <<>>
  /\ todo' = Tail(todo)
  /\ registry' = WithTool(registry, SkillName(Head(todo)), Head(todo).bin)
  /\ UNCHANGED <<inputs, at, config, client, found, prompts, warnings, style, store>>
RegisterSkillQuietly ==
  /\ at = "registering" /\ todo # <<>>
  /\ todo' = Tail(todo)
  /\ registry' = IF SkillName(Head(todo)) \in DOMAIN registry THEN registry
                 ELSE WithTool(registry, SkillName(Head(todo)), Head(todo).bin)
  /\ UNCHANGED <<inputs, at, config, client, found, prompts, warnings, style, store>>
RegisterSkill ==
  /\ at = "registering" /\ todo # <<>>
  /\ todo' = Tail(todo)
  /\ LET name == SkillName(Head(todo))
     IN IF name \in DOMAIN registry
        THEN warnings' = warnings \union {Head(todo).dir} /\ UNCHANGED registry
        ELSE registry' = WithTool(registry, name, Head(todo).bin) /\ UNCHANGED warnings
  /\ UNCHANGED <<inputs, at, config, client, found, prompts, style, store>>

-----------------------------------------------------------------------------
(* The style processor (every backend but local_model is the rewriter),    *)
(* the store, and the server.                                              *)

BuildStyle ==
  /\ at = "registering" /\ todo = <<>>
  /\ at' = "opening"
  /\ style' = CASE config["style.enabled"] = "" -> "none"
                [] config["style.enabled"] # "" /\ config["style.backend"] = "local_model"
                     -> "local_model"
                [] OTHER -> "prompt_rewriter"
  /\ UNCHANGED <<inputs, config, client, skills, registry, store>>

OpenStore ==
  /\ at = "opening"
  /\ at' = "serving"
  /\ store' = IF config["storage.session_db_path"] = "" THEN "memory" ELSE "bolt"
  /\ UNCHANGED <<inputs, config, client, skills, registry, style>>

(* The bucket cannot be opened or read: no server. *)
OpenStoreFails ==
  /\ at = "opening" /\ config["storage.session_db_path"] # ""
  /\ Exit

ListenFails == at = "serving" /\ Exit

(* A signal; Shutdown ends, or gives up after its 10 s, and the error is   *)
(* ignored; only then is the store closed.                                 *)
Signal ==
  /\ at = "serving"
  /\ at' = "stopping"
  /\ UNCHANGED <<inputs, config, client, skills, registry, style, store>>

CloseStore ==
  /\ at = "stopping"
  /\ at' = "stopped"
  /\ store' = "closed"
  /\ UNCHANGED <<inputs, config, client, skills, registry, style>>

Starting ==
  \/ LoadConfig \/ MergeUser \/ OverrideByEnv \/ BuildClient \/ BuildClientFails
  \/ ScanSkills \/ LoadSkill \/ SkillsLoaded \/ RegisterSkill
  \/ BuildStyle \/ OpenStore \/ OpenStoreFails

Next == Starting \/ ListenFails \/ Signal \/ CloseStore

Spec == Init /\ [][Next]_vars

(* main runs until it serves; nobody has to send a signal. *)
FairSpec == Spec /\ WF_vars(Starting) /\ WF_vars(CloseStore)

-----------------------------------------------------------------------------
Started == at \in {"serving", "stopping", "stopped"}

Names == {s.name : s \in Skills} \union {s.dir : s \in Skills}

TypeOK ==
  /\ at \in {"loading", "merging", "overriding", "connecting", "scanning", "reading",
             "registering", "opening", "serving", "stopping", "stopped", "exited"}
  /\ config \in Layers
  /\ client \in {"none", "openai", "openai_compat", "ollama", "anthropic"}
  /\ todo \in Seq(Skills) /\ found \in Seq(Skills)
  /\ prompts \in Seq(Names \ {""})
  /\ warnings \subseteq {s.dir : s \in Skills}
  /\ DOMAIN registry \subseteq Builtins \union (Names \ {""})
  /\ \A n \in DOMAIN registry : registry[n] \in {"builtin"} \union {s.bin : s \in Skills}
  /\ style \in {"none", "local_model", "prompt_rewriter"}
  /\ store \in {"none", "memory", "bolt", "closed"}

(* "Environment variables override everything else", the user's file the   *)
(* project's, and a layer that is silent about a setting takes nothing     *)
(* away: once started, every setting a layer may override has the value of *)
(* the highest layer that gives one, and the server never runs without a   *)
(* model a lower layer has configured.                                     *)
HighestLayerWins ==
  Started =>
    \A f \in Merged :
      LET base == IF project = NoFile THEN defaultConfig ELSE project
          given == <<IF f = "llm.api_key" THEN envKey ELSE "",
                     IF user = NoFile THEN "" ELSE user[f],
                     base[f]>>
          giving == {i \in 1..3 : given[i] # ""}
      IN /\ giving = {} => config[f] = ""
         /\ \A i \in giving :
              (\A j \in giving : i =< j) => config[f] = given[i]

Good == IF config["skills.dir"] = "" THEN {}
        ELSE {i \in 1..Len(listing) : listing[i].isDir /\ listing[i].doc = "good"}
Runs(name, bin) == name \in DOMAIN registry /\ registry[name] = bin
(* The skills the server offers do not depend on their neighbours: a       *)
(* broken one, or one whose name is taken, hides no other.  In the order   *)
(* of the directory, the first to ask for a free name gets it.             *)
FirstSkillWins ==
  Started =>
    \A i \in Good :
      /\ listing[i].body =>
           \E k \in 1..Len(prompts) : prompts[k] = SkillName(listing[i])
      /\ listing[i].bin # "" =>
           \/ SkillName(listing[i]) \in Builtins
           \/ Runs(SkillName(listing[i]), listing[i].bin)
           \/ \E j \in Good : /\ j < i /\ listing[j].bin # ""
                              /\ SkillName(listing[j]) = SkillName(listing[i])

(* A skill that is offered but cannot work, because its name is taken or   *)
(* its binary is missing, never goes unreported.                           *)
NoSkillFailsSilently ==
  Started =>
    \A i \in Good :
      listing[i].bin # "" =>
        \/ listing[i].ready /\ Runs(SkillName(listing[i]), listing[i].bin)
        \/ listing[i].dir \in warnings

(* What a name runs never changes once it is registered: no skill takes    *)
(* the place of a built-in tool or of another skill.                       *)
NamesKeepTheirTool ==
  [][\A n \in DOMAIN registry : n \in DOMAIN registry' /\ registry'[n] = registry[n]]_vars

(* Starting comes to an end, and what was serving and is told to stop      *)
(* closes its store.                                                       *)
StartupEnds ==
  /\ <>(at \in {"serving", "stopping", "stopped", "exited"})
  /\ at = "stopping" ~> store = "closed"
=============================================================================
