--------------------------- MODULE StartupProofs ----------------------------
(***************************************************************************)
(* The start of the server, for any files, any values of the settings and  *)
(* any skills directory.                                                   *)
(***************************************************************************)
EXTENDS Startup, SequenceTheorems, TLAPS

LEMMA Assumptions ==
  /\ "" \in Texts /\ "default" \in Texts /\ "env" \in Texts /\ "openai" \in Texts
  /\ Files \subseteq Layers
  /\ \A skill \in Skills : skill \in SkillType /\ skill.dir # ""
  /\ Listings \subseteq Seq(Skills)
  /\ \A entries \in Listings :
       \A i, j \in 1..Len(entries) : i # j => entries[i].dir # entries[j].dir
BY TextsAssumption, FilesAssumption, SkillsAssumption, ListingsAssumption

-----------------------------------------------------------------------------
(* The configuration, layer by layer.                                      *)

ProjectLayer == IF project = NoFile THEN defaultConfig ELSE project

WithUser == IF user = NoFile THEN ProjectLayer ELSE mergeConfig(ProjectLayer, user)

WithEnv == IF envKey = "" THEN WithUser ELSE [WithUser EXCEPT !["llm.api_key"] = envKey]

InputsType ==
  /\ project \in Layers \union {NoFile} /\ user \in Layers \union {NoFile}
  /\ envKey \in {"", "env"}
  /\ listing \in Seq(Skills)
  /\ \A i, j \in 1..Len(listing) : i # j => listing[i].dir # listing[j].dir

Statements ==
  {"loading", "merging", "overriding", "connecting", "scanning", "reading",
   "registering", "opening", "serving", "stopping", "stopped", "exited"}

ConfigInv ==
  /\ at \in Statements /\ config \in Layers
  /\ at = "merging" => config = ProjectLayer
  /\ at = "overriding" => config = WithUser
  /\ at \notin {"loading", "merging", "overriding"} => config = WithEnv

LEMMA LayersType ==
  ASSUME InputsType
  PROVE  ProjectLayer \in Layers /\ WithUser \in Layers /\ WithEnv \in Layers
<1>1. defaultConfig \in Layers
  BY Assumptions DEF defaultConfig, Layers
<1>2. ProjectLayer \in Layers
  BY <1>1 DEF InputsType, ProjectLayer
<1>3. WithUser \in Layers
  <2>1. \A base, over \in Layers : mergeConfig(base, over) \in Layers
    BY DEF mergeConfig, Layers
  <2> QED
    BY <1>2, <2>1 DEF InputsType, WithUser
<1>4. WithEnv \in Layers
  BY <1>3, Assumptions DEF InputsType, WithEnv, Layers
<1> QED
  BY <1>2, <1>3, <1>4

LEMMA InputsInvariant == Spec => []InputsType
<1>1. Init => InputsType
  <2> SUFFICES ASSUME Init
               PROVE  InputsType
    OBVIOUS
  <2>1. project \in Layers \union {NoFile} /\ user \in Layers \union {NoFile} /\ envKey \in {"", "env"}
    BY Assumptions DEF Init
  <2>2. CASE listing \in Listings
    BY <2>1, <2>2, Assumptions DEF InputsType
  <2>3. CASE listing = <<>>
    <3>1. listing \in Seq(Skills) /\ 1..Len(listing) = {}
      BY <2>3
    <3> QED
      BY <2>1, <3>1 DEF InputsType
  <2> QED
    BY <2>2, <2>3 DEF Init
<1>2. InputsType /\ [Next]_vars => InputsType'
  <2> SUFFICES ASSUME InputsType, [Next]_vars
               PROVE  InputsType'
    OBVIOUS
  <2>1. UNCHANGED inputs
    BY DEF Next, Starting, LoadConfig, MergeUser, OverrideByEnv, BuildClient, BuildClientFails,
       ScanSkills, LoadSkill, SkillsLoaded, RegisterSkill, BuildStyle, OpenStore, OpenStoreFails,
       ListenFails, Signal, CloseStore, Exit, vars
  <2> QED
    BY <2>1 DEF InputsType, inputs
<1> QED
  BY <1>1, <1>2, PTL DEF Spec

(* The steps after the configuration is read leave it as it is. *)
AfterConfig ==
  \/ BuildClient \/ BuildClientFails \/ ScanSkills \/ LoadSkill \/ SkillsLoaded \/ RegisterSkill
  \/ BuildStyle \/ OpenStore \/ OpenStoreFails \/ ListenFails \/ Signal \/ CloseStore

LEMMA ConfigStep ==
  ASSUME InputsType, ConfigInv, [Next]_vars
  PROVE  ConfigInv'
<1>1. UNCHANGED inputs
  BY DEF Next, Starting, LoadConfig, MergeUser, OverrideByEnv, BuildClient, BuildClientFails,
     ScanSkills, LoadSkill, SkillsLoaded, RegisterSkill, BuildStyle, OpenStore, OpenStoreFails,
     ListenFails, Signal, CloseStore, Exit, vars
<1>2. ProjectLayer' = ProjectLayer /\ WithUser' = WithUser /\ WithEnv' = WithEnv
  BY <1>1 DEF inputs, ProjectLayer, WithUser, WithEnv
<1>3. CASE LoadConfig
  BY <1>2, <1>3, LayersType DEF LoadConfig, ConfigInv, ProjectLayer, Statements
<1>4. CASE MergeUser
  BY <1>2, <1>4, LayersType DEF MergeUser, ConfigInv, WithUser, Statements
<1>5. CASE OverrideByEnv
  BY <1>2, <1>5, LayersType DEF OverrideByEnv, ConfigInv, WithEnv, Statements
<1>6. CASE AfterConfig
  <2>1. /\ at \notin {"loading", "merging", "overriding"} /\ UNCHANGED config
        /\ at' \in Statements \ {"loading", "merging", "overriding"}
    BY <1>6 DEF AfterConfig, BuildClient, BuildClientFails, ScanSkills, LoadSkill, SkillsLoaded,
       RegisterSkill, BuildStyle, OpenStore, OpenStoreFails, ListenFails, Signal, CloseStore, Exit,
       Statements
  <2> QED
    BY <1>2, <2>1 DEF ConfigInv
<1>7. CASE UNCHANGED vars
  BY <1>2, <1>7 DEF ConfigInv, vars
<1> QED
  BY <1>3, <1>4, <1>5, <1>6, <1>7 DEF Next, Starting, AfterConfig

LEMMA ConfigInvariant == Spec => [](InputsType /\ ConfigInv)
<1>1. Init => ConfigInv
  <2>1. Empty \in Layers
    BY Assumptions DEF Empty, Layers
  <2> QED
    BY <2>1 DEF Init, ConfigInv, Statements
<1> QED
  BY <1>1, ConfigStep, InputsInvariant, PTL DEF Spec

LEMMA FirstOfThree ==
  ASSUME NEW n \in {1, 2, 3}
  PROVE  (n =< 1 => n = 1) /\ (n =< 2 => n = 1 \/ n = 2)
OBVIOUS

(* The environment wins over the user's file, that over the project's, and *)
(* an empty setting takes nothing away, for any files and any settings.    *)
THEOREM StartupHighestLayerWins == Spec => []HighestLayerWins
<1>1. InputsType /\ ConfigInv => HighestLayerWins
  <2> SUFFICES ASSUME InputsType, ConfigInv, Started, NEW f \in Merged
               PROVE  LET base == IF project = NoFile THEN defaultConfig ELSE project
                          given == <<IF f = "llm.api_key" THEN envKey ELSE "",
                                     IF user = NoFile THEN "" ELSE user[f],
                                     base[f]>>
                          giving == {i \in 1..3 : given[i] # ""}
                      IN /\ giving = {} => config[f] = ""
                         /\ \A i \in giving :
                              (\A j \in giving : i =< j) => config[f] = given[i]
    BY DEF HighestLayerWins
  <2> DEFINE first == IF f = "llm.api_key" THEN envKey ELSE ""
             second == IF user = NoFile THEN "" ELSE user[f]
             third == ProjectLayer[f]
             given == <<first, second, third>>
             giving == {i \in 1..3 : given[i] # ""}
  <2>1. config = WithEnv
    BY DEF ConfigInv, Started
  <2>2. f \in Fields
    BY DEF Fields
  <2>3. WithUser[f] = IF second # "" THEN second ELSE third
    BY <2>2 DEF WithUser, mergeConfig
  <2>4. config[f] = IF first # "" THEN first ELSE WithUser[f]
    BY <2>1, <2>2, LayersType DEF WithEnv, Layers
  <2>5. given[1] = first /\ given[2] = second /\ given[3] = third /\ 1..3 = {1, 2, 3}
    OBVIOUS
  <2> HIDE DEF first, second, third, given
  <2>6. giving = {} => config[f] = ""
    BY <2>3, <2>4, <2>5
  <2>7. ASSUME NEW i \in giving, \A j \in giving : i =< j
        PROVE  config[f] = given[i]
    <3>1. i \in {1, 2, 3} /\ given[i] # ""
      BY <2>5
    <3>2. first # "" => i = 1
      <4>1. first # "" => 1 \in giving
        BY <2>5
      <4>2. first # "" => i =< 1
        BY <2>7, <4>1
      <4> QED
        BY <3>1, <4>2, FirstOfThree
    <3>3. second # "" => i = 1 \/ i = 2
      <4>1. second # "" => 2 \in giving
        BY <2>5
      <4>2. second # "" => i =< 2
        BY <2>7, <4>1
      <4> QED
        BY <3>1, <4>2, FirstOfThree
    <3> QED
      BY <2>3, <2>4, <2>5, <3>1, <3>2, <3>3
  <2> QED
    BY <2>6, <2>7 DEF given, first, second, third, ProjectLayer
<1> QED
  BY <1>1, ConfigInvariant, PTL

-----------------------------------------------------------------------------
(* The skills: what has been made of the first k entries of the directory, *)
(* and which of the tools found are in the registry.                       *)

Source == IF config["skills.dir"] = "" THEN <<>> ELSE listing

(* What is left of a sequence after its first k elements. *)
Remaining(rest, all, k) ==
  /\ Len(rest) = Len(all) - k
  /\ \A i \in 1..Len(rest) : rest[i] = all[k + i]

HasTool(skill) == skill.bin # ""

(* What the first k entries have left behind: prompts, warnings, and the   *)
(* tools found, in the order of the entries.                               *)
Read(k) ==
  /\ \A i \in 1..k :
       Loads(Source[i]) =>
         /\ Source[i].body => \E n \in 1..Len(prompts) : prompts[n] = SkillName(Source[i])
         /\ HasTool(Source[i]) =>
              /\ \E m \in 1..Len(found) : found[m] = Source[i]
              /\ Source[i].ready \/ Source[i].dir \in warnings
  /\ \A m \in 1..Len(found) : \E i \in 1..k : found[m] = Source[i] /\ Loads(Source[i])
  /\ \A m \in 1..Len(found) : HasTool(found[m])
  /\ \A m, n \in 1..Len(found) :
       m < n => \E i, j \in 1..k : i < j /\ found[m] = Source[i] /\ found[n] = Source[j]

(* The first d tools found have had their turn at the registry. *)
Registered(d) ==
  /\ Builtins \subseteq DOMAIN registry
  /\ \A n \in DOMAIN registry \ Builtins : \E m \in 1..d : SkillName(found[m]) = n
  /\ \A m \in 1..d :
       \/ Runs(SkillName(found[m]), found[m].bin)
       \/ /\ found[m].dir \in warnings
          /\ \/ SkillName(found[m]) \in Builtins
             \/ \E o \in 1..d : o < m /\ SkillName(found[o]) = SkillName(found[m])

SkillsInv ==
  /\ at \in {"loading", "merging", "overriding", "connecting", "scanning", "reading"} => registry = <<>>
  /\ at \in {"loading", "merging", "overriding", "connecting", "scanning"} => found = <<>> /\ prompts = <<>>
  /\ at = "reading" => \E k \in 0..Len(Source) : Remaining(todo, Source, k) /\ Read(k)
  /\ at \in {"registering", "opening", "serving", "stopping", "stopped"} => Read(Len(Source))
  /\ at = "registering" => \E d \in 0..Len(found) : Remaining(todo, found, d) /\ Registered(d)
  /\ at \in {"opening", "serving", "stopping", "stopped"} => Registered(Len(found))

SkillNames == Names \ {""}

SkillsType ==
  /\ client \in {"none", "openai", "openai_compat", "ollama", "anthropic"}
  /\ todo \in Seq(Skills) /\ found \in Seq(Skills)
  /\ prompts \in Seq(SkillNames)
  /\ warnings \subseteq {s.dir : s \in Skills}
  /\ DOMAIN registry \subseteq Builtins \union SkillNames
  /\ \A n \in DOMAIN registry : registry[n] \in {"builtin"} \union {s.bin : s \in Skills}
  /\ style \in {"none", "local_model", "prompt_rewriter"}
  /\ store \in {"none", "memory", "bolt", "closed"}

LEMMA SourceType ==
  ASSUME InputsType
  PROVE  /\ Source \in Seq(Skills) /\ Len(Source) \in Nat
         /\ \A i \in 1..Len(Source) : Source[i] \in Skills
         /\ \A i, j \in 1..Len(Source) : Source[i].dir = Source[j].dir => i = j
<1>1. CASE config["skills.dir"] = ""
  <2>1. Source = <<>>
    BY <1>1 DEF Source
  <2>2. Source \in Seq(Skills) /\ Len(Source) = 0 /\ 1..Len(Source) = {}
    BY <2>1
  <2> QED
    BY <2>2
<1>2. CASE config["skills.dir"] # ""
  <2>1. Source = listing
    BY <1>2 DEF Source
  <2>2. listing \in Seq(Skills) /\ \A i, j \in 1..Len(listing) : i # j => listing[i].dir # listing[j].dir
    BY DEF InputsType
  <2>3. Len(listing) \in Nat /\ \A i \in 1..Len(listing) : listing[i] \in Skills
    BY <2>2
  <2> QED
    BY <2>1, <2>2, <2>3
<1> QED
  BY <1>1, <1>2

LEMMA SkillNameType ==
  ASSUME NEW skill \in Skills
  PROVE  SkillName(skill) \in SkillNames
BY Assumptions DEF SkillName, Names, SkillNames

LEMMA RemainingTail ==
  ASSUME NEW S, NEW rest \in Seq(S), NEW all \in Seq(S), NEW k \in 0..Len(all),
         Remaining(rest, all, k), rest # <<>>
  PROVE  /\ Remaining(Tail(rest), all, k + 1)
         /\ k + 1 \in 1..Len(all) /\ k + 1 \in 0..Len(all)
         /\ Head(rest) = all[k + 1] /\ Head(rest) \in S /\ Tail(rest) \in Seq(S)
<1>1. /\ Len(rest) \in Nat /\ Len(rest) >= 1 /\ Len(all) \in Nat /\ k \in Nat
      /\ Len(Tail(rest)) = Len(rest) - 1 /\ Head(rest) = rest[1]
      /\ Head(rest) \in S /\ Tail(rest) \in Seq(S)
      /\ \A i \in 1..Len(Tail(rest)) : Tail(rest)[i] = rest[i + 1]
  OBVIOUS
<1>2. Len(rest) = Len(all) - k /\ \A i \in 1..Len(rest) : rest[i] = all[k + i]
  BY DEF Remaining
<1>3. k + 1 \in 1..Len(all) /\ k + 1 \in 0..Len(all) /\ Len(Tail(rest)) = Len(all) - (k + 1)
  BY <1>1, <1>2
<1>4. Head(rest) = all[k + 1]
  BY <1>1, <1>2
<1>5. ASSUME NEW i \in 1..Len(Tail(rest))
      PROVE  Tail(rest)[i] = all[(k + 1) + i]
  <2>1. i \in Nat /\ i + 1 \in 1..Len(rest)
    BY <1>1
  <2>2. Tail(rest)[i] = all[k + (i + 1)]
    BY <1>1, <1>2, <2>1
  <2>3. k + (i + 1) = (k + 1) + i
    BY <1>1, <2>1
  <2> QED
    BY <2>2, <2>3
<1> QED
  BY <1>1, <1>3, <1>4, <1>5 DEF Remaining

LEMMA RemainingEnds ==
  ASSUME NEW S, NEW all \in Seq(S), NEW k \in 0..Len(all)
  PROVE  /\ Remaining(<<>>, all, k) => k = Len(all)
         /\ Remaining(all, all, 0) /\ 0 \in 0..Len(all)
<1>1. Len(all) \in Nat /\ k \in Nat /\ Len(<<>>) = 0
  OBVIOUS
<1>2. \A i \in 1..Len(all) : 0 + i = i
  BY <1>1
<1> QED
  BY <1>1, <1>2 DEF Remaining

-----------------------------------------------------------------------------
(* The steps.                                                              *)

(* Those that neither load nor register a skill. *)
OtherSteps ==
  \/ LoadConfig \/ MergeUser \/ OverrideByEnv \/ BuildClient \/ BuildClientFails
  \/ BuildStyle \/ OpenStore \/ OpenStoreFails \/ ListenFails \/ Signal \/ CloseStore

LEMMA OtherTypes ==
  ASSUME InputsType, ConfigInv, SkillsType, OtherSteps \/ UNCHANGED vars
  PROVE  SkillsType'
<1>1. UNCHANGED <<skills, registry>>
  BY DEF OtherSteps, LoadConfig, MergeUser, OverrideByEnv, BuildClient, BuildClientFails,
     BuildStyle, OpenStore, OpenStoreFails, ListenFails, Signal, CloseStore, Exit, vars
<1>2. client' \in {"none", "openai", "openai_compat", "ollama", "anthropic"}
  BY DEF SkillsType, OtherSteps, LoadConfig, MergeUser, OverrideByEnv, BuildClient,
     BuildClientFails, BuildStyle, OpenStore, OpenStoreFails, ListenFails, Signal, CloseStore,
     Exit, vars, Buildable
<1>3. /\ style' \in {"none", "local_model", "prompt_rewriter"}
      /\ store' \in {"none", "memory", "bolt", "closed"}
  BY DEF SkillsType, OtherSteps, LoadConfig, MergeUser, OverrideByEnv, BuildClient,
     BuildClientFails, BuildStyle, OpenStore, OpenStoreFails, ListenFails, Signal, CloseStore,
     Exit, vars
<1> QED
  BY <1>1, <1>2, <1>3 DEF SkillsType, skills

LEMMA OtherSkills ==
  ASSUME InputsType, ConfigInv, SkillsType, SkillsInv, OtherSteps \/ UNCHANGED vars
  PROVE  SkillsInv'
<1>1. UNCHANGED <<listing, skills, registry>>
  BY DEF OtherSteps, LoadConfig, MergeUser, OverrideByEnv, BuildClient, BuildClientFails,
     BuildStyle, OpenStore, OpenStoreFails, ListenFails, Signal, CloseStore, Exit, vars, inputs
<1> DEFINE Before == {"loading", "merging", "overriding", "connecting", "scanning"}
           After == {"opening", "serving", "stopping", "stopped"}
<1>2. \/ at \in Before /\ at' \in Before
      \/ UNCHANGED <<at, config>>
      \/ at = "registering" /\ todo = <<>> /\ at' = "opening" /\ UNCHANGED config
      \/ at \in After /\ at' \in After /\ UNCHANGED config
      \/ at' = "exited"
  BY DEF OtherSteps, LoadConfig, MergeUser, OverrideByEnv, BuildClient, BuildClientFails,
     BuildStyle, OpenStore, OpenStoreFails, ListenFails, Signal, CloseStore, Exit, vars
<1>3. UNCHANGED config => /\ Source' = Source
                          /\ \A k : Read(k)' <=> Read(k)
                          /\ \A d : Registered(d)' <=> Registered(d)
  BY <1>1 DEF Source, Read, Registered, Runs, skills
<1>4. CASE at \in Before /\ at' \in Before
  BY <1>1, <1>4 DEF SkillsInv, skills
<1>5. CASE UNCHANGED <<at, config>>
  <2>1. \A k : Remaining(todo, Source, k)' <=> Remaining(todo, Source, k)
    BY <1>1, <1>3, <1>5 DEF Remaining, skills
  <2>2. \A d : Remaining(todo, found, d)' <=> Remaining(todo, found, d)
    BY <1>1 DEF Remaining, skills
  <2>3. UNCHANGED <<at, registry, found, prompts, Source>>
    BY <1>1, <1>3, <1>5 DEF skills
  <2> QED
    BY <1>3, <1>5, <2>1, <2>2, <2>3 DEF SkillsInv
<1>6. CASE at = "registering" /\ todo = <<>> /\ at' = "opening" /\ UNCHANGED config
  <2>1. PICK d \in 0..Len(found) : Remaining(todo, found, d) /\ Registered(d)
    BY <1>6 DEF SkillsInv
  <2>2. d = Len(found)
    BY <1>6, <2>1, RemainingEnds DEF SkillsType
  <2>3. Registered(Len(found))' /\ Read(Len(Source))'
    BY <1>1, <1>3, <1>6, <2>1, <2>2 DEF SkillsInv, skills
  <2> QED
    BY <1>6, <2>3 DEF SkillsInv
<1>7. CASE at \in After /\ at' \in After /\ UNCHANGED config
  <2>1. Registered(Len(found))' /\ Read(Len(Source))'
    BY <1>1, <1>3, <1>7 DEF SkillsInv, skills
  <2> QED
    BY <1>7, <2>1 DEF SkillsInv
<1>8. CASE at' = "exited"
  BY <1>8 DEF SkillsInv
<1> QED
  BY <1>2, <1>4, <1>5, <1>6, <1>7, <1>8

LEMMA ScanStep ==
  ASSUME InputsType, SkillsType, SkillsInv, ScanSkills
  PROVE  SkillsType' /\ SkillsInv'
<1>1. /\ at = "scanning" /\ at' = "reading" /\ todo' = Source
      /\ UNCHANGED <<config, listing, client, found, prompts, warnings, registry, style, store>>
      /\ found = <<>> /\ prompts = <<>> /\ registry = <<>>
  BY DEF ScanSkills, Source, SkillsInv, inputs
<1>2. Source' = Source /\ Source \in Seq(Skills) /\ Len(Source) \in Nat
  BY <1>1, SourceType DEF Source
<1>3. Remaining(todo, Source, 0)' /\ 0 \in 0..Len(Source)
  BY <1>1, <1>2, RemainingEnds DEF Remaining
<1>4. Read(0)'
  BY <1>1 DEF Read
<1>5. SkillsInv'
  BY <1>1, <1>2, <1>3, <1>4 DEF SkillsInv
<1> QED
  BY <1>1, <1>2, <1>5 DEF SkillsType

(* One more entry of the directory. *)
LEMMA LoadStep ==
  ASSUME InputsType, SkillsType, SkillsInv, LoadSkill
  PROVE  SkillsType' /\ SkillsInv'
<1> DEFINE skill == Head(todo)
           IsTool == Loads(skill) /\ HasTool(skill)
<1>1. /\ at = "reading" /\ todo # <<>> /\ todo' = Tail(todo)
      /\ found' = IF IsTool THEN Append(found, skill) ELSE found
      /\ prompts' = IF Loads(skill) /\ skill.body THEN Append(prompts, SkillName(skill)) ELSE prompts
      /\ warnings' = IF Warns(skill) THEN warnings \union {skill.dir} ELSE warnings
      /\ UNCHANGED <<listing, at, config, client, registry, style, store>>
  BY DEF LoadSkill, Rest, inputs, HasTool
<1>2. PICK k \in Nat : k \in 0..Len(Source) /\ Remaining(todo, Source, k) /\ Read(k)
  <2>1. Len(Source) \in Nat
    BY SourceType
  <2>2. \A k \in 0..Len(Source) : k \in Nat
    BY <2>1
  <2> QED
    BY <1>1, <2>2 DEF SkillsInv
<1>3. /\ todo \in Seq(Skills) /\ found \in Seq(Skills) /\ prompts \in Seq(SkillNames)
      /\ Source \in Seq(Skills) /\ Source' = Source /\ Len(Source) \in Nat /\ k \in Nat
  BY <1>1, <1>2, SourceType DEF SkillsType, Source
<1> HIDE DEF IsTool
<1>4. /\ Remaining(Tail(todo), Source, k + 1) /\ k + 1 \in 0..Len(Source)
      /\ skill = Source[k + 1] /\ skill \in Skills /\ Tail(todo) \in Seq(Skills)
  BY <1>1, <1>2, <1>3, RemainingTail
<1>5. SkillName(skill) \in SkillNames
  BY <1>4, SkillNameType
<1>6. Loads(skill) /\ ~skill.ready => Warns(skill)
  BY DEF Loads, Warns
<1> HIDE DEF skill
<1>7. /\ found' \in Seq(Skills) /\ Len(found) \in Nat
      /\ \A m \in 1..Len(found) : m \in 1..Len(found') /\ found'[m] = found[m]
      /\ \A m \in 1..Len(found') :
           m \in 1..Len(found) \/ (m = Len(found) + 1 /\ found'[m] = skill /\ IsTool)
      /\ IsTool => Len(found) + 1 \in 1..Len(found') /\ found'[Len(found) + 1] = skill
  <2>1. CASE IsTool
    <3>1. found' = Append(found, skill)
      BY <1>1, <2>1
    <3> QED
      BY <1>3, <1>4, <2>1, <3>1
  <2>2. CASE ~IsTool
    <3>1. found' = found
      BY <1>1, <2>2
    <3> QED
      BY <1>3, <2>2, <3>1
  <2> QED
    BY <2>1, <2>2
<1>8. /\ prompts' \in Seq(SkillNames)
      /\ \A n \in 1..Len(prompts) : n \in 1..Len(prompts') /\ prompts'[n] = prompts[n]
      /\ Loads(skill) /\ skill.body =>
           \E n \in 1..Len(prompts') : prompts'[n] = SkillName(skill)
  <2>1. CASE Loads(skill) /\ skill.body
    <3>1. prompts' = Append(prompts, SkillName(skill))
      BY <1>1, <2>1
    <3>2. /\ prompts' \in Seq(SkillNames) /\ Len(prompts') = Len(prompts) + 1 /\ Len(prompts) \in Nat
          /\ prompts'[Len(prompts) + 1] = SkillName(skill)
          /\ \A n \in 1..Len(prompts) : n \in 1..Len(prompts') /\ prompts'[n] = prompts[n]
      BY <1>3, <1>5, <3>1
    <3>3. Len(prompts) + 1 \in 1..Len(prompts')
      BY <3>2
    <3> QED
      BY <3>2, <3>3
  <2>2. CASE ~(Loads(skill) /\ skill.body)
    <3>1. prompts' = prompts
      BY <1>1, <2>2
    <3> QED
      BY <1>3, <2>2, <3>1
  <2> QED
    BY <2>1, <2>2
<1>9. /\ warnings \subseteq warnings' /\ warnings' \subseteq {s.dir : s \in Skills}
      /\ Loads(skill) /\ ~skill.ready => skill.dir \in warnings'
  BY <1>1, <1>4, <1>6 DEF SkillsType
<1>10. \A i \in 1..(k + 1) : i \in 1..k \/ i = k + 1
  BY <1>3
<1>11. k + 1 \in 1..(k + 1) /\ \A i \in 1..k : i \in 1..(k + 1) /\ i < k + 1
  BY <1>3
<1>12. ASSUME NEW i \in 1..(k + 1), Loads(Source[i])
       PROVE  /\ Source[i].body => \E n \in 1..Len(prompts') : prompts'[n] = SkillName(Source[i])
              /\ HasTool(Source[i]) =>
                   /\ \E m \in 1..Len(found') : found'[m] = Source[i]
                   /\ Source[i].ready \/ Source[i].dir \in warnings'
  <2>1. CASE i \in 1..k
    <3>1. /\ Source[i].body => \E n \in 1..Len(prompts) : prompts[n] = SkillName(Source[i])
          /\ HasTool(Source[i]) =>
               /\ \E m \in 1..Len(found) : found[m] = Source[i]
               /\ Source[i].ready \/ Source[i].dir \in warnings
      BY <1>2, <1>12, <2>1 DEF Read
    <3> QED
      BY <1>7, <1>8, <1>9, <3>1
  <2>2. CASE i = k + 1
    <3>1. Source[i] = skill
      BY <1>4, <2>2
    <3>2. HasTool(Source[i]) => IsTool
      BY <1>12, <3>1 DEF IsTool
    <3> QED
      BY <1>7, <1>8, <1>9, <1>12, <3>1, <3>2
  <2> QED
    BY <1>10, <2>1, <2>2
<1>13. ASSUME NEW m \in 1..Len(found')
       PROVE  /\ \E i \in 1..(k + 1) : found'[m] = Source[i] /\ Loads(Source[i])
              /\ HasTool(found'[m])
  <2>1. CASE m \in 1..Len(found)
    BY <1>2, <1>7, <1>11, <2>1 DEF Read
  <2>2. CASE m \notin 1..Len(found)
    <3>1. found'[m] = Source[k + 1] /\ Loads(Source[k + 1]) /\ HasTool(Source[k + 1])
      BY <1>4, <1>7, <2>2 DEF IsTool
    <3> QED
      BY <1>11, <3>1
  <2> QED
    BY <2>1, <2>2
<1>14. ASSUME NEW m \in 1..Len(found'), NEW n \in 1..Len(found'), m < n
       PROVE  \E i, j \in 1..(k + 1) : i < j /\ found'[m] = Source[i] /\ found'[n] = Source[j]
  <2>0. m \in Nat /\ n \in Nat
    BY <1>7
  <2>1. CASE n \in 1..Len(found)
    <3>1. m \in 1..Len(found)
      BY <1>7, <1>14, <2>0, <2>1
    <3>2. PICK i, j \in 1..k : i < j /\ found[m] = Source[i] /\ found[n] = Source[j]
      BY <1>2, <1>14, <2>1, <3>1 DEF Read
    <3> QED
      BY <1>7, <1>11, <2>1, <3>1, <3>2
  <2>2. CASE n \notin 1..Len(found)
    <3>1. n = Len(found) + 1 /\ found'[n] = Source[k + 1] /\ m \in 1..Len(found)
      BY <1>4, <1>7, <1>14, <2>0, <2>2
    <3>2. PICK i \in 1..k : found[m] = Source[i]
      BY <1>2, <3>1 DEF Read
    <3> QED
      BY <1>7, <1>11, <3>1, <3>2
  <2> QED
    BY <2>1, <2>2
<1>15. Read(k + 1)'
  BY <1>3, <1>12, <1>13, <1>14 DEF Read
<1>16. Remaining(todo, Source, k + 1)'
  BY <1>1, <1>3, <1>4 DEF Remaining
<1>17. SkillsInv'
  BY <1>1, <1>3, <1>4, <1>15, <1>16 DEF SkillsInv
<1>18. SkillsType'
  BY <1>1, <1>4, <1>7, <1>8, <1>9 DEF SkillsType
<1> QED
  BY <1>17, <1>18

LEMMA LoadedStep ==
  ASSUME InputsType, SkillsType, SkillsInv, SkillsLoaded
  PROVE  SkillsType' /\ SkillsInv' /\ registry = <<>>
<1>1. /\ at = "reading" /\ todo = <<>> /\ at' = "registering" /\ todo' = found
      /\ registry' = [name \in Builtins |-> "builtin"] /\ registry = <<>>
      /\ UNCHANGED <<config, listing, client, found, prompts, warnings, style, store>>
  BY DEF SkillsLoaded, SkillsInv, inputs
<1>2. Source' = Source /\ Source \in Seq(Skills) /\ found \in Seq(Skills)
  BY <1>1, SourceType DEF Source, SkillsType
<1>3. PICK k \in 0..Len(Source) : Remaining(todo, Source, k) /\ Read(k)
  BY <1>1 DEF SkillsInv
<1>4. k = Len(Source)
  BY <1>1, <1>2, <1>3, RemainingEnds
<1>5. Read(Len(Source))'
  BY <1>1, <1>2, <1>3, <1>4 DEF Read
<1>6. Remaining(todo, found, 0)' /\ 0 \in 0..Len(found')
  BY <1>1, <1>2, RemainingEnds DEF Remaining
<1>7. Registered(0)'
  BY <1>1 DEF Registered
<1>8. SkillsInv'
  BY <1>1, <1>5, <1>6, <1>7 DEF SkillsInv
<1>9. SkillsType'
  BY <1>1, <1>2 DEF SkillsType
<1> QED
  BY <1>1, <1>8, <1>9

(* More warnings do not undo what was read. *)
LEMMA ReadKept ==
  ASSUME Read(Len(Source)), Source' = Source, found' = found, prompts' = prompts,
         warnings \subseteq warnings'
  PROVE  Read(Len(Source))'
<1> DEFINE k == Len(Source)
<1>1. k' = k
  OBVIOUS
<1> HIDE DEF k
<1>2. ASSUME NEW i \in 1..k, Loads(Source[i])
      PROVE  /\ Source[i].body => \E n \in 1..Len(prompts) : prompts[n] = SkillName(Source[i])
             /\ HasTool(Source[i]) =>
                  /\ \E m \in 1..Len(found) : found[m] = Source[i]
                  /\ Source[i].ready \/ Source[i].dir \in warnings'
  BY <1>2 DEF k, Read
<1>3. /\ \A m \in 1..Len(found) : \E i \in 1..k : found[m] = Source[i] /\ Loads(Source[i])
      /\ \A m \in 1..Len(found) : HasTool(found[m])
      /\ \A m, n \in 1..Len(found) :
           m < n => \E i, j \in 1..k : i < j /\ found[m] = Source[i] /\ found[n] = Source[j]
  BY DEF k, Read
<1>4. Read(k)'
  BY <1>1, <1>2, <1>3 DEF Read
<1> QED
  BY <1>4 DEF k

(* Register: a name that is free gets its tool, a name that is taken keeps *)
(* the one it has.                                                         *)
LEMMA RegisterStep ==
  ASSUME InputsType, SkillsType, SkillsInv, RegisterSkill
  PROVE  /\ SkillsType' /\ SkillsInv'
         /\ \A n \in DOMAIN registry : n \in DOMAIN registry' /\ registry'[n] = registry[n]
<1> DEFINE skill == Head(todo)
           name == SkillName(skill)
<1>1. /\ at = "registering" /\ todo # <<>> /\ todo' = Tail(todo)
      /\ \/ /\ name \in DOMAIN registry
            /\ warnings' = warnings \union {skill.dir} /\ UNCHANGED registry
         \/ /\ name \notin DOMAIN registry
            /\ registry' = WithTool(registry, name, skill.bin) /\ UNCHANGED warnings
      /\ UNCHANGED <<listing, at, config, client, found, prompts, style, store>>
  BY DEF RegisterSkill, inputs
<1>2. todo \in Seq(Skills) /\ found \in Seq(Skills) /\ Len(found) \in Nat /\ Source' = Source
  BY <1>1 DEF SkillsType, Source
<1>3. PICK d \in 0..Len(found) : Remaining(todo, found, d) /\ Registered(d)
  BY <1>1 DEF SkillsInv
<1>4. /\ Remaining(Tail(todo), found, d + 1) /\ d + 1 \in 0..Len(found)
      /\ skill = found[d + 1] /\ skill \in Skills /\ Tail(todo) \in Seq(Skills)
  BY <1>1, <1>2, <1>3, RemainingTail
<1>5. name \in SkillNames
  BY <1>4, SkillNameType
<1> HIDE DEF skill
<1>6. /\ warnings \subseteq warnings' /\ warnings' \subseteq {s.dir : s \in Skills}
      /\ name \in DOMAIN registry => skill.dir \in warnings'
  BY <1>1, <1>4 DEF SkillsType
<1>7. /\ DOMAIN registry' = DOMAIN registry \union {name}
      /\ \A n \in DOMAIN registry : registry'[n] = registry[n]
      /\ name \notin DOMAIN registry => registry'[name] = skill.bin
  BY <1>1 DEF WithTool
<1>8. /\ \A i \in 1..(d + 1) : i \in 1..d \/ i = d + 1
      /\ \A i \in 1..d : i \in 1..(d + 1) /\ i < d + 1
      /\ d + 1 \in 1..(d + 1)
  BY <1>2
<1>9. /\ Builtins \subseteq DOMAIN registry
      /\ \A n \in DOMAIN registry \ Builtins : \E m \in 1..d : SkillName(found[m]) = n
      /\ \A m \in 1..d :
           \/ Runs(SkillName(found[m]), found[m].bin)
           \/ /\ found[m].dir \in warnings
              /\ \/ SkillName(found[m]) \in Builtins
                 \/ \E o \in 1..d : o < m /\ SkillName(found[o]) = SkillName(found[m])
  BY <1>3 DEF Registered
<1>10. ASSUME NEW n \in DOMAIN registry' \ Builtins
       PROVE  \E m \in 1..(d + 1) : SkillName(found[m]) = n
  <2>1. CASE n \in DOMAIN registry
    BY <1>8, <1>9, <1>10, <2>1
  <2>2. CASE n = name
    BY <1>4, <1>8, <2>2
  <2> QED
    BY <1>7, <1>10, <2>1, <2>2
<1>11. ASSUME NEW m \in 1..(d + 1)
       PROVE  \/ Runs(SkillName(found[m]), found[m].bin)'
              \/ /\ found[m].dir \in warnings'
                 /\ \/ SkillName(found[m]) \in Builtins
                    \/ \E o \in 1..(d + 1) : o < m /\ SkillName(found[o]) = SkillName(found[m])
  <2>1. CASE m \in 1..d
    <3>1. CASE Runs(SkillName(found[m]), found[m].bin)
      <4>1. SkillName(found[m]) \in DOMAIN registry /\ registry[SkillName(found[m])] = found[m].bin
        BY <3>1 DEF Runs
      <4>2. /\ SkillName(found[m]) \in DOMAIN registry'
            /\ registry'[SkillName(found[m])] = found[m].bin
        BY <1>7, <4>1
      <4>3. SkillName(found[m])' = SkillName(found[m]) /\ found'[m].bin = found[m].bin
        BY <1>1
      <4> QED
        BY <4>2, <4>3 DEF Runs
    <3>2. CASE ~Runs(SkillName(found[m]), found[m].bin)
      BY <1>6, <1>8, <1>9, <2>1, <3>2
    <3> QED
      BY <3>1, <3>2
  <2>2. CASE m = d + 1 /\ name \notin DOMAIN registry
    <3>1. name \in DOMAIN registry' /\ registry'[name] = skill.bin
      BY <1>7, <2>2
    <3>2. skill = found[m]
      BY <1>4, <2>2
    <3> QED
      BY <1>1, <3>1, <3>2 DEF Runs
  <2>3. CASE m = d + 1 /\ name \in DOMAIN registry
    <3>1. skill = found[m] /\ found[m].dir \in warnings'
      BY <1>4, <1>6, <2>3
    <3>2. name \in Builtins \/ \E o \in 1..d : SkillName(found[o]) = name
      BY <1>9, <2>3
    <3> QED
      BY <1>8, <2>3, <3>1, <3>2
  <2> QED
    BY <1>8, <2>1, <2>2, <2>3
<1>12. Registered(d + 1)'
  <2>1. Builtins \subseteq DOMAIN registry'
    BY <1>7, <1>9
  <2>2. found' = found
    BY <1>1
  <2> QED
    BY <1>10, <1>11, <2>1, <2>2 DEF Registered
<1>13. Remaining(todo, found, d + 1)'
  BY <1>1, <1>4 DEF Remaining
<1>14. Read(Len(Source))'
  <2>1. Read(Len(Source))
    BY <1>1 DEF SkillsInv
  <2> QED
    BY <1>1, <1>2, <1>6, <2>1, ReadKept
<1>15. SkillsInv'
  BY <1>1, <1>4, <1>12, <1>13, <1>14 DEF SkillsInv
<1>16. SkillsType'
  <2>1. DOMAIN registry' \subseteq Builtins \union SkillNames
    BY <1>5, <1>7 DEF SkillsType
  <2>2. \A n \in DOMAIN registry' : registry'[n] \in {"builtin"} \union {s.bin : s \in Skills}
    BY <1>4, <1>7 DEF SkillsType
  <2> QED
    BY <1>1, <1>4, <1>6, <2>1, <2>2 DEF SkillsType
<1> QED
  BY <1>7, <1>15, <1>16

LEMMA SkillsInit == Init => SkillsType /\ SkillsInv
<1> SUFFICES ASSUME Init
             PROVE  SkillsType /\ SkillsInv
  OBVIOUS
<1>1. /\ at = "loading" /\ client = "none" /\ style = "none" /\ store = "none"
      /\ todo = <<>> /\ found = <<>> /\ prompts = <<>> /\ warnings = {} /\ registry = <<>>
  BY DEF Init
<1>2. DOMAIN registry = {}
  BY <1>1
<1> QED
  BY <1>1, <1>2 DEF SkillsType, SkillsInv

StartupInv == InputsType /\ ConfigInv /\ SkillsType /\ SkillsInv

(* Main goes through its steps, and a tool that is registered stays.       *)
LEMMA StartupStep ==
  ASSUME StartupInv, [Next]_vars
  PROVE  /\ SkillsType' /\ SkillsInv'
         /\ \A n \in DOMAIN registry : n \in DOMAIN registry' /\ registry'[n] = registry[n]
<1>1. InputsType /\ ConfigInv /\ SkillsType /\ SkillsInv
  BY DEF StartupInv
<1>2. CASE OtherSteps \/ UNCHANGED vars
  <2>1. UNCHANGED registry
    BY <1>2 DEF OtherSteps, LoadConfig, MergeUser, OverrideByEnv, BuildClient, BuildClientFails,
       BuildStyle, OpenStore, OpenStoreFails, ListenFails, Signal, CloseStore, Exit, vars
  <2> QED
    BY <1>1, <1>2, <2>1, OtherTypes, OtherSkills
<1>3. CASE ScanSkills
  BY <1>1, <1>3, ScanStep DEF ScanSkills
<1>4. CASE LoadSkill
  BY <1>1, <1>4, LoadStep DEF LoadSkill
<1>5. CASE SkillsLoaded
  <2>1. SkillsType' /\ SkillsInv' /\ registry = <<>>
    BY <1>1, <1>5, LoadedStep
  <2>2. DOMAIN registry = {}
    BY <2>1
  <2> QED
    BY <2>1, <2>2
<1>6. CASE RegisterSkill
  BY <1>1, <1>6, RegisterStep
<1> QED
  BY <1>2, <1>3, <1>4, <1>5, <1>6 DEF Next, Starting, OtherSteps

LEMMA StartupInvariant == Spec => []StartupInv
<1>1. Init /\ InputsType /\ ConfigInv => StartupInv
  BY SkillsInit DEF StartupInv
<1>2. StartupInv /\ (InputsType /\ ConfigInv)' /\ [Next]_vars => StartupInv'
  BY StartupStep DEF StartupInv
<1> QED
  BY <1>1, <1>2, ConfigInvariant, PTL DEF Spec

(* Every variable keeps its type. *)
THEOREM StartupTypeOK == Spec => []TypeOK
<1>1. StartupInv => TypeOK
  BY DEF StartupInv, ConfigInv, Statements, SkillsType, SkillNames, TypeOK
<1> QED
  BY <1>1, StartupInvariant, PTL

(* What a name runs never changes, whatever skills there are. *)
THEOREM StartupNamesKeepTheirTool == Spec => NamesKeepTheirTool
<1>1. StartupInv /\ [Next]_vars =>
        [\A n \in DOMAIN registry : n \in DOMAIN registry' /\ registry'[n] = registry[n]]_vars
  BY StartupStep
<1> QED
  BY <1>1, StartupInvariant, PTL DEF Spec, NamesKeepTheirTool

(* What has become of a good skill once the server is started. *)
LEMMA GoodSkill ==
  ASSUME StartupInv, Started, NEW i \in Good
  PROVE  /\ Source = listing /\ i \in 1..Len(Source) /\ Loads(Source[i])
         /\ Read(Len(Source)) /\ Registered(Len(found))
<1>1. Source = listing /\ i \in 1..Len(listing) /\ Loads(listing[i])
  BY DEF Good, Source, Loads
<1>2. Read(Len(Source)) /\ Registered(Len(found))
  BY DEF StartupInv, SkillsInv, Started
<1> QED
  BY <1>1, <1>2

(* No skill hides another one, and of those that ask for a name the first  *)
(* gets it, for any skills and any order of the directory.                 *)
THEOREM StartupFirstSkillWins == Spec => []FirstSkillWins
<1>1. StartupInv => FirstSkillWins
  <2> SUFFICES ASSUME StartupInv, Started, NEW i \in Good
               PROVE  /\ listing[i].body =>
                           \E k \in 1..Len(prompts) : prompts[k] = SkillName(listing[i])
                      /\ HasTool(listing[i]) =>
                           \/ SkillName(listing[i]) \in Builtins
                           \/ Runs(SkillName(listing[i]), listing[i].bin)
                           \/ \E j \in Good : /\ j < i /\ HasTool(listing[j])
                                              /\ SkillName(listing[j]) = SkillName(listing[i])
    BY DEF FirstSkillWins, HasTool
  <2>1. /\ Source = listing /\ i \in 1..Len(Source) /\ Loads(Source[i])
        /\ Read(Len(Source)) /\ Registered(Len(found))
    BY GoodSkill
  <2>2. listing[i].body => \E k \in 1..Len(prompts) : prompts[k] = SkillName(listing[i])
    BY <2>1 DEF Read
  <2>3. ASSUME HasTool(listing[i]), SkillName(listing[i]) \notin Builtins,
               ~Runs(SkillName(listing[i]), listing[i].bin)
        PROVE  \E j \in Good : /\ j < i /\ HasTool(listing[j])
                               /\ SkillName(listing[j]) = SkillName(listing[i])
    <3>1. PICK m \in 1..Len(found) : found[m] = listing[i]
      BY <2>1, <2>3 DEF Read
    <3>2. PICK o \in 1..Len(found) : o < m /\ SkillName(found[o]) = SkillName(found[m])
      BY <2>1, <2>3, <3>1 DEF Registered
    <3>3. PICK j, l \in 1..Len(Source) : j < l /\ found[o] = Source[j] /\ found[m] = Source[l]
      BY <2>1, <3>2 DEF Read
    <3>4. l = i
      BY <2>1, <3>1, <3>3, SourceType DEF StartupInv
    <3>5. Loads(Source[j])
      <4>1. PICK n \in 1..Len(Source) : found[o] = Source[n] /\ Loads(Source[n])
        BY <2>1 DEF Read
      <4> QED
        BY <3>3, <4>1
    <3>6. j \in Good
      BY <2>1, <3>3, <3>5 DEF Good, Loads
    <3>7. HasTool(listing[j])
      BY <2>1, <3>3 DEF Read
    <3> QED
      BY <2>1, <3>1, <3>2, <3>3, <3>4, <3>6, <3>7
  <2> QED
    BY <2>2, <2>3
<1> QED
  BY <1>1, StartupInvariant, PTL

(* A skill whose tool cannot work is among the warnings. *)
THEOREM StartupNoSkillFailsSilently == Spec => []NoSkillFailsSilently
<1>1. StartupInv => NoSkillFailsSilently
  <2> SUFFICES ASSUME StartupInv, Started, NEW i \in Good, HasTool(listing[i]),
                      listing[i].dir \notin warnings
               PROVE  listing[i].ready /\ Runs(SkillName(listing[i]), listing[i].bin)
    BY DEF NoSkillFailsSilently, HasTool
  <2>1. /\ Source = listing /\ i \in 1..Len(Source) /\ Loads(Source[i])
        /\ Read(Len(Source)) /\ Registered(Len(found))
    BY GoodSkill
  <2>2. listing[i].ready /\ \E m \in 1..Len(found) : found[m] = listing[i]
    BY <2>1 DEF Read
  <2>3. Runs(SkillName(listing[i]), listing[i].bin)
    BY <2>1, <2>2 DEF Registered
  <2> QED
    BY <2>2, <2>3
<1> QED
  BY <1>1, StartupInvariant, PTL
=============================================================================
