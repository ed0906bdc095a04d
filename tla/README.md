# A TLA+ model of the Rainbot agent runtime

This directory holds a verification project for the Go agent runtime under
`src/agent`: TLA+ modules of its core, TLC configurations that check them on
small instances, and theorems that TLAPS checks for every value of the constants.
`PROJECT.json` lists the components, the runs, the source lines of every
definition, the hazards of the code and the theorems.

Run from this directory:

    tlc -workers 2 -config SessionStore.cfg MCSessionStore
    tlapm SessionRefinementProofs.tla

## The system

One server process answers HTTP requests. A client creates a session, sends it
messages (turns), and deletes it. A turn asks a language model, runs the tools
the model asks for, asks again with their results, and finally restyles, stores
and persists the answer.

| Component | Source (`src/agent/`) | State | Operations | Correct when |
|---|---|---|---|---|
| Session API | `api/http.go` | none; one goroutine per request | create, get, delete, turn (streamed or blocking) | every turn is answered, and gives its session back |
| Session store | `internal/runtime/session.go` | map of sessions; `turnSem` per session | Create, Get, Delete, Persist, AcquireTurn, ReleaseTurn, Close | turns of a session exclude one another; a deleted session is gone |
| Persistence | `internal/runtime/persist.go` | bolt bucket, one row per session | save, loadAll, delete | an answered turn survives a crash; a row is a whole session |
| Short-term memory | `internal/memory/short.go` | history, at most 50 messages | Append, All, DrainOldestIfAbove | nothing leaves it except into a summary |
| Summary memory | `internal/memory/summary.go` | one text | Get, Set, Compress | it covers what was drained, in order |
| Prompt builder | `internal/prompt` | none | Build, BuildWithSummary | the prompt alternates, and carries the context |
| Turn engine | `internal/runtime/engine.go` | the messages of the turn, tool calls being assembled | ProcessTurn, runTurn, structurize | events come in order, requests are well formed, tool calls are those the model made |
| LLM clients | `internal/llm` | the attempt; one goroutine and channel per stream | Generate, Stream, withRetry | only errors that may pass are tried again; a reply arrives once and in order; a cancelled call ends |
| Tool executor | `internal/tool/executor.go` | a goroutine per call | ExecuteMany, Execute | results in the order of the calls, within the timeout |
| Tools, registry, skills | `internal/tool` | table filled at startup | LoadSkillsDir, Register, Get | names keep their tool; a broken skill hides no other |
| Style layer | `internal/style`, `internal/response` | none | Rewrite, ResolveProfile | a styled text was allowed and keeps its literals; a failure leaves the answer |
| Metrics | `internal/obs` | ring of the last 200 turns; a tracer per turn | Push, Recent, Finish | newest first, none twice; a fallback is never taken for a success |
| Process | `cmd/server/main.go` | configuration | start, shutdown | the highest layer wins; shutdown does not tear a row |

How they interact: a handler looks its session up in the store, takes its
`turnSem`, calls `ProcessTurn`, and drains the channel it gets back. The engine's
goroutine writes to that channel; it reads the channel of the model's stream,
which another goroutine fills, and starts one goroutine per tool call. When the
handler receives the final event it calls `store.Persist`, and its deferred
`ReleaseTurn` runs when it returns. Session, store, history and summary have a
lock each, and no lock is held while the model is asked: the semaphore is all
that keeps turns apart. The tracer of a turn pushes its metrics before the events that
end it.

What is hard to test here: deletions, crashes and shutdowns between the steps of
a turn; a client that leaves in the middle of a tool round; the sizes of history,
drain and window, which are set in three packages and must fit; failing writes,
whose errors are all ignored; goroutines blocked on full channels; fragments of
tool calls that arrive interleaved; errors that are wrapped twice before it is
decided whether to try again; the many ways the style layer gives up; three
layers of configuration. The list with
its lines is `hazards` in `PROJECT.json`.

## Modules

| Module | Models |
|---|---|
| `ShortTerm` | the sequence operations: Append with its trimming, the drain, the prompt window |
| `SessionMemory` | one session and its row, as a sequence of turns, crashes and reloads. It is the specification a session promises |
| `SessionStore` | requests, store, semaphores, bucket and process, one access to shared state per step. It implements `SessionMemory` for every session |
| `EventStream` | what `ProcessTurn` promises of its channel |
| `TurnEngine` | one turn: engine, stream goroutine, tool goroutines, handler and client. It implements `EventStream` |
| `ModelCall` | one call of a model: attempts, errors, delays, the stream, and the message the engine makes of it |
| `RecentTurns` | what a MetricsStore promises: the list of the last turns |
| `Metrics` | the ring. It implements `RecentTurns` |
| `Answer` | from the raw answer through structurize and the style layer to history, metrics and client |
| `Startup` | `main`: configuration, skills, registry, style, store, serving and stopping |
| `MC...` | the instances for TLC; `MCSessionMemory` also compares the closed form of the trimming with the loop of the code |
| `...Proofs` | lemmas and theorems |

`ShortTerm` is extended by `SessionMemory` and `SessionStore`, `Metrics` by
`Answer`. `SessionStore` instantiates `SessionMemory`, `TurnEngine` instantiates
`EventStream`, and `Metrics` instantiates `RecentTurns`.

A turn is split over four modules by what can go wrong in it. `TurnEngine` has its
goroutines and channels, with a reply reduced to its shape; its action `Request` is
a whole `ModelCall` as far as the opening of the stream, and its statements `structuring`,
`styling` and `storing` are `Answer`. `SessionStore` has what a turn does to its session, and
sees everything else of it as a step that succeeds or fails.

Definitions that sit just before another one with a related name
(`TurnInvalidKeepsTurn` before `TurnInvalid`, for instance) are deliberately wrong
variants, one for each property: the property must fail when the variant takes
the place of the definition. `mutants` in `PROJECT.json` pairs them.

### ShortTerm and SessionMemory

A message is its number in the conversation: odd ones are the user's, even ones
the assistant's. A summary is the set of the messages it was made from, and the
empty text is the empty set. Numbers make losses, gaps, repetitions and changes
of order visible, which is all the properties ask about.

| State | Code |
|---|---|
| `phase` | where `runTurn` or `Persist` is; `"absent"` while no process has the session |
| `history` | `ShortTermMemory.messages` |
| `summary` | `SummaryMemory.summary` |
| `batch` | `old` in `runTurn`, between the drain and the end of Compress |
| `saved` | the row of the bucket, none or one snapshot |
| `count`, `drained` | history variables: messages exchanged, messages drained |

Actions: `BeginTurn` (`runTurn` reads), `TurnFails`, `AppendUser`,
`AppendAssistant`, `DrainOldestIfAbove`, `CompressOk`, `CompressBlank`,
`CompressFails`, `Persist`, `PersistSkipped`, `Forget` (Delete removes the row),
`Crash`, `Reload`.

### SessionStore

A request slot is a handler goroutine, and `pc` its next access to shared state.
`turnSem` is `"none"` without a session object, `"nil"` for an object loaded from the
bucket (`sessionFromSnapshot` does not make the channel), else `"free"` or
`"held"`. `sessions` is the key set of the map, `disk` the bucket. Session ids are
never drawn twice, so a key stands for one object in the life of a process. `used`,
`known` (ids a client was told of), `missed` (the last write of the row failed),
`deleted` and `seen` are history variables.

`persistent` says whether a `session_db_path` is configured, so one run covers both
kinds of store.

`server` is `up`, `draining` (Shutdown accepts nothing and waits), `closed` (the
bucket is closed, perhaps under handlers that still run: Shutdown waits ten
seconds only) or `down`. `ProcessEnds` may happen at any time and is also the
crash. A handler's deferred `ReleaseTurn` is part of the step that returns.

A request for a session that is not in the map, and one that only reads, changes
nothing and is no action.

### TurnEngine

`at` is the engine's next statement, `producer` and `parsed` belong to the goroutine
of `Stream`, `stream` and `eventCh` are the two bounded channels, `tool` says what
each goroutine of `ExecuteMany` is doing, `msgs` holds the roles and calls of the next
request. Text is whether there is any. A select with `ctx.Done()` is an action
for each branch. The engine's sends at the end (`SendError`, `SendDone`) have no such
branch, as in the code. `ParseToolDeltas` reads one event with any set of tool call
deltas and sends a chunk with the last one only, as both clients do. `CallsOf` has
the loop over `idx < len(toolCallMap)` that passes over higher indices. The engine
asks the model at `requesting` (`Generate` or `Stream`), `structuring`, `styling`
(`Rewrite`) and `compressing`; the actions that end such a call are
`ModelAnswers`, what the engine does by itself is `Works`. A tool returns or hangs (`ToolReturns`, and the
state `hung` of a handler that ignores its context). What happens to the
session's memory at `StoreTurn` is in `SessionStore`.

### ModelCall

| State | Code |
|---|---|
| `client`, `streaming` | which client, and Stream or Generate |
| `at`, `attempt` | where `withRetry` and the engine's loop over the chunks are |
| `causes`, `sent` | history variables: why attempts failed, the events of the reply |
| `channel`, `producer` | the stream's channel and its goroutine |
| `text`, `toolCallMap` | `contentBuf` and `toolCallMap` in `runTurn` |

What decides about another attempt is what the error's chain holds: the context's
error, a `net.Error`, an `*openai.APIError` with a status. `Err` is these three
facts, and `StatusError`, `NetworkError`, `ContextError` say which the clients make.
A cancelled request gives a `url.Error`, which is a `net.Error` around the context's
error, so the order of the two tests in `isRetryable` matters. Events are numbered: a
text delta or a fragment of arguments is the number of its event. `indexed` is
whether the provider sends the index of a tool call; without it the delta counts
as index 0. Here the stream's channel has no bound, because `TurnEngine` has it.

### Metrics and Answer

`ring`, `head` and `count` are the fields of `MetricsStore`, and each of its methods is
one step under its lock. In `Answer` a turn is a record of what `runTurn` and its
tracer know of it; `at` is its next statement. A text is known by where it comes
from (`raw`, `final`, `rewritten`, or empty), and a literal that must be kept is in
the rewritten text or is not. `pushed` is a history variable. Turns of other sessions
push metrics in between (`OtherTurnMeasured`).

### Startup

A layer of the configuration gives each field a text, `""` being the zero value, which
in Go a field that the file leaves out has too. `Merged` are the fields that
`mergeConfig` has a line for. The skills directory is a sequence of entries;
`todo` is what is left of it in `LoadSkillsDir`, and later of the tools to register.
`registry` maps a name to what it runs.


## What the runs check

| Run | Properties | Instance |
|---|---|---|
| `SessionMemory` | type, `NoSilentLoss`, `SummaryPrecedesHistory`, `DrainKeepsUp`, `SavedIsWhole`, `PromptAlternates` | capacity 8, window 4, 20 messages |
| `SessionStore` | type, `OneTurnPerSession`, `AnsweredIsDurable`, `NothingReadIsStale`, `SnapshotIsNotTorn`, `EverySessionIsAMemory` | 2 sessions, one of them with 4 turns, 2 requests, 1 restart, disk may fail, with and without a bucket |
| `TurnEngine` | type, `RequestsWellFormed`, `ResultsFollowCalls`, `NoToolOutlivesItsRound`, `ErrorMeansNotStored`, `KeepsEventPromise`, `TurnEnds` | 2 rounds, 2 tool indices, 3 events per reply, channels of 2 and 1, tools may hang, the provider may fall silent, fairness |
| `ModelCall` | type, `RepeatedOnlyWhileTransient`, `TextIsShownOnce`, `CallsAreAssembled`, `CancelEndsCall` | 3 attempts, 3 events per reply, 2 tool indices, both clients, streamed or not, fairness |
| `Answer` | type, `StyledIsChecked`, `EmptyOutputMeansNoAnswer`, `RememberedIsStreamed`, `MetricsExplainStyle`, `AnsweredIsMeasured`, `IsTheLastTurns` | 2 turns, others in between, a ring of 2, 3 measured turns, 5 structured responses |
| `Startup` | type, `HighestLayerWins`, `FirstSkillWins`, `NoSkillFailsSilently`, `NamesKeepTheirTool`, `StartupEnds` | 10 files for each of two layers, up to 3 of 7 skills, fairness |

Each property is stated in words beside its definition.

Why the bounds are enough. A capacity of 8 has threshold 6 and a drain count of 3,
which is odd, so rounding matters; 20 messages give several drains, with each
outcome of Compress before and after one another and reloads in between. In the
store two requests race on one session, whose four turns reach two drains while the
other request looks the session up, is refused or deletes it. The second session is
there to be created, deleted, reloaded and asked, but its turns are all invalid: with a
conversation of its own too, the instance has too many states, and steps on different
sessions touch different memory and rows only. The theorems cover any
number of sessions, each with any number of turns. In the engine, channels shorter
than a reply make every sender wait, two indices give calls that run in either
order and a gap, and two rounds give a request with the results of an earlier
one. In a call of the model, three attempts are those of the program, so the last one
fails too, and three events of two indices are the shortest reply in which a call
is opened, interrupted by another and continued. The ring of 2 wraps around with 3
pushes, before, between and after those of the two turns followed. The structured
responses allow, bypass and forbid rewriting, with every risk, with and without
literals, and with values nobody has named. Three skills are enough for one that is
broken or clashes before, between and after others. `MaxMessages`
(in the store per session: `Talkative` has `Length` of them), `MaxRestarts`, `MaxChunks`, `MaxEvents`, `MaxMeasured`, `Structures`, `Files`, `Skills` and `Listings`
are bounds of the model only.

### Runs that end in a counterexample

Each checks one sentence of the documentation, a comment or a test, which
the code does not keep.

| Run | Says | What happens |
|---|---|---|
| `RefusedOnlyWhenBusy` | `session.go:34`: AcquireTurn is false if another turn is in progress | a session loaded from the bucket has a nil semaphore and refuses every turn |
| `DeleteIsFinal` | `persist_test.go:73`: a deleted session does not exist after a reload | Persist, looked up before a Delete, writes the row after it |
| `ContextComplete` | `resume_material_pm.md:132`: the summary keeps the meaning of the old conversation | the window is 20, messages are summarised only when there are more than 40 |
| `StreamIsClosed` | `client.go:88`: the channel is closed when complete or after an error | the goroutine blocks on its full channel, with the error it is to send, once the engine has given up |
| `TransientIsRetried` | `devlog/0420.txt:51`: a network error, 429 or 5xx is retried | the compatible client makes a plain error of every status, which is final |
| `HighRiskIsBypassed` | `README.md:137`: the style layer is bypassed on high-risk scenes | an answer of high risk is rewritten, in the plain profile (`engine.go:260`), unless its mode is bypass |

For `HighRiskIsBypassed`, `router.go:6` and `devlog/0417.txt:76` say what the code does;
`StyledIsChecked` holds it to them.

`ContextComplete` uses the capacities of the program (50, 20). Two more losses have
the same effect on a prompt and are outcomes of the model: `CompressFails` drops the
batch that was drained (`engine.go:298` logs a warning), and `CompressBlank` sets the
summary to an empty text (`summary.go:81`).

Other things the models have as they are in the code, worth a reader's attention:

- A tool handler that ignores its context is waited for (`executor.go:13` promises a
  timeout): the first exception of `TurnEngine!TurnEnds`.
- No client of a model sets a timeout (`compat.go:26`), so a provider that falls silent
  holds a turn, and its session, as long as the client of the server stays: the second
  exception of `TurnEnds`.
- Tool calls whose index is not below their number are passed over (`engine.go:185`); the
  assistant message of such a reply may have no calls at all (`TurnEngine!CallsOf`).
- Several tool calls in one event overwrite one another, and deltas without an index
  are glued together: the premise `OneDeltaPerEvent` of `CallsAreAssembled`.
- A connection that ends before `[DONE]` is taken for the end of the reply
  (`ModelCall!StreamEnds`).
- An answer that is empty after ten tool rounds is structured and may be rewritten
  into a text, against `0419_tech_plan.txt:163` (`Answer!NoAnswer`). What is stored is
  the empty answer.
- Clients of a stream see the raw answer and never the styled one, and the text of
  tool rounds is shown to them and not stored.
- `mergeConfig` overlays "non-zero fields" (`main.go:295`), but has no line for
  `style.enabled`, the tools, the memory and the timeouts of the server; and a project file
  that can be read gets no defaults for what it leaves out (`Startup!NotMerged`,
  `Startup!LoadConfig`).

### Fairness

`TurnEngine!FairSpec` has weak fairness for the engine's own statements, for the
sending of a chunk that was parsed, for the handler, and for each tool that returns:
goroutines that can run do run. Nothing is assumed of the provider: a call of the model may
never be answered and a reply may stop coming. What `net/http` does by itself is to
abort a request or the reading of its body when the context is done (`CallAborted`,
`ReadAborted`). The handler is fair because its writes to the client are: a
client that does not read is cut off by the server's `WriteTimeout` (`main.go:151`), and the errors
of writing are ignored. (A `WriteTimeout` configured as 0 would leave that to the
client.) The client may stay or leave.

`TurnEnds` then says that a turn comes to its end, so that the deferred `ReleaseTurn`
runs, with two exceptions: a tool that ignores its context (`hung` in `Range(tool)`), and a
provider that is silent for ever to a client that stays (`<>[](AwaitsModel /\ ~cancelled)`).
What it shows is the rest: full channels, sends that watch no context, a stream
that nobody reads any more, and a client that leaves at any point hold up nothing.

`SessionStore` has no liveness. All a turn waits for there are the model and the tools, which
`TurnEngine` has in detail, and `Session.mu`, which is held for two appends only. That every way
out of `createTurn` gives the semaphore back is `OneTurnPerSession`.

`ModelCall!FairSpec` assumes nothing of the provider, which may fall silent at any
point. It has weak fairness for what the program does by itself: delays that run
out, chunks that are received, and what `net/http` does of itself when the context is
done, namely to abort the request or the reading of its body. That suffices for
`CancelEndsCall`. There, receiving is fair although the goroutine of the stream is
not: a cancelled stream needs only `ReadAborted`.

`Startup!FairSpec` has weak fairness for `main`, which runs alone, until it serves, and
for closing the store: Shutdown gives up after ten seconds. No signal is assumed.

Deadlock is not checked: a process that is down, a turn or call that has ended, stop.

## What is proved

All theorems hold for every value of the constants under the assumptions of the
modules, which TLC evaluates in each run: sets of sessions and requests of any size,
conversations, replies and lists of turns of any length.

| Module | Theorems about | Assumes besides |
|---|---|---|
| `ShortTermProofs` | lemmas about `Trim`, `AppendMessage`, `Drained`, `Remaining` | |
| `SessionMemoryProofs` | all safety properties of the run `SessionMemory` | `MaxSize >= 6`; an even `MaxHistory` for `PromptAlternates` |
| `SessionStoreProofs` | all properties of the run `SessionStore` but the refinement | |
| `SessionRefinementProofs` | `EverySessionIsAMemory`, the refinement of `SessionMemory` by `SessionStore` for every session; from it, `SessionMemory`'s safety for every session of the server; when a turn is refused | for the inherited properties `MaxSize >= 6`, and an even `MaxHistory` |
| `TurnEngineProofs` | all safety properties of the run `TurnEngine`, among them the refinement of `EventStream` | `Indices` finite |
| `ModelCallProofs` | all safety properties of the run `ModelCall` | |
| `AnswerProofs` | all properties of the run `Answer`, among them the refinement of `RecentTurns` by `Metrics` | |
| `StartupProofs` | all safety properties of the run `Startup` | |

**SessionMemory.** From a capacity of 6 on two messages fit above the threshold and a
drain takes at least two (lemma `Capacity`); for smaller capacities the code does
lose messages. The program's 50 and 20 satisfy both assumptions. `NoSilentLoss` is not
inductive: Append would drop messages of a full history, so the invariant says how
much room each phase has left (`Room`). A reload puts the saved row into the history,
so the row has to have the same properties (`SavedIsWhole`), and these need that
messages come and go in pairs (`Pairs`) and that there is a batch only while it is
compressed (`BatchIsUsed`).

**SessionStore.** Exclusion (`MutexInv`) needs two more facts: a request that has
started works on an id that was drawn, so the semaphore a new session gets is
nobody's (`Started`), and only drawn ids have rows, so that a restart brings back no
other session (`RowsUsed`). The proof has a lemma for each kind of step: inside a
turn, arriving, leaving without a turn, acquiring, releasing, and the steps of the
process. Reads are then fresh (`Fresh`) because a step changes only the memory of its
own session (`OwnMemory`), and exclusion makes a session that of one request.
`Fresh` adds the half of a snapshot that was read first. Durability is about restarts
too: what is reloaded equals what was saved only if `Trim` leaves it as it is, so rows
fit into the history (`RowsInv`), and a session with a deletion under way is not in the
map (`DeletingInv`).

The refinement needs exclusion and fresh reads: the summary `SessionMemory` merges a
batch into is the one the request read before it asked the model, and the row it
saves is the session as it is then. It also needs that nobody but its creator works on a
session the client has not been told of (`NewInv`), that a session without an object
in the process is blank and has no row to delete (`ObjectInv`), and that there is a batch only
while it is compressed (`BatchInv`). The mapping picks the request that works on a
session with CHOOSE; `ViewsHold` says what it picks, and each kind of step then has a
lemma that names the step of `SessionMemory` it is.

What is proved of one session alone is then true of each session of the server. The
prover cites theorems of an INSTANCE only if it has no parameter, so the module has a
constant `Focus`, any session, and `Its` is `SessionMemoryProofs` for that session.
`StoreImplementsIts` says that the server is, as far as `Focus` is concerned, a
`SessionMemory`; `StoreSessionsLoseNothing`, `StoreRowsAreWhole` and
`StorePromptsAlternate` follow, each with the hypothesis `Focus \in Ids` and nothing else
about it.

`StoreRefusesForAReason` limits what the run `RefusedOnlyWhenBusy` has found: a session of
the map always has a semaphore, and it is the nil channel only after a restart
(`SemInv`), so until the first restart a turn is refused only while another runs.

**TurnEngine.** `TurnInv` relates the engine's statement to the tool goroutines: outside
`executing` all are done, and a goroutine that is done has put the result of its call
into its place. `EventInv` adds that the last two events are sent once and in order,
which gives the refinement: each step sends one event (`SendingStep`) or none
(`SilentStep`). `ResultsFollowCalls` speaks of positions in the log of events. Its
invariant has the calls in ascending order of round and index, for the starts and for the
results (`OrderInv`), and says which calls each statement of the engine has come to: those
of earlier rounds, which are all finished, and the first ones of this round (`PhaseInv`).
`MsgsInv` describes the messages of an unfinished round, whose results
are appended one at a time, so that they are well formed when the round ends.

**ModelCall.** `RetryInv` says that each failed attempt before the current one failed
with an error that may pass. `StreamInv` says that the channel holds the chunks of the
events that have not arrived, with at most one error at the end. Text and calls are
then followed chunk by chunk: `MergeStep` shows that a delta leaves the other calls
alone and adds its fragment at the end of its own.

**Metrics and Answer.** `StoreInv` says that a ring that is not full was filled from its
first slot. With it, the backward walk after a Push is the new entry followed by the old
walk, cut at the capacity (`PushRecent`). `AnswerInv` states for each turn, by the
statement it has come to, what is not yet set, what was checked before the
rewriting and what the output is (`Sound`); that the metrics of a turn are its own
(`Measured`); and that the ring holds the end of what was pushed (`RingInv`).

**Startup.** The configuration is, at each statement, the merge of the layers read so
far (`ConfigInv`), and a field that `mergeConfig` knows is the highest one not empty. For
skills, `Read(k)` says what the first k entries of the directory have left in the prompts,
the tools found and the warnings, and `Registered(d)` what the first d tools have left in
the registry: the builtins stay, and a tool is there, or is among the warnings because a
builtin or an earlier tool has its name. `SkillsInv` says that there is such a k while
the directory is read, that it is the whole directory afterwards, and the same for d.
What is assumed of the directory is what `os.ReadDir` gives: entries that have names, and
no two with the same one (`SkillsAssumption`, `ListingsAssumption`).

Every safety and action property of the passing runs is a theorem. Only model-checked is
liveness: `TurnEnds`, `CancelEndsCall` and `StartupEnds`, which need
fairness and ENABLED and are out of the prover's reach. The six counterexamples are found by
TLC alone.

## What is not modelled

- The built-in tools: input and output of files, processes and the network, without
  state of their own. A tool returns or hangs.
- Logging, and the counters of tokens, calls and latencies in the metrics: nothing
  reads them.
- The texts of prompts and templates, and the fields of requests that are copied.
- The SSE encoding of `StreamWriter` and its parser in the web page; the page
  itself, which sends one request at a time. (The page trims the lines it reads, so
  spaces at their ends are lost on the screen.)
- The WebSocket endpoint, a stub.
- Requests that read only: `getSession`, `health`. `Recent`, which `metrics` calls, is
  modelled.
- `WriteTimeout` of the server (120 s), which makes the writes of a turn that takes longer
  fail; their errors are ignored, so to the model the client stays, or leaves.
- `style_error` (`engine.go:275`), the metrics of a rewriting that returns an error: no
  backend returns one, so `Answer` has no such step.

## Plan

What would come next: `SseStream`, which is `StreamWriter` with its escaping and the parser of
the page, as functions checked against each other over bounded texts.
