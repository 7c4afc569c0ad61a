# TLA+ models of the Kinetic SDK

Models, model-checking runs and machine-checked proofs for the Python package
`kinetic_sdk`: an agent that calls an LLM and tools in a loop, pauses for human
confirmation, delegates to sub-agents, shares files with them, is served over
HTTP, and takes tools from MCP servers, plugins and skills.

Paths below are relative to `src/kinetic_sdk/`. `PROJECT.json` gives, for every
definition, the source lines it models; it also lists all components, hazards,
runs, mutants and theorems.

## 1. The system

| part | code | what it does, and with whom it interacts |
|---|---|---|
| conversation | `conversation/`, `context/manager.py` | the list of turns sent with every request; compaction shortens or summarises it; a store saves it, a checkpoint rewinds it |
| agent loop | `agent/agent.py`, `modes.py`, `budget.py` | `run()`: route to FLASH or MAX, request, execute tools, correct or verify the answer, persist; other threads cancel, pause, resume, send |
| async agent | `agent/async_agent.py`, `async_classifier.py` | the same loop as coroutines |
| durable confirmation | `agent/agent.py` 1272-1281, 1591-1712, `replay/checkpoint.py`, `hooks/`, `security/policy.py` | policy rules, hooks and the schema gate a call; one that needs a human is checkpointed, the run raises, and a later process resumes it |
| LLM clients | `llm/` | translate the history, retry, fall back between profiles, assemble streams |
| events | `event/`, `observability/`, `replay/`, `memory/` | the loop publishes events; a tracer, counters and a recorder listen; answers are remembered in a file |
| sub-agents | `subagent/delegation.py`, `tool.py`, `budget.py`, `pool.py`, `async_*.py` | a tree of agents, or a pool of threads, on one budget; a guard around each LLM client charges requested calls |
| files | `subagent/filelock.py`, `files/` | leases kept in lock files; edits, undo, snapshots and patches under them |
| server | `server/app.py` | HTTP and WebSocket requests run agents, cached per session |
| extensions | `mcp/`, `plugin/`, `skills/`, circuit breaker in `agent/agent.py` | tools and instructions from outside, and the breaker that guards a tool |
| commands | `terminal/tool.py`, `git/tool.py`, `files/search.py`, `workspace/` | tools that start a process, wait for it and stop it at a deadline |

The conversation is the state of the loop. The loop saves it and is resumed from
it. The confirmation cuts a tool round of the loop in two. The sub-agent tree is
many loops that share a budget. The leases are shared by their file tools. The
server starts loops; the event stream is what loops leave behind.

## 2. Modules

| module | models | kind |
|---|---|---|
| `Conversation` | turns, the cap, compaction; the provider's pairing rule `ReplayValid` | operators |
| `ConversationLog` | all orders of adding turns, compacting, summarising, rewinding and saving | over `Conversation` |
| `AgentLoop` | `run`, `_run_loop`, tool rounds, control calls, persistence, crash | over `Conversation` |
| `AsyncLoop` | `AsyncAgent`, one step per stretch between two awaits | refines `AgentLoop` |
| `Confirmation` | gate, pause, two-write checkpoints saved twice, recorder, crash, resume | over `Conversation` |
| `LlmClient` | translation, retries, fallback, streams, cancellation | over `Conversation` |
| `EventStream` | bus, tracer, metrics, recorder, memory file | state machine |
| `ReplayTools` | the tools rebuilt from the recorder's file | over `EventStream` |
| `SubagentTree` | guards, budget, breakers, delegation, pool, coroutines, time-outs | state machine |
| `FileLock` | the registry's file operations one by one, mutexes, clock, crash | state machine |
| `FileEdits` | file tool, snapshots and patches on top of the leases | extends `FileLock` |
| `Server` | admission, sessions, run records, limiter, lock, drain | state machine |
| `Mcp`, `Plugins`, `DockerPlugins`, `ToolBreaker`, `Skills` | one part each of the extensions | state machines |
| `Commands` | one call of a tool that runs a process | state machine |
| `Extensions` | the six together | composition |
| `MC...` | values of the structured constants | for TLC |
| `...Proofs` | theorems about `Conversation`, `AgentLoop`, `AsyncLoop`, `Confirmation`, `SubagentTree`, `EventStream`, `FileLock`, `FileEdits`, `Server`, `Mcp` and `Extensions` | for TLAPS |

Names ending in `_Something` (such as `Names_OneLevel`), each under a comment
"Mutant", are deliberately wrong variants of the definition that follows. They
are used by no specification. Substituting one for the original makes TLC report
a violation of the property named in `PROJECT.json`, which shows that the property
depends on that piece of code.

In most modules a variable `setup` (`config` in `EventStream`, `settings` in `Server`)
holds the configuration. It is chosen in the initial state and never changes, so that
one run covers many configurations.

### Conversation and ConversationLog

A message is its kind and the ids of its tool calls, or of the call it answers.
`Compactions(h)` is the set of histories `SimpleTruncateContextManager.compact` may
return: a set, because with a token budget the start of the tail depends on text
lengths (`TailBudget` lets it be any index). `ConversationLog` adds the size of a
tool output and its shortening, and the summarising manager: batches of elided
turns, the previous summary, its limits, and a summariser that fails. `Rewind` cuts
the history wherever `rewind_state` accepts it and goes on from there; the variable
`split` remembers the calls whose turn was cut between two results.
`ReplayValid` is the rule of the LLM providers, known from the comments of the
code: each `tool_use` is answered directly after its turn, and each result
answers a `tool_use`.

### AgentLoop and AsyncLoop

`pc` follows `_run_loop`: `top` (the pause gate and the cap), `check` (cancel,
hooks and compaction), `hooked` (budget), `llm` (the request is out), `tools` and
`exec` (sequential round), `gate` (parallel round), `wait` (second pause gate),
`after`. A step is what the thread does between two points at which another
thread's `cancel`, `pause`, `resume` or `send_message_while_running` can matter.
The model's answer, the verifier, the schema check, the hooks and the policy are
free choices. "Early" stands for every error result of `_prepare_call`. A crash
keeps only what the store has. History variables count requests, unsaved turns
and escalations.

A step of `AsyncLoop` ends wherever the coroutine may be suspended: it has more
and smaller steps, adds classification, transient retries and a gather over the
batch, and `Sync == INSTANCE AgentLoop WITH ...` maps it to the threaded loop.

### Confirmation

A round of calls with arguments that are plain, dangerous, refused by the schema,
or of an unlisted tool. Hooks may stop a call or replace its arguments, rules are
tried in order, and confirmation hooks may decide in place of a human.
`_prepare_call` saves a checkpoint, the round's bookkeeping follows, and a second
save corrects the first; each save is a snapshot write and a runtime write, so
there are four points at which a crash can separate them. A crashed or paused
agent is rebuilt by `Resume` from the store, also after its run ended or raised:
nothing marks a checkpoint as used, so a run can go on twice from one. `taken` and
`repeats` remember that. One agent of a run exists at a time; resumptions that
overlap are not modelled. An attached recorder keeps its own copy of the timeline,
which may outlive the agent, and writes that copy back with every event.

### LlmClient

A provider's turn is a number of text fragments and, for each call, a number of
argument fragments. Fragments are numbered, so a lost, repeated or misplaced one
shows. Clients: `LiteLLMClient`, its async twin, the bridge between them, and
`FallbackLLMClient` over a graph of profiles. Errors have a status and a class
name that signals a network problem or not; `_is_retryable` decides from both.

### EventStream

Every agent is a thread that publishes the events of a run. Delivery is one step
per subscriber, so events of two runs interleave, and subscribers come and go. A
memory call is one step per lock section or file operation. The entries of the memory
are a set: nothing that is checked depends on their order. The memory calls of one
agent follow each other here, although a parallel round of the code can make several
at once; calls of different agents overlap in every way.

### SubagentTree

Each agent is where its loop stands as far as delegation sees it: asking, in a
request, being billed, acting, waiting for a child, or finished with a status of
`SubagentTool`. Charges of a response are made one at a time, so that workers
interleave between them; coroutines bill without giving way. The pool starts specs
in order on `concurrency` threads, on one shared client or with a client each.
The root's calls may time out: a thread goes on and keeps its slot, a coroutine is
cancelled with all it awaits.

### FileLock and FileEdits

One contended path. `record` is the lock file: absent, created but empty, or a
record with owner and expiry. Creating, writing, reading, checking, unlinking
and replacing are steps of their own. Processes whose `RegistryOf` is equal share
a registry and its mutex. A crashed process loses its mutex with it. `FileEdits`
puts the file tool on top: a call reads the file, takes the lease, and in it takes
the snapshot and writes. A file is a sequence of lines; finding the text to replace
is left out, placing the hunks of a patch is not. A write that fails has left the file
as it was or cut the new text short (`CutShort`), because `write_text` truncates the
file when it opens it. The rollback of a patch goes from file to file, and each of its
writes may fail (`torn`). The patch tool takes no lease, as the command line builds it.

### Server

A handler thread per request. There is one lock; a run on a session agent has it
from start to end, everything else that takes it is one step. An agent run begins
and ends, completed or failed. A client may stall: it does not send its request, or
does not read what its WebSocket is sent (`Stalled`); the latter holds up every run
on the agent whose events it subscribed to (`HeldUp`).

### Extensions

`Mcp`: every connection is a generation with its own process, pipes, id generator
and server; workers may use a client that was closed since, callers of the asyncio
facade may be cancelled while their worker thread goes on. A peer may hold a call past
every deadline (`Held`). `Plugins`: a plugin is what each step of loading makes of it;
what its own code imports stays in `sys.modules` after a failure. `DockerPlugins`:
Docker is external; it creates the container and then writes its id. Each removal may
fail, and is then passed over as in the code; `refused` remembers what it was about. `ToolBreaker`: one tool, rounds whose
calls are all checked before the first result, approved calls that are not checked.
`Skills`: two processes, archives whose entries may each be wrong in one way, a
crash at any step, a restart that loads what is on disk. `Commands`: the process a
tool starts and a child of it, each in the process group or not and with the pipe or
not; the waits with and without a deadline, the signals, and the two engines of the
content search. The code runs these parts independently. A behaviour of `Extensions` exercises one of them, the others being
unused: the composition shares a run, it claims nothing about their interaction.

## 3. Runs that pass

State counts are distinct states. Each run takes half a minute to two and a half
minutes with two workers.

| run | states | bounds |
|---|---|---|
| `conversation` | @conversation@ | about 8 messages, 1 rewind, batches of 3, 2 protected results, outputs of three sizes, summaries of batches of 2 with at most 2 findings a field and 3 in all |
| `loop_rounds` | @loop_rounds@ | 2 runs, caps 3 and 4, threshold 2, batches of 2, cancel and crash anywhere |
| `loop_answers` | 0.66 M | 1 run, caps 2 and 3, threshold 1, a budget of 3 with 0 or 1 call already charged, one schema and one verifier retry, parallel batches of 2, one queued message |
| `confirm` | @confirm@ | 4 calls in batches of up to 3, 3 resumes; 4 agents, each with and without a recorder and crashes anywhere, plus hooks and policies |
| `tree` | 0.27 M | 3 sub-agents, budget 3, breaker at 1 repetition, batches of 2, one slot |
| `files` | @files@ | 2 processes, lease 1, 3 acquires, 1 renewal, 1 crash, 2 files, patches of up to 3 parts, any write may fail |
| `extensions` | @extensions@ | 2 workers and 2 connections with 3 or 4 calls; 3 plugins of all variants; rounds of 1 or 3 calls, cooldown 2, 7 ticks; 2 installers, 17 kinds of archive, 1 crash; calls with deadlines of 1 to 3 ticks, 1 child, 4 lines of output |
| `server` | @server@ | 3 handlers, of which one may stall, capacity 2, 2 run records, 2 ticks |
| `async` | 1.4 M | as `loop_answers`, with a crash and one transient retry |
| `llm` | 1.3 M | 3 profiles, 1 retry, 5 errors, turns of up to 3 calls, histories of up to 4 messages, 2 requests |
| `events` | 1.7 M | up to 2 agents, 2 turns of 2 calls, 5 memory entries, 1 failing write |

What they check:

- `conversation`. `PairingSurvives`: neither compaction nor a rewind separates a call
  from its result, in the history at once or after whatever follows, except the calls
  of a turn that a rewind cut between two of its results. `RecentPastSurvives`: the protected results stay verbatim.
  `FindingsSurvive`: what earlier summaries found stays in the metadata, up to the
  limits.
- `loop_rounds`. `HistoryReplayValid`: every request, and the saved file after a
  crash at any step, has its calls answered. `MaxIsSticky`: a run that was MAX,
  or became it on its way, is followed by no FLASH run of the same agent, however it
  ended, and becomes it once at most.
  `CrashLosesOneTurn`: at most one turn is unsaved at any time.
- `loop_answers`. `HistoryReplayValid` again, with parallel rounds, correction
  turns and queued messages. `RejectedAnswerHeld`: an answer, or a run that ends
  at its cap, never returns a rejected text. `RequestsBounded`: requests stay
  within the cap and the budget. `PauseTakesEffect`: after `pause()` only the
  request under way is made. `RunEnds`: every run ends or is paused.
- `confirm`. `ResumedHistoryValid`, `NoUnapprovedExecution`,
  `ExecutedAtMostOnce`: the interrupted round is finished with each call answered
  once, arguments that the policy does not allow run only if it wants them confirmed
  and that call was approved, and without a crash a call runs once at most, and once
  more for each resumption that repeats a checkpoint listing it as not done.
- `tree`. `BudgetHeld`: the budget is never exceeded and its breakdown adds up.
  `NoOrphans`: nobody works on after the parent went on, except threads of
  timed-out calls, which are at most as many as there are slots.
  `TreeTerminates`.
- `files`. `Exclusive`: two unexpired leases are never held at once.
  `AcquireReturns`: a waiting `acquire` returns. `PreImageKept`: what an edit
  overwrites is in the snapshots. `PatchAllOrNothing`: a patch is applied as it
  says, or every file is as before but the ones whose own write or rollback failed.
- `extensions`. `AnswerIsOwn`: an MCP caller gets the result of its own request.
  `MismatchHasCause`: only a connection with a time-out, an abandoned or a
  concurrent request, or a malformed line, refuses a response. `CallsReturn`.
  `BadPluginsContained`: with failures skipped, exactly the good plugins load.
  `TrailTellsWhatRan`: the audit trail is a true account. A plugin has one entry at
  most; one whose code was executed has no critical finding and is entered as loaded
  or failed; merged tools are of plugins entered as loaded; a failed import leaves no
  module of the dotted name. `NothingLeftBehind`: a failed or closed plugin loader
  leaves no client, and no file or container but one whose removal was refused
  (`DockerLeavesNothing`), and a tool call never waits without a deadline for a process it has not signalled, nor
  leaves one of its own running (`NoEndlessWait`). `BreakerHolds`: after enough
  failures in a row a tool is refused for the whole cooldown.
  `InstalledIsVetted`: registered skills are complete, vetted and readable.
- `server`. `TurnsDoNotInterleave`, `DrainHonoured`, `EveryoneLeaves`: one HTTP run
  at a time on a session's agent, none under way when `stop()` returns drained, and
  every request is counted out unless its client stalls or a WebSocket that is not
  read holds up a run.
- `async`. `ImplementsSync`: every behaviour of `AsyncLoop` is one of `AgentLoop`
  under the mapping, so the safety properties of the threaded loop hold of it
  (proved for all constants, section 6).
- `llm`. `TurnDelivered`: the turn arrives whole and in order, and what was shown
  on the way is a prefix of it. `FallbackExhausted`: a transient failure is final
  only after every reachable profile was asked, none more often than allowed.
  `WirePaired`: a valid history is translated to a valid request.
- `events`. `SpansNest`: spans are open only inside open parents and none stays open
  after the run. `ReplayRepeats`: the tools rebuilt from snapshots repeat what the
  calls returned, compaction notwithstanding. `SoloCallsAreSaved`: a memory call
  that overlapped no other leaves the file equal to the memory.

The bounds are the smallest that let every case happen. Batches of two or three
are cut by a cancellation, a confirmation or a compaction in the middle. The
threshold lies below the FLASH cap, and that below the MAX cap, as 3 < 5 < 50 in
the code. A spawn budget of 3 is exhausted inside a batch. Two processes with one
crash include expiry, reclaiming and a late release. Two connections include a
call on a client that was closed and one that was reconnected. Three profiles
include a chain, a cycle and a diamond. Seven ticks with a cooldown of two include
a breaker that opens, closes and opens again.

### Scope of some properties

- `HistoryReplayValid`: no run follows one in which the policy or the audit log
  raised in the middle of a round (section 5).
- `CrashLosesOneTurn` is checked without correction turns, with a store whose
  writes succeed, and without summaries (sections 4 and 5).
- After a crash between the writes of a checkpoint, or a second resumption of one
  checkpoint with a recorder on its store, `ResumedHistoryValid` claims nothing
  (section 5); `NoUnapprovedExecution` holds even then. `ExecutedAtMostOnce` is about
  behaviours without a crash: a call that ran before a crash and was not saved is run
  again.
- `PairingSurvives` excepts the calls of a turn that a rewind cut between its results
  (section 5), and no other. `conversation` has no token budget for the tail; the
  proof has (`CompactionKeepsPairing`).
- `MaxIsSticky` excepts a new agent on the store, which has forgotten (section 5).
- `files` has one registry, and no crash between the creation of a record and its
  writing. `PreImageKept` and `PatchAllOrNothing` except what another writer
  changed in between, and the second a file whose own write failed (section 5).
- `TrailTellsWhatRan` excepts the entry of a plugin whose factory returned something
  other than tools (section 5).
- `CallsReturn` is about servers that do not hold a call (section 5).
- `tree` has no pool below a guarded parent (section 5).
- `TurnsDoNotInterleave` is about HTTP runs; a WebSocket run takes no lock.
- `DockerLeavesNothing` excepts a container whose id Docker has not yet written, and
  what the system refused to remove.
- `BreakerHolds` allows a streak past the threshold by what the round had already
  prepared and by approved calls.
- In `conversation` and in the loop `max_messages` is unset, which is the
  default (section 5).

Deadlock checking is off throughout: conversations, runs and bounded counters
come to an end.

### Fairness

- `AgentLoop`: the run thread is scheduled, and a request or a tool that it waits
  for returns; the control thread is not fair.
- `SubagentTree`: every worker thread and the join are scheduled.
- `FileEdits`: threads inside a call are scheduled, a holder eventually releases,
  and the clock advances.
- `Mcp`: threads are scheduled and time-outs fire, unless the peer holds the call: a
  write to a pipe it does not read (`mcp/transport.py:202`), the read of a `stderr`
  that a child of it keeps open (242), an SSE stream kept busy with comments (377-387)
  or unknown events (447-454), a reply to a POST that trickles (432). Taking the facade's lock is
  strongly fair, because `asyncio.Lock` serves waiters in order. Nothing is assumed of
  what a server answers.
- `Server`: handler threads are scheduled unless their client stalls
  (`server/app.py:353`, `594`, `625`: no socket has a time-out), an agent run ends
  unless a stalled WebSocket holds it up (586), and `stop()` looks again.

Python threads, the event loop and the operating system give this; the code itself
does not bound how long an LLM request or a tool may take.

## 4. The run that shows a disagreement

`find_summary_unsaved`: `conversation/store.py:4-6` says the agent "persists after
every turn, so a crash mid-run loses at most the in-flight turn". The progressive
summariser puts a `StructuredSummary` object into the metadata
(`context/manager.py:866`), which the JSON store cannot write. The save fails from
then on, the loop goes on, and the number of unsaved turns grows.

## 5. Other observations

Met while modelling, true of the code as it stands, with no run of their own.
They are the reason for the exceptions listed under "Scope" above.

Conversation and loop:

- the cap pops the oldest message whichever it is (`state.py:122`), although the
  comment at `state.py:115` would keep the first user turn;
- `rewind_state` accepts a cut between the results of a turn with several calls,
  because each result is a message; the docstring (`conversation/checkpoint.py:54-55`)
  takes every such cut for "a valid boundary";
- the flag that keeps an agent in MAX is an attribute of the `Agent`
  (`agent.py:341-345`) and is not saved, so a new agent on the same store starts with
  its classifier;
- when a later batch of a summary fails, what earlier batches found is lost; the
  marker of a shortened output may make it longer;
- after a rejected answer the stuck detector ends the run and the rejected text is
  returned (`agent.py:773`; the docstring at 810 says otherwise);
- an exception of the policy or the audit log in the middle of a round
  (`agent.py:1430`) leaves calls without results, and a later run sends them;
- correction turns (`agent.py:738`, `758`) are not saved, so a crash can lose
  more than the turn in flight (`agent.py:247`);
- a turn that fails the schema does not reach `_maybe_escalate`, so a FLASH run
  can end at its cap without having escalated;
- `cancel()` followed by `pause()` makes the run wait again;
- the inbox is drained after a tool round only, not before every request;
- `RunBudget` is called per-run (`agent/budget.py:39`), but its counter is never
  reset between runs;
- a breaker is checked for all calls of a parallel round before a result is
  recorded; a later success of the round closes a breaker opened earlier in it;
  approved calls are not checked and do not reset an expired breaker; after the
  cooldown the count starts at zero.

Confirmation and replay:

- a call that was approved after a pause is executed without the check against the
  tool's schema that every other call passes (`agent.py:1456`, `1676`);
- nothing marks a checkpoint as used (`replay/checkpoint.py:69-100`): a run that went on
  from it, to its end, an exception or a crash, can be resumed from it again, and the
  calls it lists as not done are executed again;
- with an attached recorder such a second resumption pairs a newer snapshot with the
  runtime fields of a confirmation that was resolved (`recorder.py:87`) and answers
  that call twice (`agent.py:1689` says never);
- a crash between the two checkpoint saves of a parallel round makes a resume
  repeat calls that had run;
- a recorder on a bus that sub-agents share (`delegation.py:308`) mixes and
  overwrites their timelines (`recorder.py:67`, `93-100`);
- deterministic tools are rebuilt from the whole run, not from the step a fork
  starts at (`session.py:108-113`);
- a run resumed in a new process publishes no `run_started`, and the tracer records
  nothing of it; `MetricsCollector.open_runs` keeps runs that ended with an error.

LLM clients and memory:

- a last stream chunk that only carries usage is lost; empty arguments become
  `{"_raw": ""}` in `chat` and `{}` in `chat_stream`; fragments without an index
  all go to the first call; `FallbackLLMClient` has no `chat_stream`;
- overlapping memory calls may leave an older copy in the file, a deleted entry
  included (`json_file.py:102`).

Sub-agents and files:

- a pool below a guarded parent charges each call twice (`pool.py:101`;
  `delegation.py:248` says guards are never stacked);
- when a batch exhausts the spawn budget, its calls that were already paid for are
  not executed (`delegation.py:151`);
- sub-agents inherit neither the tool timeout nor parallel execution; a delegation
  that timed out leaves a threaded sub-agent running, and an async one without its
  `subagent_finished` record;
- two processes have a mutex each, so a check and an unlink of the lock file
  (`filelock.py:308`) can remove a new owner's record;
- re-entrant `acquire` keeps the old expiry (`filelock.py:156`, against 81);
- a lock file whose writer died before writing its record is never reclaimed
  (`filelock.py:258`, `297`);
- a write that fails half way has truncated its file (`workspace/manager.py:154`); a
  patch rolls back the files written before it, not that one (`patch.py:154-157`), so
  "apply it or leave the workspace unchanged" (`patch.py:113`) does not hold of it;
- an edit reads the file before it takes the lease (`files/tool.py:445`) and
  overwrites what was written in between; `create` likewise, although
  `files/tool.py:12` says it refuses to overwrite.

Server and extensions:

- a WebSocket run uses a session's agent without the lock (`server/app.py:588`);
- no socket of the server has a time-out: a client that stalls keeps its handler and
  its slot; a WebSocket that is not read blocks the events of its session's agent
  (`server/app.py:586`, `625`), and with them an HTTP run on that agent and the lock
  that run has;
- a deadline of the MCP client is one of a single read: a peer that sends something in
  time, or does not read, holds its caller (the lines are given under "Fairness");
- after a time-out every later MCP request on that connection may fail on the id of
  a late response (`mcp/client.py:224`), until a reconnect;
- a plugin whose source cannot be located, or whose factory returned something other
  than tools, has no audit entry ("loading is never unaudited", `plugin/loader.py:61`);
  what a plugin's own code imported stays in `sys.modules` when its import fails, only
  the modules of the dotted name are taken out (`plugin/loader.py:228`); an invalid entry-point manifest,
  or a limit in `PLUGIN.md` that is no number, ends the discovery of all plugins
  (`discovery.py:88`, `manifest.py:233-234`); `PluginRegistry` loads every plugin in
  process, also those that ask for a container; the module of a manifest that a
  factory yields is not scanned;
- a second `DockerPluginLoader.load` forgets the first one's files and client;
  `mkstemp` creates the cidfile before Docker does; a file or container that cannot be
  removed is passed over and forgotten (`docker_loader.py:64-67`, `106-111`);
- `add_skill_from_zip` returns as accepted a skill the registry ignored because its
  name was taken; a copy that was cut short makes a retry raise `FileExistsError`,
  and `load_from` may register it.

Commands:

- after a time-out the terminal kills the process group and then reads the pipe
  without a deadline (`terminal/tool.py:188`): a process in a session of its own
  that kept the pipe makes the call wait for it;
- what a killed `docker exec` or `kubectl exec` had started in the container goes on;
  a git command that times out is killed without its children;
- the Python engine of the content search joins its worker before it takes the
  answer (`search.py:228`, `234`); an answer larger than the pipe keeps the worker
  alive, and a search that was done is reported as timed out;
- ripgrep's status 2 discards the matches it found (`search.py:220`).

## 6. Proofs

Checked by TLAPS with Z3, Zenon and LS4, for every value of the constants that
satisfies the named assumptions. The assumptions give the constants their types and
are evaluated by TLC on the runs; where one says more it is named below. None of
the safety properties is inductive as it stands; each paragraph names what its
invariant adds and why.

`ConversationProofs`. `CompactionsType`: compaction of any history yields a
history. `CompactionKeepsPairing`: if every call of a history has its result, and no
call id occurs twice, the same holds after compaction, for any number of protected
results, with or without a token budget. The argument: a round is a turn with calls
and as many results, in order; the anchors and the cut lie between rounds, so what
is kept is a sequence of whole rounds. Distinct ids are needed because a result
belongs to the turn that has its id. The module also has the lemmas by which a round
is opened, answered and closed (`RoundOpen`), which the two modules below use.

`AgentLoopProofs`, from `LoopAssumption` (threshold < FLASH cap <= MAX cap, which
the code's defaults satisfy, and types): `TypeCorrect`, `StickyAlways`,
`RequestsAlwaysBounded`, `RejectedAlwaysHeld`, `PauseAlwaysTakesEffect`. The
invariant `IInv` ties the counters to the place in the loop (`RequestsCounted`), the
escalation flag to the mode (`EscalationRecorded`), a rejected text to its flag
(`RejectionRemembered`) and the pause gate to the request under way
(`PauseCounted`). `HistoryAlwaysReplays` adds that the history is an answered prefix
and a round of which the first `recorded` calls are answered, that what is on disk
is answered, and that ids of different turns differ (`CallsDistinct`), in memory and
on disk. `CrashAlwaysLosesOneTurn` has the hypothesis `EveryTurnIsSaved`: the store's
writes succeed, there are no correction turns, and no run follows a gate that
raised. Those are the cases in which the code does not save (section 5).

The same module has the theorems about the server, for any number of requests,
sessions and slots: `TurnsNeverInterleave`, `DrainAlwaysHonoured`, and
`SlotsAlwaysCounted`: the counter of requests is the number of handlers that were let
in and have not left, and never passes the capacity.
The invariant relates the lock to the run that took it (`LockHeld`), an agent to the
kind of request it was made for (`AgentsOwned`: only a session's agent is shared, and
all runs on one take the lock, WebSocket runs excepted), and the drain to the counter
(`DrainMarked`).

`AsyncLoopProofs`. `AsyncImplementsSync`: every behaviour of `AsyncLoop` is one of
`AgentLoop`, for all caps, budgets, batches, faults and control calls, with or
without a message limit. Each step is shown, action by action, to be a step of
`AgentLoop` under the mapping or to leave the mapped state alone: a classifier's
verdict, an answer and its check, or the results of a batch are steps of their own
only in `AsyncLoop`. The mapping shows the history put aside meanwhile, and the
invariant `AsyncInv` says how the real one differs from it: by the answer under
judgement (`AnswerUnderJudgement`), or by the results of the first calls of a batch,
recorded one by one where the threaded loop records all at once, which is the same
because a message limit may be enforced late (`PartlyRecorded`). Its other parts say
that what the gates decided is what the results start from (`BatchAsGated`), and that
the flags of a round are set by results recorded in it (`RoundFlags`). With
`AgentLoopProofs` it gives the safety properties of the threaded loop for
`AsyncAgent`, where `LoopAssumption` holds.

`ConfirmationProofs`, for all rules, hooks, batches and numbers of resumes.
`OnlyApprovedExecution` rests on `AsksForConfirmation`: whatever is pending, in the
agent or in any checkpoint a resume may load, the policy wants confirmed. It holds
after torn checkpoints and with a recorder. `ResumedHistoriesValid` rests on
`HistoryInv`: the calls without a result (`Todo`), put together from the batch, the
gated calls and the pending one, are exactly those the history's last round lacks,
and a store outside the writes of a checkpoint holds a whole one. Neither theorem has
a hypothesis beside the constants' types. `SpentInv` says which checkpoints were
resumed before, `StoreWhole` that only those a recorder may have spoilt.
`NothingExecutedTwice` is about behaviours without a crash: `OnceInv` says that a call
in `Todo` has run only as often as resumptions repeated it, and `KnownInv` that the
calls a checkpoint has left were requested, each listed once.

`McpProofs`, for any number of threads, connections and calls. `AnswersAreOwn` follows
every request as a token that is in one place at a time: in its thread, in the pipe to
the server, or in an answer (`TokensApart`), and whose tool has run as that place says
(`RunsAsAnswered`). Ids are distinct within a connection only (`IdsApart`).
`MismatchAlwaysHasCause` adds that on a connection without trouble one thread at a
time is between its id and its answer, and the pipes hold nothing else
(`SerialUnlessTroubled`).

`ExtensionsProofs`. `ExtensionsImplementMcp`: the composition implements `Mcp` with its
fairness, each step being one of `Mcp` or leaving its variables alone; the two theorems
of `McpProofs` carry over (`CallersGetTheirAnswers`). For the parts beside it:
`BreakerAlwaysHolds` (calls that run were prepared while the breaker was closed or were
approved), `NothingIsLeftBehind` (what a loader owns at each stage; which processes
are in the group and were signalled once a wait has no deadline), `TrailIsTrue`, for
any library (`PluginsInv`: names are distinct once loading begins, so an entry tells its
plugin; an entry is about a plugin that is over or was just entered, `TrailSound`; a
plugin whose code was executed is the one being loaded or is entered, `RanSound`), and
`InstalledAlwaysVetted`, for any number of installers and crashes: a directory in
`persist_dir` has one writer, which vetted what it writes, and none after
registration (`CopiesSound`, `ZipSound`, `DiskSound`, `RootsSound`).

`SubagentProofs` is about what sub-agents share: a budget, slots and files.

- The tree, for any number of agents, slots and calls, with a pool or without.
  `BudgetAlwaysHeld` is inductive with types; the work is in the sum over agents.
  `NobodyIsOrphaned` needs that a parent was born before its children
  (`TreeOrdered`), so that cancelling a subtree reaches all below it, and that a
  pool's root waits while specs are queued (`PoolWaits`).
- Leases, for any number of processes that share one registry (`OneRegistry`), any
  lease length and any crash points: `TypeCorrect`, `ExclusiveAlways`,
  `LeaseRespectedAlways` (only its owner changes a live record). The invariant `IInv`
  adds `LeaseOnDisk` (whoever holds an unexpired lease is the owner in the record,
  with that expiry) and `CheckedStill` (whoever is between the check and the unlink
  has the mutex, and the record it is about to remove is still the one it checked).
  Only the second rules out that a late unlink removes a fresh lease; it fails
  without the shared mutex (section 5).
- Edits, for any number of agents: `EditsUseLeases` shows that what the file tools do
  to the leases is a behaviour of the registry, so `EditsExclusive` follows from
  `ExclusiveAlways`. `PreImagesKept` needs no lease: the invariant `KeptInv` says that
  a call about to write has committed what it read, and commits stay.
- Patches, of any number of files and hunks (`EditAssumption` says that a patch names
  at least one file): `PatchesAllOrNothing`. The invariant `InBetween` says, for every
  file nobody else wrote since the dry run read it and whose own write or rollback did
  not fail, that it holds what was read, or what was tried on it if the patch has
  written it and not undone it. A failed patch thus leaves what was there, and an applied one what the dry run computed. That this is what the hunks
  ask for (`PatchedAsIntended`) is a recursion over the hunks and stays with TLC.

`EventProofs` is about runs that share a memory, an event bus and a tracer.

- The memory file, for any number of runs on one memory: `SoloCallsAlwaysSaved`. The
  invariant `MemoryInv` says that while a call is alone no other is under way, so what
  it copied is still what the memory holds, and that it removes the file only of a
  memory that is still empty.
- The tracer, for any number of runs, turns and parallel calls, and any subscribers
  (`EventAssumption`: none is on the bus twice): `SpansAlwaysNest`. `WellNested` says
  that whatever is open is in the tracer's tables, below something that is open.
  That alone is not kept: a turn that starts while calls are open would close their
  parent. So `InStep` relates the tables to the run: the tracer has open only calls
  that were announced and have not finished, up to the one event that may be on its
  way, and each event finds the run where it expects it. A tracer that was never on
  the bus knows of no run (`SteadyBus`). A tracer that comes and goes misses events;
  for it the theorem says only that a run's last event leaves nothing open.

The provers cannot use an induction rule whose parameter is a predicate. Where a
proof needs induction (a sum over agents, the agents below one in a tree, the first
of several rounds) it takes a least counterexample instead (`LeastNatural`), which
exists because the naturals are well-founded.

Writing the proofs changed three properties, each of which said something the model
or the code did not: `NoOrphans` now bounds the running children of the root by its
slots in parallel rounds too, not only with a time-out, and not those of a pool,
which takes none; `TrailTellsWhatRan` speaks of the plugin at its place rather than of
its name, which two sources may share until discovery refuses it;
`NoUnapprovedExecution` speaks of the policy in force, and no longer claims that
approved arguments pass the schema (section 5).

Only model-checked:

- liveness (`RunEnds`, `TreeTerminates`, `AcquireReturns`, `CallsReturn`,
  `EveryoneLeaves`) and `ENABLED`, which the prover does not handle;
- `PairingSurvives`, `RecentPastSurvives`, `FindingsSurvive`, `WirePaired`, `TurnDelivered` and `FallbackExhausted`: their modules have recursive
  operators, which the prover does not take. The pairing part of the first is
  `CompactionKeepsPairing`;
- `BadPluginsContained`: it is stated with `SelectSeq` and a recursive function, about
  which the prover would need induction;
- `ReplayRepeats`, and `PatchedAsIntended` of `PatchAllOrNothing`: a fold over snapshots
  and a recursion over hunks, which would need induction over data.

## 7. Plan

1. Cancellation of the task that awaits `AsyncAgent.run`.
2. MCP tools inside an agent's parallel round: `Mcp` and `AgentLoop` composed.

## 8. Not modelled

Listed with their reasons in `components`. In short: text processing (tokens,
redaction, code map, the patterns of scanners, the formats of providers),
file operations of the workspaces, the browser, configuration
(profiles, settings, manifests), drivers (CLI, evaluation, benchmarks, examples,
scripts), and single-caller parts with one atomic write or none (todo list, replay
debugger, planning).
