----------------------------- MODULE EventStream -----------------------------
(***************************************************************************)
(* What agent runs that share one event bus and one memory file leave      *)
(* behind: the bus delivers each event to its subscribers one after the    *)
(* other (event/bus.py), a Tracer builds spans from them                   *)
(* (observability/tracer.py), a MetricsCollector counts                    *)
(* (observability/metrics.py), a ReplayRecorder keeps the timeline and the *)
(* snapshots that deterministic tools are rebuilt from (replay/), and the  *)
(* runs' memory calls change a JsonFileMemory (memory/).                   *)
(*                                                                         *)
(* Every agent is a thread: a run of rounds of tool calls, each a call of  *)
(* the memory tool, then the answer is remembered.  A publish is one step  *)
(* per subscriber and a memory call one step per lock section or file      *)
(* operation.  Payloads are the call's number; a tool result is whether    *)
(* its text is still whole.                                                *)
(***************************************************************************)
EXTENDS Integers, Sequences, FiniteSets, Functions

CONSTANTS
  Runners,     \* the agents of the process; each makes one run
  Configs,     \* configurations: [agents, bus, async, parallel, ops, toggles,
               \* turns, batch]; turns and batch bound a run's turns and a turn's calls
  MaxEntries,  \* bound: entries the memory ever gets
  MaxFaults    \* bound: failing writes

Subscribers == {"recorder", "tracer", "metrics", "coroutine"}

\* subscribe registers a subscriber once.
ASSUME EventAssumption ==
  \A c \in Configs : c.bus \in Seq(Subscribers) /\ IsInjective(c.bus) /\ c.batch \in Nat

VARIABLES
  config,
  stage,     \* where each agent is once its event is delivered
  at,        \* agent -> [turn, batch, k, retried]: its place in the run
  out,       \* agent -> [event, left]: the event being published, the subscribers to go
  bus,       \* the subscribers of "*", in order
  trace,     \* run -> the Tracer's record of it
  metrics,   \* MetricsCollector
  steps,     \* the states of the snapshots among ReplayRun.steps
  replay,    \* the ones in the replay file
  results,   \* agent -> the tool results in its state: [id, whole]
  entries,   \* InMemoryMemory._entries, without their order
  file,      \* the memory file's entries
  call,      \* agent -> its memory call, or how the last one ended:
             \* [op, phase, payload, alone, failed]
  made,      \* entries ever made
  late,      \* the clock has passed the entries' time to live
  faults,
  seen       \* ghost: agent -> the last event of it the tracer was given

progress == <<stage, at, out, results>>
listeners == <<bus, trace, metrics, steps, replay>>
memory == <<entries, file, call, made, late>>
eventVars == <<config, progress, listeners, memory, faults, seen>>

NoFile == [exists |-> FALSE, entries |-> {}]
Idle == [op |-> "none", phase |-> "idle", payload |-> {}, alone |-> TRUE, failed |-> FALSE]
Failed == [Idle EXCEPT !.failed = TRUE]
Event(type, id) == [type |-> type, id |-> id]
Quiet == [event |-> Event("none", 0), left |-> <<>>]

-----------------------------------------------------------------------------
(***************************************************************************)
(* Tracer: spans are numbered in the order of their creation               *)
(***************************************************************************)
NoTrace == [spans |-> <<>>, turn |-> 0, tools |-> <<>>, retries |-> <<>>]

\* _close
CloseSpan(t, i) == IF i = 0 THEN t ELSE [t EXCEPT !.spans[i].open = FALSE]

\* _append
AppendSpan(t, kind, parent) ==
  [t EXCEPT !.spans = Append(@, [kind |-> kind, parent |-> parent, open |-> TRUE])]

Lookup(dict, id) == IF id \in DOMAIN dict THEN dict[id] ELSE 0
Put(dict, id, i) == [x \in DOMAIN dict \cup {id} |-> IF x = id THEN i ELSE dict[x]]
Popped(dict, id) == [x \in DOMAIN dict \ {id} |-> dict[x]]

TraceRun(t) == AppendSpan(NoTrace, "run", 0)

\* _start_turn: the run's span is the first.
TraceTurn(t) ==
  IF t.spans = <<>> THEN t
  ELSE [AppendSpan(CloseSpan(t, t.turn), "turn", 1) EXCEPT !.turn = Len(t.spans) + 1]

\* The span a tool call or a compaction belongs to.
Enclosing(t) == IF t.turn = 0 THEN 1 ELSE t.turn

TraceTool(t, id) ==
  IF t.spans = <<>> THEN t
  ELSE [AppendSpan(t, "tool_call", Enclosing(t)) EXCEPT !.tools = Put(@, id, Len(t.spans) + 1)]

TraceRetry(t, id) ==
  IF id \notin DOMAIN t.tools THEN t
  ELSE [AppendSpan(CloseSpan(t, Lookup(t.retries, id)), "retry", t.tools[id])
          EXCEPT !.retries = Put(@, id, Len(t.spans) + 1)]

\* Mutant: the last attempt's span is left open.
TraceToolEnd_ToolOnly(t, id) ==
  [CloseSpan(t, Lookup(t.tools, id))
     EXCEPT !.retries = Popped(@, id), !.tools = Popped(@, id)]

\* _finish_tool
TraceToolEnd(t, id) ==
  [CloseSpan(CloseSpan(t, Lookup(t.retries, id)), Lookup(t.tools, id))
     EXCEPT !.retries = Popped(@, id), !.tools = Popped(@, id)]

TraceCompaction(t) ==
  IF t.spans = <<>> THEN t
  ELSE CloseSpan(AppendSpan(t, "compaction", Enclosing(t)), Len(t.spans) + 1)

\* _finish_all
TraceEnd(t) ==
  [NoTrace EXCEPT !.spans = [i \in DOMAIN t.spans |-> [t.spans[i] EXCEPT !.open = FALSE]]]

Traced(t, e) ==
  CASE e.type = "run_started" -> TraceRun(t)
    [] e.type = "turn_started" -> TraceTurn(t)
    [] e.type = "tool_call_started" -> TraceTool(t, e.id)
    [] e.type = "tool_retry" -> TraceRetry(t, e.id)
    [] e.type = "tool_call_finished" -> TraceToolEnd(t, e.id)
    [] e.type = "compacted" -> TraceCompaction(t)
    [] e.type \in {"run_finished", "error"} -> TraceEnd(t)
    [] OTHER -> t

\* MetricsCollector.handle
Counted(m, a, e) ==
  CASE e.type = "run_started" -> [m EXCEPT !.started = @ + 1, !.open = @ \cup {a}]
    [] e.type = "run_finished" -> [m EXCEPT !.finished = @ + 1, !.open = @ \ {a}]
    [] e.type = "tool_call_finished" -> [m EXCEPT !.calls = @ + 1]
    [] OTHER -> m

-----------------------------------------------------------------------------
EventsInit ==
  /\ config \in Configs
  /\ stage = [a \in Runners |-> IF a \in config.agents THEN "recall" ELSE "done"]
  /\ at = [a \in Runners |-> [turn |-> 0, batch |-> 0, k |-> 0, retried |-> FALSE]]
  /\ out = [a \in Runners |-> Quiet]
  /\ bus = config.bus
  /\ trace = [a \in Runners |-> NoTrace]
  /\ metrics = [started |-> 0, finished |-> 0, calls |-> 0, open |-> {}]
  /\ steps = <<>> /\ replay = <<>> /\ results = [a \in Runners |-> <<>>]
  /\ entries = {} /\ file = NoFile /\ call = [a \in Runners |-> Idle]
  /\ made = 0 /\ late = FALSE /\ faults = 0
  /\ seen = [a \in Runners |-> "none"]

MayFail == faults < MaxFaults /\ faults' = faults + 1

-----------------------------------------------------------------------------
(***************************************************************************)
(* The bus                                                                 *)
(***************************************************************************)
\* list.remove; a subscriber occurs once.
Without(subs, s) ==
  IF s \notin Range(subs) THEN subs
  ELSE LET i == CHOOSE i \in DOMAIN subs : subs[i] = s
       IN  SubSeq(subs, 1, i - 1) \o SubSeq(subs, i + 1, Len(subs))

\* publish passes coroutine subscribers by; publish_async awaits them.
Gather == IF config.async THEN bus ELSE Without(bus, "coroutine")

Publish(a, e) ==
  /\ out' = [out EXCEPT ![a] = IF Gather = <<>> THEN Quiet ELSE [event |-> e, left |-> Gather]]

\* ReplayRecorder._append: the step stays in memory when the save fails.  Only the
\* snapshots are told apart; what is left of any other step is the save.
Record(snapshots) ==
  /\ steps' = steps \o snapshots
  /\ \/ replay' = steps' /\ UNCHANGED faults
     \/ MayFail /\ UNCHANGED replay

\* Exceptions of a subscriber are swallowed.
Rest(left, raised) == Tail(left)

Deliver(a) ==
  /\ out[a].left # <<>>
  /\ LET s == Head(out[a].left)
         e == out[a].event
     IN  /\ seen' = IF s = "tracer" THEN [seen EXCEPT ![a] = e.type] ELSE seen
         /\ trace' = IF s = "tracer" THEN [trace EXCEPT ![a] = Traced(@, e)] ELSE trace
         /\ metrics' = IF s = "metrics" THEN Counted(metrics, a, e) ELSE metrics
         /\ IF s = "recorder" /\ e.type # "memory_recalled" THEN Record(<<>>)
            ELSE UNCHANGED <<steps, replay, faults>>
  /\ LET left == Rest(out[a].left, faults' # faults)
     IN  out' = [out EXCEPT ![a] = IF left = <<>> THEN Quiet ELSE [@ EXCEPT !.left = left]]
  /\ UNCHANGED <<config, stage, at, bus, results, memory>>

Subscribe(s) ==
  /\ s \in config.toggles \ Range(bus)
  /\ bus' = Append(bus, s)
  /\ UNCHANGED <<config, progress, trace, metrics, steps, replay, memory, faults, seen>>

Unsubscribe(s) ==
  /\ s \in config.toggles \cap Range(bus)
  /\ bus' = Without(bus, s)
  /\ UNCHANGED <<config, progress, trace, metrics, steps, replay, memory, faults, seen>>

-----------------------------------------------------------------------------
(***************************************************************************)
(* JsonFileMemory: a call changes the entries under the lock, and then,    *)
(* without it, takes a copy and replaces the file                          *)
(***************************************************************************)
Free(a) == call[a].phase = "idle"

Entry(a, tier, ttl) == [id |-> made + 1, tier |-> tier, run |-> a, ttl |-> ttl]

IsExpired(e) == e.ttl /\ late

\* delete: the entry with the given id, if there is one.
Deletions == {entries} \cup {entries \ {e} : e \in entries}
Purged == {e \in entries : ~IsExpired(e)}
Cleared(a) == {e \in entries : ~(e.tier = "working" /\ e.run = a)}

\* What a call may leave of the entries, the entries it adds included.
Changes(a, op) ==
  CASE op = "store" -> {entries \cup {Entry(a, "persistent", FALSE)}}
    [] op = "scratch" -> {entries \cup {Entry(a, "working", TRUE)}}
    [] op = "remember" -> {entries \cup {Entry(a, "episodic", FALSE)}}
    [] op = "clear" -> {{}}
    [] op = "forget" -> Deletions
    [] op = "purge_expired" -> {Purged}
    [] op = "cleanup" -> {Cleared(a)}

Adds(op) == op \in {"store", "scratch", "remember"}

\* delete and purge_expired write only when something went.
Writes(op) == op \in {"forget", "purge_expired"} => entries' # entries

BeginCall(a, op) ==
  /\ Adds(op) => made < MaxEntries
  /\ entries' \in Changes(a, op)
  /\ made' = IF Adds(op) THEN made + 1 ELSE made
  /\ LET alone == \A b \in Runners \ {a} : Free(b)
         mine == [op |-> op, phase |-> IF Adds(op) THEN "collect" ELSE "check",
                  payload |-> {}, alone |-> alone, failed |-> FALSE]
     IN  call' = [b \in Runners |->
                    IF b = a THEN IF Writes(op) THEN mine ELSE Idle
                    ELSE IF Free(b) THEN call[b] ELSE [call[b] EXCEPT !.alone = FALSE]]
  /\ UNCHANGED <<file, late>>

\* _persist_or_remove_if_empty
CheckEmpty(a) ==
  /\ call[a].phase = "check"
  /\ call' = [call EXCEPT ![a].phase = IF entries = {} THEN "unlink" ELSE "collect"]
  /\ UNCHANGED <<entries, file, made, late, faults>>

\* _persist: a copy of all entries, the expired ones included.
Collect(a) ==
  /\ call[a].phase = "collect"
  /\ call' = [call EXCEPT ![a].phase = "replace", ![a].payload = entries]
  /\ UNCHANGED <<entries, file, made, late, faults>>

\* The temporary file takes the place of the file, or goes.
Replace(a) ==
  /\ call[a].phase = "replace"
  /\ \/ /\ file' = [exists |-> TRUE, entries |-> call[a].payload]
        /\ call' = [call EXCEPT ![a] = Idle]
        /\ UNCHANGED faults
     \/ MayFail /\ call' = [call EXCEPT ![a] = Failed] /\ UNCHANGED file
  /\ UNCHANGED <<entries, made, late>>

\* Mutant: the file of an emptied memory stays.
Unlink_Not(a) ==
  /\ call[a].phase = "unlink"
  /\ call' = [call EXCEPT ![a] = Idle]
  /\ UNCHANGED <<file, entries, made, late, faults>>

Unlink(a) ==
  /\ call[a].phase = "unlink"
  /\ file' = NoFile
  /\ call' = [call EXCEPT ![a] = Idle]
  /\ UNCHANGED <<entries, made, late, faults>>

MemoryStep(a) ==
  /\ CheckEmpty(a) \/ Collect(a) \/ Replace(a) \/ Unlink(a)
  /\ UNCHANGED <<config, progress, listeners, seen>>

TimePasses ==
  /\ ~late /\ "purge_expired" \in config.ops
  /\ late' = TRUE
  /\ UNCHANGED <<config, progress, listeners, entries, file, call, made, faults, seen>>

-----------------------------------------------------------------------------
(***************************************************************************)
(* A run, as far as it publishes, records and remembers                    *)
(***************************************************************************)
Ready(a, p) == stage[a] = p /\ out[a].left = <<>> /\ Free(a)

GoTo(a, p) == stage' = [stage EXCEPT ![a] = p]

\* A step that publishes and changes nothing else but the run's own place.
Emit(a, type, id, p) ==
  /\ Publish(a, Event(type, id))
  /\ GoTo(a, p)
  /\ UNCHANGED <<config, listeners, memory, faults, seen>>

Id(a) == (at[a].turn - 1) * config.batch + at[a].k

\* search: the entries that have not expired; whether one of them matches the message
\* is Recall's choice.
Search == {e \in entries : ~IsExpired(e)}

\* _recall_memory
Recall(a) ==
  /\ Ready(a, "recall")
  /\ \/ GoTo(a, "start") /\ UNCHANGED <<config, out, listeners, memory, faults, seen>>
     \/ Search # {} /\ Emit(a, "memory_recalled", 0, "start")
  /\ UNCHANGED <<at, results>>

BeginRun(a) ==
  /\ Ready(a, "start")
  /\ Emit(a, "run_started", 0, "turn")
  /\ UNCHANGED <<at, results>>

StartTurn(a) ==
  /\ Ready(a, "turn") /\ at[a].turn < config.turns
  /\ at' = [at EXCEPT ![a] = [turn |-> @.turn + 1, batch |-> 0, k |-> 1, retried |-> FALSE]]
  /\ Emit(a, "turn_started", 0, "context")
  /\ UNCHANGED results

\* max_iterations: an error event, and the run still finishes.
HitCap(a) ==
  /\ Ready(a, "turn") /\ at[a].turn = config.turns
  /\ Emit(a, "error", 0, "finish")
  /\ UNCHANGED <<at, results>>

\* Compaction shortens the results in the state or elides the older ones.
Compact(a) ==
  /\ Ready(a, "context") /\ results[a] # <<>>
  /\ \/ results' = [results EXCEPT ![a] = [i \in DOMAIN @ |-> [@[i] EXCEPT !.whole = FALSE]]]
     \/ results' = [results EXCEPT ![a] = <<@[Len(@)]>>]
  /\ Emit(a, "compacted", 0, "model")
  /\ UNCHANGED at

\* The model asks for a batch of calls, answers, or the run fails.
Respond(a) ==
  \/ \E n \in 1..config.batch :
       /\ Ready(a, "context") \/ Ready(a, "model")
       /\ at' = [at EXCEPT ![a].batch = n]
       /\ GoTo(a, "gate")
       /\ UNCHANGED <<config, out, results, listeners, memory, faults, seen>>
  \/ /\ Ready(a, "context") \/ Ready(a, "model")
     /\ GoTo(a, "answered")
     /\ UNCHANGED <<config, at, out, results, listeners, memory, faults, seen>>

RunFails(a) ==
  /\ Ready(a, "context") \/ Ready(a, "model") \/ Ready(a, "result")
  /\ Emit(a, "error", 0, "cleanup")
  /\ UNCHANGED <<at, results>>

\* In parallel mode every call of the batch is announced before one runs.
StartCall(a) ==
  /\ Ready(a, "gate")
  /\ LET more == config.parallel /\ at[a].k < at[a].batch
     IN  /\ at' = [at EXCEPT ![a].k = IF more THEN @ + 1 ELSE IF config.parallel THEN 1 ELSE @]
         /\ Emit(a, "tool_call_started", Id(a), IF more THEN "gate" ELSE "execute")
  /\ UNCHANGED results

\* MemoryTool.execute, as the model asks.
ExecuteCall(a) ==
  /\ Ready(a, "execute")
  /\ \E op \in config.ops : BeginCall(a, op)
  /\ LET more == config.parallel /\ at[a].k < at[a].batch
     IN  /\ at' = [at EXCEPT ![a].k = IF more THEN @ + 1 ELSE IF config.parallel THEN 1 ELSE @]
         /\ GoTo(a, IF more THEN "execute" ELSE "result")
  /\ UNCHANGED <<config, out, results, listeners, faults, seen>>

\* _retry_transient_tool
Retry(a) ==
  /\ Ready(a, "result") /\ ~at[a].retried
  /\ at' = [at EXCEPT ![a].retried = TRUE]
  /\ Emit(a, "tool_retry", Id(a), "again")
  /\ UNCHANGED results

ExecuteAgain(a) ==
  /\ Ready(a, "again")
  /\ \E op \in config.ops : BeginCall(a, op)
  /\ GoTo(a, "result")
  /\ UNCHANGED <<config, at, out, results, listeners, faults, seen>>

FinishCall(a) ==
  /\ Ready(a, "result")
  /\ results' = [results EXCEPT ![a] = Append(@, [id |-> Id(a), whole |-> TRUE])]
  /\ at' = [at EXCEPT ![a].k = @ + 1]
  /\ Emit(a, "tool_call_finished", Id(a),
          IF at[a].k = at[a].batch THEN "saved" ELSE IF config.parallel THEN "result" ELSE "gate")

\* _persist_state hands the state to the recorder.
Snapshot(a, p) ==
  IF "recorder" \notin Range(config.bus)
  THEN GoTo(a, p) /\ UNCHANGED <<out, steps, replay, faults>>
  ELSE /\ Record(<<results[a]>>)
       /\ IF faults' = faults THEN UNCHANGED out
          ELSE Publish(a, Event("replay_persist_failed", 0))
       /\ GoTo(a, p)

SaveState(a) ==
  /\ \/ Ready(a, "saved") /\ Snapshot(a, "turn")
     \/ Ready(a, "answered") /\ Snapshot(a, "finish")
  /\ UNCHANGED <<config, at, results, bus, trace, metrics, memory, seen>>

FinishRun(a) ==
  /\ Ready(a, "finish")
  /\ Emit(a, "run_finished", 0, "remember")
  /\ UNCHANGED <<at, results>>

\* _store_memory
Remember(a) ==
  /\ Ready(a, "remember")
  /\ BeginCall(a, "remember")
  /\ GoTo(a, "remembered")
  /\ UNCHANGED <<config, at, out, results, listeners, faults, seen>>

Remembered(a) ==
  /\ Ready(a, "remembered")
  /\ Emit(a, IF call[a].failed THEN "memory_store_failed" ELSE "memory_stored", 0, "cleanup")
  /\ UNCHANGED <<at, results>>

\* _clear_working_memory
Cleanup(a) ==
  /\ Ready(a, "cleanup")
  /\ BeginCall(a, "cleanup")
  /\ GoTo(a, "cleaned")
  /\ UNCHANGED <<config, at, out, results, listeners, faults, seen>>

CleanupFailed(a) ==
  /\ Ready(a, "cleaned") /\ call[a].failed
  /\ Emit(a, "memory_cleanup_failed", 0, "done")
  /\ UNCHANGED <<at, results>>

Run(a) ==
  \/ Recall(a) \/ BeginRun(a) \/ StartTurn(a) \/ HitCap(a) \/ Compact(a) \/ Respond(a) \/ RunFails(a)
  \/ StartCall(a) \/ ExecuteCall(a) \/ Retry(a) \/ ExecuteAgain(a) \/ FinishCall(a)
  \/ SaveState(a) \/ FinishRun(a) \/ Remember(a) \/ Remembered(a) \/ Cleanup(a) \/ CleanupFailed(a)

EventsNext ==
  \/ \E a \in Runners : Run(a) \/ Deliver(a) \/ MemoryStep(a)
  \/ \E s \in Subscribers : Subscribe(s) \/ Unsubscribe(s)
  \/ TimePasses

EventsSpec == EventsInit /\ [][EventsNext]_eventVars

-----------------------------------------------------------------------------
(***************************************************************************)
(* Spans nest and end: while a span is open so is its parent and no second *)
(* turn of the run is, for every interleaving of runs on one bus, and once *)
(* the tracer was given the run's last event no span of it is open, even   *)
(* if events were missed while the tracer was detached ("nested span       *)
(* boundaries", observability/tracer.py:46, 65).                           *)
(***************************************************************************)
SpansNest ==
  \A a \in Runners :
    LET spans == trace[a].spans
    IN  /\ "tracer" \notin config.toggles =>
             /\ \A i \in DOMAIN spans : spans[i].open /\ i > 1 => spans[spans[i].parent].open
             /\ \A i, j \in DOMAIN spans :
                  spans[i].open /\ spans[j].open /\ spans[i].kind = "turn" /\ spans[j].kind = "turn"
                    => i = j
        /\ seen[a] \in {"run_finished", "error"} =>
             \A i \in DOMAIN spans : ~spans[i].open

(***************************************************************************)
(* "Writes happen after every mutating call" (memory/json_file.py:35): a   *)
(* call no other call overlapped leaves the file equal to the memory, even *)
(* when overlapping calls had left an older copy in it.                    *)
(***************************************************************************)
SoloCallsAreSaved ==
  [][\A a \in Runners :
       ~Free(a) /\ call'[a] = Idle /\ call[a].alone =>
         file'.entries = entries' /\ (entries' = {} => ~file'.exists)]_eventVars
=============================================================================
