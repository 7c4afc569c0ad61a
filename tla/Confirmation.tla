----------------------------- MODULE Confirmation -----------------------------
(***************************************************************************)
(* Durable human confirmation: a tool call that needs a confirmation and   *)
(* gets no synchronous decision is checkpointed, the run raises            *)
(* PendingConfirmationError, and resume_from_confirmation later rebuilds   *)
(* an agent from the checkpoint, applies the human verdict, finishes the   *)
(* round and continues (agent/agent.py, replay/checkpoint.py).             *)
(*                                                                         *)
(* A checkpoint is two writes to a single-slot ReplayStore, a snapshot of  *)
(* the conversation and the runtime fields, and it is saved twice: once by *)
(* _prepare_call and again after the bookkeeping of the round.  A process  *)
(* may crash between any two writes.  A ReplayRecorder attached to the     *)
(* agent may share the store; it writes the timeline it has cached.        *)
(*                                                                         *)
(* Which calls come that far is decided by the gate in front of every      *)
(* call: hooks that may veto a call or replace its arguments, the          *)
(* permission policy, and hooks that may confirm on the user's behalf      *)
(* (hooks/registry.py, security/policy.py).  Agent and AsyncAgent have     *)
(* each a copy of all this.                                                *)
(***************************************************************************)
EXTENDS Conversation, FiniteSetsExt

CONSTANTS
  Setups,        \* the agents considered, see setup
  MaxBatch,      \* tool calls in one assistant turn
  MaxCalls,      \* bound: tool calls requested over all turns
  MaxResumes     \* bound: calls of resume_from_confirmation

PCs == {"llm", "gate", "snapshot1", "runtime1", "bookkeeping", "snapshot2",
        "runtime2", "paused", "resolve", "ended", "down"}

\* The arguments of a call, as far as a policy tells them apart: harmless ones,
\* dangerous ones, those of a tool nobody listed, and those the tool's schema
\* refuses.
Inputs == {"plain", "danger", "foreign", "invalid"}

\* What a policy says of a call, and a rule: the arguments each of its selectors
\* matches (one that is not set matches all) and its decision.
Decisions == {"allowed", "confirm", "denied"}

Rule == [tool : SUBSET Inputs, path : SUBSET Inputs, domain : SUBSET Inputs,
         command : SUBSET Inputs, decision : Decisions]

\* What a hook does: returns nothing, lets the call pass, stops it, replaces its
\* arguments by dangerous ones, raises, or is a coroutine that lets it pass.
Reactions == {"observe", "go", "stop", "edit", "raise", "coroutine"}

ASSUME ConfirmationAssumption ==
  /\ \A s \in Setups :
       /\ {s.async, s.parallel, s.recorder, s.durable} \subseteq BOOLEAN
       /\ s.crashPoints \subseteq PCs \ {"down"}
       /\ s.before \in Seq(Reactions) /\ s.confirmers \in Seq(Reactions)
       /\ s.inputs \subseteq Inputs
       /\ s.rules \in Seq(Rule)
  /\ MaxBatch \in Nat \ {0} /\ MaxCalls \in Nat /\ MaxResumes \in Nat

Ids == 1..MaxCalls

None == [none |-> TRUE]

\* What the store holds: the latest snapshot and the latest runtime fields.
Empty == [snapshot |-> None, runtime |-> None]

VARIABLES
  setup,        \* async: an AsyncAgent; parallel: parallel_tool_execution;
                \* recorder: an attached replay_recorder shares the store;
                \* durable: a checkpoint_manager is configured; before and
                \* confirmers: the hooks at BEFORE_TOOL_CALL and
                \* ON_PERMISSION_CHECK; rules: of a RuleBasedPolicy, <<>> for an
                \* AllowListPolicy; inputs: arguments the model uses;
                \* crashPoints: the values of pc at which the process may crash
  pc,
  history,      \* state.messages
  batch,        \* calls of the round still to be gated
  gated,        \* parallel rounds: calls that passed the gate
  pending,      \* _pending_confirmation: a call and its arguments, or None; with
                \* it, only to tell checkpoints apart, resumes at the pause
  remaining,    \* _pending_remaining_calls
  store,        \* the ReplayStore
  cache,        \* the timeline cached by the attached recorder
  issued,       \* tool calls requested so far
  inputs,       \* the arguments of each call requested so far
  resumes,
  crashed,      \* history variable: whether the process has crashed, and
                \* whether it once tore a checkpoint
  executed,     \* history variable: the arguments of each execution of a call
  approved,     \* history variable: calls a human, or a hook, approved
  taken,        \* history variable: the checkpoints resumed so far
  repeats       \* history variable: how often a checkpoint resumed before was
                \* resumed again with this call still to be done

agent == <<history, batch, gated, pending, remaining>>
life  == <<setup, resumes, crashed, taken, repeats>>
log   == <<executed, approved>>
vars  == <<pc, agent, store, cache, issued, inputs, life, log>>

Init ==
  /\ setup \in Setups /\ crashed = "never"
  /\ pc = "llm" /\ history = <<UserTurn(0)>>
  /\ batch = <<>> /\ gated = <<>> /\ pending = None /\ remaining = <<>>
  /\ store = Empty /\ cache = Empty
  /\ issued = 0 /\ inputs = [c \in Ids |-> "none"] /\ resumes = 0
  /\ executed = [c \in Ids |-> <<>>] /\ approved = {}
  /\ taken = {} /\ repeats = [c \in Ids |-> 0]

-----------------------------------------------------------------------------
(***************************************************************************)
(* The gate.                                                               *)
(***************************************************************************)
\* trigger: what the hooks that returned something said.  One that raises or
\* observes says nothing, and a coroutine is not awaited.
TriggerSync(hooks) == {hooks[k] : k \in DOMAIN hooks} \cap {"go", "stop", "edit"}

\* trigger_async: a coroutine is awaited, in its turn.
TriggerAsync(hooks) ==
  TriggerSync(hooks) \cup {"go" : k \in {k \in DOMAIN hooks : hooks[k] = "coroutine"}}

Trigger(hooks) == IF setup.async THEN TriggerAsync(hooks) ELSE TriggerSync(hooks)

\* AllowListPolicy.check
AllowList(arguments) ==
  CASE arguments = "foreign" -> "denied"
    [] arguments = "danger" -> "confirm"
    [] OTHER -> "allowed"

\* Every selector of the rule that is set matches.
Matches(rule, arguments) ==
  arguments \in rule.tool \cap rule.path \cap rule.domain \cap rule.command

\* RuleBasedPolicy.check: the first matching rule wins, no match is a denial.
RuleBased(arguments) ==
  LET hits == {k \in DOMAIN setup.rules : Matches(setup.rules[k], arguments)}
  IN IF hits = {} THEN "denied" ELSE setup.rules[Min(hits)].decision

Check(arguments) == IF setup.rules = <<>> THEN AllowList(arguments) ELSE RuleBased(arguments)

\* _confirmation_status: an explicit go wins over a stop.
Status(said) ==
  CASE said \cap {"go", "edit"} # {} -> "approved"
    [] said = {"stop"} -> "denied"
    [] said = {} -> "no_hook"

ConfirmationStatusSync  == Status(TriggerSync(setup.confirmers))
ConfirmationStatusAsync == Status(TriggerAsync(setup.confirmers))

ConfirmationStatus ==
  IF setup.async THEN ConfirmationStatusAsync ELSE ConfirmationStatusSync

\* The arguments of a call once the hooks have seen them.
Arguments(c) == IF "edit" \in Trigger(setup.before) THEN "danger" ELSE inputs[c]

\* Mutant: what the model asked for is checked, what the hooks made of it runs.
Decision_Unedited(c) == Check(inputs[c])

Decision(c) == Check(Arguments(c))

\* validate_tool_input finds problems.
Refused(arguments) == arguments = "invalid"

\* _prepare_call, up to a checkpoint: the call runs, gets an error result
\* instead, or awaits a human.
PrepareCall(c) ==
  LET asks == Decision(c) = "confirm"
  IN CASE "stop" \in Trigger(setup.before) \/ Decision(c) = "denied" -> "early"
       [] asks /\ ConfirmationStatus = "no_hook" /\ setup.durable -> "pending"
       [] asks /\ ConfirmationStatus # "approved" -> "early"
       [] Refused(Arguments(c)) -> "early"
       [] OTHER -> "run"

-----------------------------------------------------------------------------
(***************************************************************************)
(* Writes to the store.  CheckpointManager.save appends to what the store  *)
(* holds; the attached recorder writes back its own copy.                  *)
(***************************************************************************)
\* An event is emitted while the recorder listens.
Recorded ==
  IF setup.recorder THEN store' = cache /\ UNCHANGED cache ELSE UNCHANGED <<store, cache>>

\* _persist_state: the recorder also takes a snapshot.
RecordedSnapshot(messages) ==
  IF setup.recorder
  THEN /\ cache' = [cache EXCEPT !.snapshot = messages]
       /\ store' = cache'
  ELSE UNCHANGED <<store, cache>>

SaveSnapshot == store' = [store EXCEPT !.snapshot = history] /\ UNCHANGED cache

\* _checkpoint_runtime_state
Runtime == [pending |-> pending, remaining |-> remaining]

SaveRuntime == store' = [store EXCEPT !.runtime = Runtime] /\ UNCHANGED cache

Results(callIds) == [k \in DOMAIN callIds |-> ToolResult(callIds[k])]

\* The executions of a set of calls with their arguments.
Ran(runs) ==
  executed' = [c \in Ids |-> IF \E r \in runs : r.call = c
                            THEN Append(executed[c], (CHOOSE r \in runs : r.call = c).arguments)
                            ELSE executed[c]]

\* Gated calls that may run do; the others have an error result already.  A call
\* that had to be confirmed was, by a hook.
Execute(callIds) ==
  LET passed == {callIds[k] : k \in {k \in DOMAIN callIds : PrepareCall(callIds[k]) = "run"}}
  IN /\ Ran({[call |-> c, arguments |-> Arguments(c)] : c \in passed})
     /\ approved' = approved \cup
                     {c \in passed : Decision(c) = "confirm" /\ ConfirmationStatus = "approved"}

-----------------------------------------------------------------------------
\* The model asks for n tools, or answers.
RequestTools(n) ==
  /\ pc = "llm" /\ issued + n <= MaxCalls
  /\ batch' = [k \in 1..n |-> issued + k]
  /\ \E asked \in [(issued + 1)..(issued + n) -> setup.inputs] :
       inputs' = [c \in Ids |-> IF c \in DOMAIN asked THEN asked[c] ELSE inputs[c]]
  /\ history' = Append(history, AssistantCalls(batch'))
  /\ issued' = issued + n
  /\ pc' = "gate" /\ Recorded
  /\ UNCHANGED <<gated, pending, remaining, life, log>>

Answer ==
  /\ pc = "llm"
  /\ history' = Append(history, AssistantText)
  /\ RecordedSnapshot(history')
  /\ pc' = "ended"
  /\ UNCHANGED <<batch, gated, pending, remaining, issued, inputs, life, log>>

\* The run ends in an exception, of the model's client or of a round, and the
\* process lives on.
RunRaises ==
  /\ pc \in {"llm", "gate"}
  /\ pc' = "ended" /\ Recorded
  /\ UNCHANGED <<agent, issued, inputs, life, log>>

\* Parallel execution is for more than one call.
InOrder == ~setup.parallel \/ Len(batch) + Len(gated) = 1

\* Sequential path: the call is gated, executed if it may, and recorded.
RunNextCall ==
  /\ pc = "gate" /\ batch # <<>> /\ PrepareCall(Head(batch)) # "pending"
  /\ InOrder
  /\ history' = Append(history, ToolResult(Head(batch)))
  /\ Execute(<<Head(batch)>>)
  /\ batch' = Tail(batch)
  /\ Recorded
  /\ UNCHANGED <<pc, gated, pending, remaining, issued, inputs, life>>

\* Parallel path: the call is gated and waits for the dispatch.
GateNextCall ==
  /\ pc = "gate" /\ batch # <<>> /\ PrepareCall(Head(batch)) # "pending"
  /\ ~InOrder
  /\ gated' = Append(gated, Head(batch)) /\ batch' = Tail(batch)
  /\ Recorded
  /\ UNCHANGED <<pc, history, pending, remaining, issued, inputs, life, log>>

Dispatch ==
  /\ history' = history \o Results(gated)
  /\ Execute(gated) /\ gated' = <<>>

\* The round is over: dispatch what is gated, save, next turn.
FinishRound ==
  /\ pc = "gate" /\ batch = <<>>
  /\ Dispatch
  /\ RecordedSnapshot(history')
  /\ pc' = "llm"
  /\ UNCHANGED <<batch, pending, remaining, issued, inputs, life>>

-----------------------------------------------------------------------------
(***************************************************************************)
(* The call needs a confirmation: the checkpoint is saved by _prepare_call *)
(* and, after the bookkeeping, once more.                                  *)
(***************************************************************************)
NeedConfirmation ==
  /\ pc = "gate" /\ batch # <<>> /\ PrepareCall(Head(batch)) = "pending"
  /\ pending' = [call |-> Head(batch), arguments |-> Arguments(Head(batch)), epoch |-> resumes]
  /\ pc' = "snapshot1" /\ Recorded
  /\ UNCHANGED <<history, batch, gated, remaining, issued, inputs, life, log>>

SaveStep(at, next, Write) ==
  /\ pc = at /\ Write /\ pc' = next
  /\ UNCHANGED <<agent, issued, inputs, life, log>>

\* The calls of the round that are not finished.  AsyncAgent leaves out the
\* pending one where it runs calls one after the other.
Unfinished == IF setup.async /\ InOrder THEN Tail(batch) ELSE batch

\* Mutant: the calls that passed the gate are neither run nor remembered.
Bookkeeping_ForgetsGated ==
  /\ pc = "bookkeeping"
  /\ remaining' = Unfinished
  /\ gated' = <<>>
  /\ pc' = "snapshot2"
  /\ UNCHANGED <<history, batch, pending, store, cache, issued, inputs, life, log>>

\* Parallel rounds run and record the calls that passed the gate; then the
\* suffix of the round that is not finished becomes part of the checkpoint.
Bookkeeping ==
  /\ pc = "bookkeeping"
  /\ remaining' = Unfinished
  /\ Dispatch
  /\ IF gated = <<>> THEN UNCHANGED <<store, cache>> ELSE Recorded
  /\ pc' = "snapshot2"
  /\ UNCHANGED <<batch, pending, issued, inputs, life>>

SaveCheckpoint ==
  \/ SaveStep("snapshot1", "runtime1", SaveSnapshot)
  \/ SaveStep("runtime1", "bookkeeping", SaveRuntime)
  \/ Bookkeeping
  \/ SaveStep("snapshot2", "runtime2", SaveSnapshot)
  \/ SaveStep("runtime2", "paused", SaveRuntime)

-----------------------------------------------------------------------------
\* Between the first write of a checkpoint and the last, what the store holds
\* need not fit together.
CheckpointWindow == {"runtime1", "bookkeeping", "snapshot2", "runtime2"}

Crash ==
  /\ pc \in setup.crashPoints
  /\ pc' = "down"
  /\ crashed' = IF pc \in CheckpointWindow \/ crashed = "torn" THEN "torn" ELSE "clean"
  /\ UNCHANGED <<setup, agent, store, cache, issued, inputs, resumes, taken, repeats, log>>

\* CheckpointManager.resume and resume_async raise unless both parts are there.
Restorable == store.snapshot # None /\ store.runtime # None

\* _restore_checkpoint_runtime_state, of Agent and of AsyncAgent.
Restore      == pending' = store.runtime.pending /\ remaining' = store.runtime.remaining
RestoreAsync == pending' = store.runtime.pending /\ remaining' = store.runtime.remaining

\* What is left of a round once its pending call is resolved: that call may head
\* the list.
RestOf(runtime) ==
  IF runtime.remaining # <<>> /\ Head(runtime.remaining) = runtime.pending.call
  THEN Tail(runtime.remaining)
  ELSE runtime.remaining

\* The calls a checkpoint has still to be done.
Left(runtime) == <<runtime.pending.call>> \o RestOf(runtime)

Again(runtime) ==
  IF runtime.pending.epoch \in taken THEN {Left(runtime)[k] : k \in DOMAIN Left(runtime)} ELSE {}

\* A new agent on the history of the snapshot, one at a time.  Nothing marks a
\* checkpoint as used, so the run may have gone on from it before, to its end or
\* to a crash.  The recorder is a new one, or still that of the agent before.
Resumed ==
  /\ pc \in {"paused", "ended", "down"} /\ resumes < MaxResumes
  /\ Restorable
  /\ history' = store.snapshot
  /\ batch' = <<>> /\ gated' = <<>>
  /\ \/ cache' = store
     \/ setup.recorder /\ pc # "down" /\ UNCHANGED cache
  /\ resumes' = resumes + 1
  /\ taken' = taken \cup {store.runtime.pending.epoch}
  /\ repeats' = [c \in Ids |-> repeats[c] + IF c \in Again(store.runtime) THEN 1 ELSE 0]
  /\ pc' = "resolve"
  /\ UNCHANGED <<setup, crashed, store, issued, inputs, log>>

Resume      == ~setup.async /\ Resumed /\ Restore
ResumeAsync == setup.async /\ Resumed /\ RestoreAsync

\* Mutant: the pending call is not dropped from the rest of its round.
Rest_KeepsHead == remaining

Rest == RestOf(Runtime)

\* _resolve_pending_confirmation, up to the rest of the round.  The human decided
\* on the arguments of the checkpoint; the tool may be gone from the new agent.
Resolve(verdict, present) ==
  /\ pc = "resolve"
  /\ Ran(IF verdict /\ present THEN {pending} ELSE {})
  /\ approved' = IF verdict THEN approved \cup {pending.call} ELSE approved
  /\ history' = Append(history, ToolResult(pending.call))
  /\ batch' = Rest
  /\ pending' = None /\ remaining' = <<>>
  /\ Recorded
  /\ pc' = "gate"
  /\ UNCHANGED <<gated, issued, inputs, life>>

ResolvePendingConfirmation(verdict, present) == ~setup.async /\ Resolve(verdict, present)
ResolvePendingConfirmationAsync(verdict, present) == setup.async /\ Resolve(verdict, present)

-----------------------------------------------------------------------------
Next ==
  \/ \E n \in 1..MaxBatch : RequestTools(n)
  \/ Answer \/ RunRaises \/ RunNextCall \/ GateNextCall \/ FinishRound
  \/ NeedConfirmation \/ SaveCheckpoint
  \/ Crash \/ Resume \/ ResumeAsync
  \/ \E verdict \in BOOLEAN, present \in BOOLEAN :
       \/ ResolvePendingConfirmation(verdict, present)
       \/ ResolvePendingConfirmationAsync(verdict, present)

Spec == Init /\ [][Next]_vars

-----------------------------------------------------------------------------
Repeated == \E c \in Ids : repeats[c] > 0

(***************************************************************************)
(* Every request the model sees, before the pause and after any number of  *)
(* resumes, has each tool_use of the interrupted round answered exactly    *)
(* once and in order: "the replay-valid state needed by                    *)
(* resume_from_confirmation" (agent.py:1278).  It holds too when a run     *)
(* goes on twice from one checkpoint, as nothing in CheckpointManager      *)
(* prevents (checkpoint.py:69-100), unless a recorder shares the store and *)
(* has put a newer snapshot before the old runtime fields.  A checkpoint   *)
(* torn by a crash between its writes (agent.py:1275) promises nothing     *)
(* here.                                                                   *)
(***************************************************************************)
ResumedHistoryValid ==
  pc = "llm" /\ crashed # "torn" /\ ~(setup.recorder /\ Repeated) => ReplayValid(history)

(***************************************************************************)
(* A tool runs on arguments that the policy in force allows and the schema *)
(* accepts, or that the policy wants confirmed and a human, or a hook that *)
(* speaks for one, approved for that very call, and on no others: whatever *)
(* the hooks make of the arguments, and whichever part of the round the    *)
(* call was restored from, a torn checkpoint included (agent.py:1429-1446, *)
(* 1678).  What a human approved is not held against the schema again      *)
(* (agent.py:1456, 1676).                                                  *)
(***************************************************************************)
NoUnapprovedExecution ==
  \A c \in Ids : \A arguments \in {executed[c][k] : k \in DOMAIN executed[c]} :
    \/ Check(arguments) = "allowed" /\ ~Refused(arguments)
    \/ Check(arguments) = "confirm" /\ c \in approved

(***************************************************************************)
(* Without a crash a call is executed at most once and once more for each  *)
(* resumption that repeats a checkpoint listing it as not done: neither a  *)
(* call that ran before its round was interrupted, nor one the human       *)
(* decided on, nor one after it is run by pausing and resuming as such     *)
(* (agent.py:1689, "never emit a duplicate tool result").                  *)
(***************************************************************************)
ExecutedAtMostOnce ==
  crashed = "never" => \A c \in Ids : Len(executed[c]) <= 1 + repeats[c]
=============================================================================
