------------------------------ MODULE AsyncLoop ------------------------------
(***************************************************************************)
(* AsyncAgent.run and its loop (kinetic_sdk/agent/async_agent.py), the     *)
(* twin of Agent.run on an event loop: "the SAME feature set with the SAME *)
(* semantics ... only the mechanics differ".                               *)
(*                                                                         *)
(* A step ends where the coroutine may be suspended and something else may *)
(* run: between classification and the loop, while a worker thread         *)
(* compacts the history, between a response and the verdict on it, between *)
(* the gate of a call and its execution, while the calls of a batch are    *)
(* under way in asyncio.gather, and between the results recorded after it. *)
(* At each of these cancel(), pause(), resume(), a queued message or a     *)
(* crash may come.  Sync says that nothing of this can be told from        *)
(* outside: every behaviour is one of AgentLoop, whose steps are larger.   *)
(* Cancellation of the asyncio task that awaits run() is not modelled.      *)
(***************************************************************************)
EXTENDS Conversation

CONSTANTS
  FlashCap, MaxCap, Threshold, Override,   \* the routing constants of AgentLoop
  HasSchema, SchemaRetries, HasVerifier, VerifyRetries,
  CallBudget, SpentBefore, HasStuckDetector, Parallel, MaxBatch,
  CanCompact, StoreFails, Faults, Controls, MaxRuns, MaxSends,
  MaxTransient         \* max_transient_retries

ASSUME AsyncAssumption ==
  /\ FlashCap \in Nat /\ MaxCap \in Nat /\ Threshold \in Nat
  /\ Override \in Nat /\ SchemaRetries \in Nat /\ VerifyRetries \in Nat
  /\ CallBudget \in Nat /\ SpentBefore \in Nat /\ MaxBatch \in Nat \ {0}
  /\ HasStuckDetector \in BOOLEAN
  /\ MaxTransient \in Nat

VARIABLES
  pc, history, mode, sticky, cap, iteration, escalated,
  schemaLeft, verifyLeft, rejected, final,
  calls, recorded, gates, anyError, stop,
  cancelled, go, woken, inbox, disk, spent, outcome, runs, sends,
  turnsUnsaved, callsInRun, callsSincePause, escalations,  \* the ghosts of AgentLoop
  verdict,    \* what the classifier is about to answer
  reply,      \* tool calls in the response being handled, 0 for a text
  aside,      \* the history before the step under way, or after it: see Shown
  results,    \* call -> what its execution returned, "none" while it runs
  attempts    \* transient retries of the call at hand

routing == <<mode, sticky, cap>>
answer  == <<schemaLeft, verifyLeft, rejected, final>>
round   == <<calls, recorded, gates, anyError>>
shared  == <<cancelled, go, woken, inbox, sends>>
ghosts  == <<turnsUnsaved, callsInRun, callsSincePause, escalations>>
locals  == <<verdict, reply, aside, results, attempts>>

vars == <<pc, history, routing, iteration, escalated, answer, round, stop,
          shared, disk, spent, outcome, runs, ghosts, locals>>

Max2(a, b) == IF a >= b THEN a ELSE b

Turn == runs * (Max2(Max2(MaxCap, FlashCap), Override) + 1) + iteration

\* _assistant_content: the ids the response gave its calls.
CallIds(n) == [k \in 1..n |-> Turn * MaxBatch + k]

\* _apply_mode
CapOf(m) == IF Override # 0 THEN Override ELSE IF m = "FLASH" THEN FlashCap ELSE MaxCap

\* __init__: the store is loaded; here it is new.
Init ==
  /\ pc = "idle" /\ history = <<>> /\ disk = <<>>
  /\ mode = "MAX" /\ sticky = FALSE /\ cap = CapOf("MAX")
  /\ iteration = 0 /\ escalated = FALSE
  /\ schemaLeft = SchemaRetries /\ verifyLeft = VerifyRetries
  /\ rejected = FALSE /\ final = "none"
  /\ calls = <<>> /\ recorded = 0 /\ gates = <<>> /\ anyError = FALSE
  /\ stop = FALSE /\ cancelled = FALSE /\ go = TRUE /\ woken = FALSE
  /\ inbox = <<>> /\ sends = 0
  /\ spent \in {n \in 0..SpentBefore : n <= CallBudget}
  /\ outcome = "none" /\ runs = 0
  /\ turnsUnsaved = 0 /\ callsInRun = 0 /\ callsSincePause = 0 /\ escalations = 0
  /\ verdict = "MAX" /\ reply = 0 /\ aside = <<>> /\ results = <<>> /\ attempts = 0

-----------------------------------------------------------------------------
(* run(), up to the loop *)

\* The message is added and the events are reset; then hooks, the classifier
\* and the planner are awaited.  What the classifier will say is chosen here.
Begin(withMessage, v) ==
  /\ pc = "idle" /\ runs < MaxRuns /\ (withMessage \/ history # <<>>)
  /\ history' = IF withMessage \/ HasSchema THEN Add(history, UserTurn(0)) ELSE history
  /\ cancelled' = FALSE /\ stop' = FALSE
  /\ iteration' = 0 /\ escalated' = FALSE
  /\ schemaLeft' = SchemaRetries /\ verifyLeft' = VerifyRetries
  /\ rejected' = FALSE /\ final' = "none"
  /\ outcome' = "none" /\ runs' = runs + 1 /\ callsInRun' = 0 /\ escalations' = 0
  /\ verdict' = v
  /\ pc' = "routing"
  /\ UNCHANGED <<routing, round, go, woken, inbox, sends, disk, spent, turnsUnsaved,
                 callsSincePause, reply, aside, results, attempts>>

(***************************************************************************)
(* AsyncLiteLLMClassifier: the words in the model's answer, or a call that *)
(* failed.                                                                 *)
(***************************************************************************)
Answers == {[failed |-> FALSE, words |-> w] : w \in SUBSET {"SIMPLE", "COMPLEX"}}
           \cup {[failed |-> TRUE, words |-> {}]}

\* _parse: COMPLEX unless SIMPLE is all it says.
ParseComplexity(words) == IF words = {"SIMPLE"} THEN "SIMPLE" ELSE "COMPLEX"

ToMode(complexity) == IF complexity = "SIMPLE" THEN "FLASH" ELSE "MAX"

\* classify: a failure is COMPLEX.
Classify(said) ==
  IF said.failed THEN "MAX" ELSE ToMode(ParseComplexity(said.words))

\* The mode a verdict leads to; MAX is sticky.
Routed(v) == IF v = "FLASH" /\ ~sticky THEN "FLASH" ELSE "MAX"

\* _classify_and_route, after its await.
ClassifyAndRoute ==
  /\ pc = "routing"
  /\ mode' = Routed(verdict) /\ sticky' = (sticky \/ verdict = "MAX") /\ cap' = CapOf(mode')
  /\ verdict' = "MAX"
  /\ pc' = "top"
  /\ UNCHANGED <<history, iteration, escalated, answer, round, stop, shared, disk, spent, outcome,
                 runs, ghosts, reply, aside, results, attempts>>

\* The loop is left: by a return, or by an exception that run() re-raises.
Leave(how) == pc' = "idle" /\ outcome' = how

-----------------------------------------------------------------------------
(* The head of the loop *)

HitCap ==
  /\ pc = "top" /\ iteration >= cap
  /\ Leave(IF rejected THEN "unverified" ELSE "cap")
  /\ UNCHANGED <<history, routing, iteration, escalated, answer, round, stop,
                 shared, disk, spent, runs, ghosts, locals>>

\* await _pause_event.wait(): a future that set() resolved is not taken back.
PauseGate == (go \/ woken) /\ woken' = FALSE /\ UNCHANGED <<cancelled, go, inbox, sends>>

PassPause ==
  /\ pc = "top" /\ iteration < cap /\ PauseGate
  /\ pc' = "check"
  /\ UNCHANGED <<history, routing, iteration, escalated, answer, round, stop,
                 disk, spent, outcome, runs, ghosts, locals>>

SeeCancel(at) ==
  /\ pc = at /\ cancelled
  /\ Leave("cancelled")
  /\ UNCHANGED <<history, routing, iteration, escalated, answer, round, stop,
                 shared, disk, spent, runs, ghosts, locals>>

\* _maybe_compact_context: compact() works on the state in a thread ...
StartCompaction ==
  /\ pc = "check" /\ ~cancelled
  /\ \/ aside' = history
     \/ CanCompact /\ aside' \in Compactions(history)
  /\ pc' = "compacting"
  /\ UNCHANGED <<history, routing, iteration, escalated, answer, round, stop, shared, disk, spent,
                 outcome, runs, ghosts, verdict, reply, results, attempts>>

\* ... and its result replaces the state.
Compacted ==
  /\ pc = "compacting"
  /\ history' = aside /\ aside' = <<>>
  /\ pc' = "hooked"
  /\ UNCHANGED <<routing, iteration, escalated, answer, round, stop, shared, disk, spent,
                 outcome, runs, ghosts, verdict, reply, results, attempts>>

\* The check after the hooks, and the budget.
CheckBudget ==
  /\ pc = "hooked" /\ ~cancelled
  /\ IF CallBudget # 0 /\ spent >= CallBudget
     THEN Leave("budget") /\ final' = "budget"
     ELSE pc' = "llm" /\ UNCHANGED <<outcome, final>>
  /\ UNCHANGED <<history, routing, iteration, escalated, schemaLeft, verifyLeft,
                 rejected, round, stop, shared, disk, spent, runs, ghosts, locals>>

-----------------------------------------------------------------------------
(* A response and the verdict on it *)

LlmRaises ==
  /\ pc = "llm" /\ "llm" \in Faults
  /\ Leave("exception")
  /\ UNCHANGED <<history, routing, iteration, escalated, answer, round, stop,
                 shared, disk, spent, runs, ghosts, locals>>

\* _record_usage: the budget is charged before the response is looked at.
Respond(n) ==
  /\ pc = "llm"
  /\ spent' = IF CallBudget # 0 THEN spent + 1 ELSE spent
  /\ reply' = n
  /\ pc' = "answered"
  /\ UNCHANGED <<history, routing, iteration, escalated, answer, round, stop, shared, disk,
                 outcome, runs, ghosts, verdict, aside, results, attempts>>

\* The request is over, for the ghosts.
Counted ==
  /\ callsInRun' = callsInRun + 1
  /\ callsSincePause' = IF go THEN callsSincePause ELSE callsSincePause + 1

\* The response asks for tools.
BeginRound ==
  /\ pc = "answered" /\ reply > 0
  /\ Counted
  /\ calls' = CallIds(reply)
  /\ history' = Add(history, AssistantCalls(calls'))
  /\ recorded' = 0 /\ gates' = <<>> /\ anyError' = FALSE
  /\ turnsUnsaved' = turnsUnsaved + 1
  /\ pc' = IF Parallel /\ reply > 1 THEN "gate" ELSE "tools"
  /\ reply' = 0
  /\ UNCHANGED <<routing, iteration, escalated, answer, stop, shared, disk, spent, outcome, runs,
                 escalations, verdict, aside, results, attempts>>

\* A text: it is in the history before it is judged.
AddAnswer ==
  /\ pc = "answered" /\ reply = 0
  /\ aside' = history /\ history' = Add(history, AssistantText)
  /\ pc' = "judge"
  /\ UNCHANGED <<routing, iteration, escalated, answer, round, stop, shared, disk, spent, outcome,
                 runs, ghosts, verdict, reply, results, attempts>>

\* _check_structured asks for a correction.
FailsSchema ==
  /\ pc = "judge" /\ HasSchema /\ schemaLeft > 0
  /\ Counted
  /\ history' = Add(history, UserTurn(0)) /\ aside' = <<>>
  /\ final' = "unchecked" /\ schemaLeft' = schemaLeft - 1
  /\ iteration' = iteration + 1
  /\ turnsUnsaved' = turnsUnsaved + 1
  /\ pc' = "top"
  /\ UNCHANGED <<routing, escalated, verifyLeft, rejected, round, stop, shared, disk, spent,
                 outcome, runs, escalations, verdict, reply, results, attempts>>

\* It accepts, or gives up and keeps the text.
PassesSchema ==
  /\ pc = "judge"
  /\ pc' = IF HasVerifier THEN "verify" ELSE "saving"
  /\ UNCHANGED <<history, routing, iteration, escalated, answer, round, stop, shared, disk, spent,
                 outcome, runs, ghosts, locals>>

Escalates(triggeredByError) ==
  /\ ~escalated /\ mode = "FLASH"
  /\ (iteration = 0 /\ triggeredByError) \/ iteration + 1 >= Threshold

Escalate ==
  /\ mode' = "MAX" /\ sticky' = TRUE
  /\ cap' = IF Override = 0 THEN MaxCap ELSE cap

MaybeEscalate(triggeredByError) ==
  IF Escalates(triggeredByError)
  THEN /\ Escalate
       /\ escalated' = TRUE /\ escalations' = escalations + 1
  ELSE UNCHANGED <<routing, escalated, escalations>>

\* The verifier, awaited in a thread, rejects: for good, or with a round left.
RejectedForGood ==
  /\ pc = "verify" /\ verifyLeft = 0
  /\ Counted
  /\ final' = "rejected" /\ rejected' = TRUE /\ aside' = <<>>
  /\ turnsUnsaved' = turnsUnsaved + 1
  /\ Leave("unverified")
  /\ UNCHANGED <<history, routing, iteration, escalated, schemaLeft, verifyLeft, round, stop,
                 shared, disk, spent, runs, escalations, verdict, reply, results, attempts>>

Rejected ==
  /\ pc = "verify" /\ verifyLeft > 0
  /\ Counted
  /\ history' = Add(history, UserTurn(0)) /\ aside' = <<>>
  /\ final' = "rejected" /\ rejected' = TRUE /\ verifyLeft' = verifyLeft - 1
  /\ MaybeEscalate(TRUE)
  /\ iteration' = iteration + 1
  /\ turnsUnsaved' = turnsUnsaved + 1
  /\ pc' = "top"
  /\ UNCHANGED <<schemaLeft, round, stop, shared, disk, spent, outcome, runs, verdict, reply,
                 results, attempts>>

Verified ==
  /\ pc = "verify"
  /\ pc' = "saving"
  /\ UNCHANGED <<history, routing, iteration, escalated, answer, round, stop, shared, disk, spent,
                 outcome, runs, ghosts, locals>>

\* _persist_state: a thread saves, best effort.
Persist(newTurns) ==
  \/ disk' = history /\ turnsUnsaved' = 0
  \/ StoreFails /\ UNCHANGED disk /\ turnsUnsaved' = turnsUnsaved + newTurns

SaveAnswer ==
  /\ pc = "saving"
  /\ Counted
  /\ final' = IF HasVerifier THEN "accepted" ELSE "unchecked"
  /\ rejected' = FALSE /\ aside' = <<>>
  /\ Persist(1)
  /\ Leave("answer")
  /\ UNCHANGED <<history, routing, iteration, escalated, schemaLeft, verifyLeft, round, stop,
                 shared, spent, runs, escalations, verdict, reply, results, attempts>>

-----------------------------------------------------------------------------
(* A round of tool calls *)

MoreCalls == recorded < Len(calls)

\* _emit_tool_call_finished: the stuck detector may set _stop_reason.
Finished == stop' \in {stop, stop \/ HasStuckDetector}

\* add_tool_result for the next call of the round.
Record(isError) ==
  /\ history' = Add(history, ToolResult(calls[recorded + 1]))
  /\ recorded' = recorded + 1
  /\ anyError' = (anyError \/ isError)

\* _run_tool and _invoke_tool: a timeout and an exception are error results.
ToolResults == {"ok", "error", "transient"}

SkipCall ==
  /\ pc = "tools" /\ MoreCalls /\ cancelled
  /\ Record(TRUE)
  /\ UNCHANGED <<pc, routing, iteration, escalated, answer, calls, gates, stop,
                 shared, disk, spent, outcome, runs, ghosts, locals>>

StartCall ==
  /\ pc = "tools" /\ MoreCalls /\ ~cancelled
  /\ pc' = "gating"
  /\ UNCHANGED <<history, routing, iteration, escalated, answer, round, stop,
                 shared, disk, spent, outcome, runs, ghosts, locals>>

\* _prepare_call has an error result for the call.
EarlyResult ==
  /\ pc = "gating"
  /\ Record(TRUE) /\ Finished
  /\ pc' = "tools"
  /\ UNCHANGED <<routing, iteration, escalated, answer, calls, gates,
                 shared, disk, spent, outcome, runs, ghosts, locals>>

\* _execute_one runs the tool.
RunTool(result) ==
  /\ pc = "gating"
  /\ results' = [k \in DOMAIN calls |-> IF k = recorded + 1 THEN result ELSE "none"]
  /\ pc' = "exec"
  /\ UNCHANGED <<history, routing, iteration, escalated, answer, round, stop, shared, disk, spent,
                 outcome, runs, ghosts, verdict, reply, aside, attempts>>

\* The policy or the audit log raises out of the round.
GateRaises ==
  /\ pc \in {"tools", "gate"} /\ "gate" \in Faults /\ ~cancelled
  /\ IF pc = "tools" THEN MoreCalls ELSE Len(gates) < Len(calls)
  /\ Leave("exception")
  /\ UNCHANGED <<history, routing, iteration, escalated, answer, round, stop,
                 shared, disk, spent, runs, ghosts, locals>>

\* _retry_transient_tool: the condition of its loop.
MayRetry(result) == result = "transient" /\ attempts < MaxTransient /\ ~cancelled

\* One more attempt of the call at hand.
RetryTransientTool(result) ==
  /\ pc \in {"exec", "record"} /\ MoreCalls /\ MayRetry(results[recorded + 1])
  /\ results' = [results EXCEPT ![recorded + 1] = result]
  /\ attempts' = attempts + 1
  /\ UNCHANGED <<pc, history, routing, iteration, escalated, answer, round, stop, shared, disk,
                 spent, outcome, runs, ghosts, verdict, reply, aside>>

\* _finalize_call and the result of a sequential call.
FinalizeCall ==
  /\ pc = "exec" /\ ~MayRetry(results[recorded + 1])
  /\ Record(results[recorded + 1] # "ok") /\ Finished
  /\ results' = <<>> /\ attempts' = 0
  /\ pc' = "tools"
  /\ UNCHANGED <<routing, iteration, escalated, answer, calls, gates, shared, disk, spent, outcome,
                 runs, ghosts, verdict, reply, aside>>

\* _execute_tool_calls_parallel: the calls are gated in order, before any runs.
GateNext(v) ==
  /\ pc = "gate" /\ Len(gates) < Len(calls)
  /\ cancelled <=> v = "skip"
  /\ gates' = Append(gates, v)
  /\ pc' = IF v = "skip" THEN "gate" ELSE "gatewait"
  /\ UNCHANGED <<history, routing, iteration, escalated, answer, calls, recorded, anyError, stop,
                 shared, disk, spent, outcome, runs, ghosts, locals>>

GateDone ==
  /\ pc = "gatewait"
  /\ pc' = "gate"
  /\ UNCHANGED <<history, routing, iteration, escalated, answer, round, stop,
                 shared, disk, spent, outcome, runs, ghosts, locals>>

\* asyncio.gather starts the calls that passed.
Dispatch ==
  /\ pc = "gate" /\ Len(gates) = Len(calls)
  /\ results' = [k \in DOMAIN calls |-> IF gates[k] = "run" THEN "none" ELSE gates[k]]
  /\ aside' = history
  /\ pc' = "gather"
  /\ UNCHANGED <<history, routing, iteration, escalated, answer, round, stop, shared, disk, spent,
                 outcome, runs, ghosts, verdict, reply, attempts>>

\* One of them returns; they do so in any order.
ToolReturns(k, result) ==
  /\ pc = "gather" /\ k \in DOMAIN results /\ results[k] = "none"
  /\ results' = [results EXCEPT ![k] = result]
  /\ UNCHANGED <<pc, history, routing, iteration, escalated, answer, round, stop, shared, disk,
                 spent, outcome, runs, ghosts, verdict, reply, aside, attempts>>

Gathered ==
  /\ pc = "gather" /\ \A k \in DOMAIN results : results[k] # "none"
  /\ pc' = "record"
  /\ UNCHANGED <<history, routing, iteration, escalated, answer, round, stop, shared, disk, spent,
                 outcome, runs, ghosts, locals>>

\* Mutant: calls that were cancelled before the gate get no result.
DispatchAndRecord_ExecutedOnly ==
  /\ pc = "record" /\ MoreCalls
  /\ ~MayRetry(results[recorded + 1])
  /\ IF results[recorded + 1] = "skip"
     THEN recorded' = recorded + 1 /\ anyError' = TRUE /\ UNCHANGED <<history, stop>>
     ELSE Record(results[recorded + 1] # "ok") /\ Finished
  /\ IF recorded' = Len(calls)
     THEN pc' = "tools" /\ results' = <<>> /\ aside' = <<>>
     ELSE UNCHANGED <<pc, results, aside>>
  /\ attempts' = 0
  /\ UNCHANGED <<routing, iteration, escalated, answer, calls, gates, shared, disk, spent,
                 outcome, runs, ghosts, verdict, reply>>

\* _dispatch_and_record, after gather: the next result in call order.
DispatchAndRecord ==
  /\ pc = "record" /\ MoreCalls
  /\ ~MayRetry(results[recorded + 1])
  /\ Record(results[recorded + 1] # "ok")
  /\ IF results[recorded + 1] = "skip" THEN UNCHANGED stop ELSE Finished
  /\ IF recorded' = Len(calls)
     THEN pc' = "tools" /\ results' = <<>> /\ aside' = <<>>
     ELSE UNCHANGED <<pc, results, aside>>
  /\ attempts' = 0
  /\ UNCHANGED <<routing, iteration, escalated, answer, calls, gates, shared, disk, spent,
                 outcome, runs, ghosts, verdict, reply>>

\* The round is complete: save, and stop an unproductive loop.
EndRound ==
  /\ pc = "tools" /\ ~MoreCalls
  /\ Persist(0)
  /\ IF stop THEN Leave("stuck") ELSE pc' = "drain" /\ UNCHANGED outcome
  /\ calls' = <<>> /\ recorded' = 0 /\ gates' = <<>>
  /\ UNCHANGED <<history, routing, iteration, escalated, answer, anyError, stop, shared,
                 spent, runs, callsInRun, callsSincePause, escalations, locals>>

\* _drain_inbox
DrainInbox ==
  /\ pc = "drain"
  /\ IF inbox = <<>>
     THEN pc' = "wait" /\ UNCHANGED <<history, inbox>>
     ELSE /\ history' = Add(history, UserTurn(Head(inbox)))
          /\ inbox' = Tail(inbox)
          /\ UNCHANGED pc
  /\ UNCHANGED <<routing, iteration, escalated, answer, round, stop, cancelled, go, woken,
                 sends, disk, spent, outcome, runs, ghosts, locals>>

PassSecondPause ==
  /\ pc = "wait" /\ PauseGate
  /\ pc' = "after"
  /\ UNCHANGED <<history, routing, iteration, escalated, answer, round, stop,
                 disk, spent, outcome, runs, ghosts, locals>>

NextTurn ==
  /\ pc = "after" /\ ~cancelled
  /\ MaybeEscalate(anyError)
  /\ iteration' = iteration + 1
  /\ pc' = "top"
  /\ UNCHANGED <<history, answer, round, stop, shared, disk, spent, outcome,
                 runs, turnsUnsaved, callsInRun, callsSincePause, locals>>

-----------------------------------------------------------------------------
(* Other tasks and callbacks of the event loop, and a crash *)

Waiting == ~go /\ (pc = "wait" \/ (pc = "top" /\ iteration < cap))

\* set() of the pause event resolves the future a waiting loop is suspended on.
SetPauseEvent == go' = TRUE /\ woken' = (woken \/ Waiting) /\ callsSincePause' = 0

Cancel ==
  /\ "cancel" \in Controls
  /\ cancelled' = TRUE /\ SetPauseEvent
  /\ UNCHANGED <<pc, history, routing, iteration, escalated, answer, round, stop,
                 inbox, sends, disk, spent, outcome, runs, turnsUnsaved,
                 callsInRun, escalations, locals>>

Pause ==
  /\ "pause" \in Controls
  /\ go' = FALSE /\ callsSincePause' = IF go THEN 0 ELSE callsSincePause
  /\ UNCHANGED <<pc, history, routing, iteration, escalated, answer, round, stop,
                 cancelled, woken, inbox, sends, disk, spent, outcome, runs,
                 turnsUnsaved, callsInRun, escalations, locals>>

Resume ==
  /\ "pause" \in Controls
  /\ SetPauseEvent
  /\ UNCHANGED <<pc, history, routing, iteration, escalated, answer, round, stop,
                 cancelled, inbox, sends, disk, spent, outcome, runs,
                 turnsUnsaved, callsInRun, escalations, locals>>

SendMessageWhileRunning ==
  /\ "send" \in Controls /\ sends < MaxSends
  /\ inbox' = Append(inbox, Turn) /\ sends' = sends + 1
  /\ UNCHANGED <<pc, history, routing, iteration, escalated, answer, round, stop,
                 cancelled, go, woken, disk, spent, outcome, runs, ghosts, locals>>

\* The process dies at any await; a new AsyncAgent loads what was saved.
CrashAndRestart ==
  /\ "crash" \in Controls /\ pc # "idle"
  /\ pc' = "idle" /\ history' = disk
  /\ mode' = "MAX" /\ sticky' = FALSE /\ cap' = CapOf("MAX")
  /\ calls' = <<>> /\ recorded' = 0 /\ gates' = <<>> /\ anyError' = FALSE
  /\ cancelled' = FALSE /\ go' = TRUE /\ woken' = FALSE /\ inbox' = <<>> /\ stop' = FALSE
  /\ spent' = 0 /\ outcome' = "none"
  /\ turnsUnsaved' = 0 /\ callsSincePause' = 0
  /\ verdict' = "MAX" /\ reply' = 0 /\ aside' = <<>> /\ results' = <<>> /\ attempts' = 0
  /\ UNCHANGED <<iteration, escalated, answer, sends, disk, runs, callsInRun, escalations>>

-----------------------------------------------------------------------------
Start ==
  \E withMessage \in BOOLEAN :
    \/ \E said \in Answers : Begin(withMessage, Classify(said))
    \/ Begin(withMessage, "error")      \* another classifier that raises

Turns ==
  \/ ClassifyAndRoute \/ HitCap \/ PassPause \/ StartCompaction \/ Compacted \/ CheckBudget
  \/ \E at \in {"check", "hooked", "after"} : SeeCancel(at)
  \/ LlmRaises \/ \E n \in 0..MaxBatch : Respond(n)
  \/ AddAnswer \/ FailsSchema \/ PassesSchema \/ RejectedForGood \/ Rejected \/ Verified
  \/ SaveAnswer

Rounds ==
  \/ BeginRound \/ SkipCall \/ StartCall \/ EarlyResult \/ GateRaises
  \/ \E result \in ToolResults : RunTool(result) \/ RetryTransientTool(result)
  \/ FinalizeCall
  \/ \E v \in {"skip", "early", "run"} : GateNext(v)
  \/ GateDone \/ Dispatch \/ Gathered \/ DispatchAndRecord
  \/ \E k \in DOMAIN calls, result \in ToolResults : ToolReturns(k, result)
  \/ EndRound \/ DrainInbox \/ PassSecondPause \/ NextTurn

Others == Cancel \/ Pause \/ Resume \/ SendMessageWhileRunning \/ CrashAndRestart

Next == Start \/ Turns \/ Rounds \/ Others

Spec == Init /\ [][Next]_vars

-----------------------------------------------------------------------------
(***************************************************************************)
(* What the synchronous loop looks like while the asynchronous one is      *)
(* between two of its smaller steps.                                       *)
(***************************************************************************)
Judging == pc \in {"answered", "judge", "verify", "saving"}

ShownPc ==
  CASE pc = "routing" -> "top"
    [] pc = "compacting" -> "hooked"
    [] Judging -> "llm"
    [] pc = "gating" -> "exec"
    [] pc \in {"gatewait", "gather", "record"} -> "gate"
    [] OTHER -> pc

\* Compaction shows early; an answer and the results of a batch show late.
ShownHistory ==
  IF pc \in {"compacting", "judge", "verify", "saving", "gather", "record"} THEN aside ELSE history

ShownMode == IF pc = "routing" THEN Routed(verdict) ELSE mode

ShownSticky == sticky \/ (pc = "routing" /\ verdict = "MAX")

ShownCap == IF pc = "routing" THEN CapOf(ShownMode) ELSE cap

\* A request that was charged and is not over yet shows uncharged.
ShownSpent == IF Judging /\ CallBudget # 0 THEN spent - 1 ELSE spent

ShownRecorded == IF pc = "record" THEN 0 ELSE recorded

ShownAnyError == anyError /\ pc # "record"

ShownStop == stop /\ pc # "record"

Sync ==
  INSTANCE AgentLoop WITH
    pc <- ShownPc, history <- ShownHistory,
    mode <- ShownMode, sticky <- ShownSticky, cap <- ShownCap, spent <- ShownSpent,
    recorded <- ShownRecorded, anyError <- ShownAnyError, stop <- ShownStop

(***************************************************************************)
(* "The SAME feature set with the SAME semantics" (async_agent.py:3-12):   *)
(* every behaviour of AsyncAgent is a behaviour of Agent, so what holds of *)
(* Agent's history, store, routing, budget and outcome holds of its.  A    *)
(* cancel() between the gate of a call and its execution, a pause() while  *)
(* an answer is judged, a crash while results of a batch are recorded:     *)
(* each is one the synchronous loop could have met.                        *)
(***************************************************************************)
ImplementsSync == Sync!Spec
=============================================================================
