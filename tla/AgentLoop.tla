------------------------------ MODULE AgentLoop ------------------------------
(***************************************************************************)
(* Agent.run and its tool-calling loop (kinetic_sdk/agent/agent.py).       *)
(*                                                                         *)
(* Two threads share the agent: the run thread, whose program counter is   *)
(* pc, and a control thread that calls cancel(), pause(), resume() and     *)
(* send_message_while_running() at any moment.  The run thread reads the   *)
(* shared events at the points where the code does, and everything it does *)
(* between two such reads is one step.  The process may crash at any       *)
(* moment; what survives is what the state store saved.                    *)
(***************************************************************************)
EXTENDS Conversation

CONSTANTS
  FlashCap, MaxCap,    \* MODE_MAX_ITERATIONS
  Threshold,           \* FLASH_ESCALATION_THRESHOLD
  Override,            \* the max_iterations argument, 0 for None
  HasSchema,           \* run(output_schema=...) or verify
  SchemaRetries,       \* structured_retries
  HasVerifier,         \* an answer_verifier is configured
  VerifyRetries,       \* max_verification_retries
  CallBudget,          \* RunBudget.max_llm_calls, 0 for no budget
  SpentBefore,         \* bound: calls the RunBudget was charged before
  HasStuckDetector,
  Parallel,            \* parallel_tool_execution
  MaxBatch,            \* tool calls in one assistant turn
  CanCompact,          \* histories may cross the compaction threshold
  StoreFails,          \* state_store.save may raise
  Faults,              \* exceptions that may escape: subset of {"llm", "gate"}
  Controls,            \* control calls made: subset of ControlCalls
  MaxRuns, MaxSends    \* bounds: calls of run(), queued messages

ControlCalls == {"cancel", "pause", "send", "crash"}

ASSUME LoopAssumption ==
  /\ FlashCap \in Nat /\ MaxCap \in Nat /\ Threshold \in Nat
  /\ Threshold < FlashCap /\ FlashCap <= MaxCap
  /\ Override \in Nat /\ SchemaRetries \in Nat /\ VerifyRetries \in Nat
  /\ CallBudget \in Nat /\ SpentBefore \in Nat /\ MaxBatch \in Nat \ {0}
  /\ HasSchema \in BOOLEAN /\ HasVerifier \in BOOLEAN
  /\ HasStuckDetector \in BOOLEAN /\ Parallel \in BOOLEAN
  /\ CanCompact \in BOOLEAN /\ StoreFails \in BOOLEAN
  /\ Faults \subseteq {"llm", "gate"} /\ Controls \subseteq ControlCalls
  /\ MaxRuns \in Nat /\ MaxSends \in Nat

Modes == {"FLASH", "MAX"}

\* How a run ended: a checked answer, one of the early returns, or an exception.
Outcomes ==
  {"none", "answer", "cancelled", "budget", "stuck", "cap",
   "unverified", "exception"}

\* What is known of final_text.
Texts == {"none", "unchecked", "accepted", "rejected", "budget"}

VARIABLES
  pc,
  history,      \* state.messages
  mode, sticky, \* mode, _sticky_max
  cap,          \* max_iterations
  iteration,
  escalated,    \* the local flag of _run_loop
  schemaLeft, verifyLeft,  \* retries_left, verification_retries_left
  rejected,     \* rejected_answer is not None
  final,        \* final_text
  calls,        \* tool calls of the current round
  recorded,     \* how many of them have their result in the history
  gates,        \* parallel rounds: verdict of the gate for each call so far
  anyError,
  stop,         \* _stop_reason is not None
  cancelled,    \* _cancel_event
  go,           \* _pause_event: TRUE when the loop may continue
  woken,        \* a set() of that event released the wait the loop is in
  inbox,        \* _inbox, each message as the turn it was sent in
  disk,         \* what the state store holds, <<>> when it was never saved
  spent,        \* RunBudget._used_calls
  outcome,
  runs, sends,            \* counters of the bounds
  turnsUnsaved,           \* history variable: assistant turns not on disk
  callsInRun,             \* history variable: LLM requests of this run
  callsSincePause,        \* history variable: LLM requests since pause()
  escalations             \* history variable: agent.escalated events of this run

routing == <<mode, sticky, cap>>
answer  == <<schemaLeft, verifyLeft, rejected, final>>
round   == <<calls, recorded, gates, anyError>>
shared  == <<cancelled, go, woken, inbox, sends>>
ghosts  == <<turnsUnsaved, callsInRun, callsSincePause, escalations>>

vars == <<pc, history, routing, iteration, escalated, answer, round, stop,
          shared, disk, spent, outcome, runs, ghosts>>

Max2(a, b) == IF a >= b THEN a ELSE b

\* A number for the turn in progress, unique over the whole behaviour.
TurnsPerRun == Max2(Max2(MaxCap, FlashCap), Override) + 1
Turn == runs * TurnsPerRun + iteration

CallIds(n) == [k \in 1..n |-> Turn * MaxBatch + k]

CapOf(m) ==
  IF Override # 0 THEN Override ELSE IF m = "FLASH" THEN FlashCap ELSE MaxCap

\* The RunBudget is the caller's object; another agent may have used it before.
Init ==
  /\ pc = "idle" /\ history = <<>> /\ disk = <<>>
  /\ mode = "MAX" /\ sticky = FALSE /\ cap = CapOf("MAX")
  /\ iteration = 0 /\ escalated = FALSE
  /\ schemaLeft = SchemaRetries /\ verifyLeft = VerifyRetries
  /\ rejected = FALSE /\ final = "none"
  /\ calls = <<>> /\ recorded = 0 /\ gates = <<>> /\ anyError = FALSE
  /\ stop = FALSE /\ cancelled = FALSE /\ go = TRUE /\ woken = FALSE
  /\ inbox = <<>> /\ sends = 0
  /\ spent \in {n \in 0..SpentBefore : n <= CallBudget}
  /\ outcome = "none" /\ runs = 0
  /\ turnsUnsaved = 0 /\ callsInRun = 0 /\ callsSincePause = 0
  /\ escalations = 0

-----------------------------------------------------------------------------
(***************************************************************************)
(* The start and the end of a run.                                         *)
(***************************************************************************)

\* Mutant: a FLASH verdict is applied whatever the conversation ran at before.
ClassifyAndRoute_Forgetful(verdict) ==
  /\ mode' = IF verdict = "FLASH" THEN "FLASH" ELSE "MAX"
  /\ sticky' = (sticky \/ verdict = "MAX")
  /\ cap' = CapOf(mode')

\* _classify_and_route.  An exception of the classifier routes to MAX
\* without making MAX sticky.
ClassifyAndRoute(verdict) ==
  /\ mode' = IF verdict = "FLASH" /\ ~sticky THEN "FLASH" ELSE "MAX"
  /\ sticky' = (sticky \/ verdict = "MAX")
  /\ cap' = CapOf(mode')

\* run(), up to the loop.  Without a message and without a schema no user
\* turn is appended.
StartRun(withMessage, verdict) ==
  /\ pc = "idle" /\ runs < MaxRuns
  /\ withMessage \/ history # <<>>
  /\ history' = IF withMessage \/ HasSchema
                THEN Add(history, UserTurn(0)) ELSE history
  /\ cancelled' = FALSE /\ stop' = FALSE
  /\ ClassifyAndRoute(verdict)
  /\ iteration' = 0 /\ escalated' = FALSE
  /\ schemaLeft' = SchemaRetries /\ verifyLeft' = VerifyRetries
  /\ rejected' = FALSE /\ final' = "none"
  /\ outcome' = "none" /\ runs' = runs + 1
  /\ callsInRun' = 0 /\ escalations' = 0
  /\ pc' = "top"
  /\ UNCHANGED <<round, go, woken, inbox, sends, disk, spent, turnsUnsaved, callsSincePause>>

\* The loop is left: by a return, or by an exception that run() re-raises.
Leave(how) == pc' = "idle" /\ outcome' = how

-----------------------------------------------------------------------------
(***************************************************************************)
(* The head of the loop, up to the LLM request.                            *)
(***************************************************************************)

\* Mutant: the else branch forgets the rejected answer.
HitCap_ForgetsRejection ==
  /\ pc = "top" /\ iteration >= cap
  /\ Leave("cap")
  /\ UNCHANGED <<history, routing, iteration, escalated, answer, round, stop,
                 shared, disk, spent, runs, ghosts>>

\* The while condition fails: the else branch of the loop.
HitCap ==
  /\ pc = "top" /\ iteration >= cap
  /\ Leave(IF rejected THEN "unverified" ELSE "cap")
  /\ UNCHANGED <<history, routing, iteration, escalated, answer, round, stop,
                 shared, disk, spent, runs, ghosts>>

\* Mutant: the gate at the head of the loop is missing.
PauseGate_NoWait == UNCHANGED <<cancelled, go, woken, inbox, sends>>

\* _pause_event.wait() returns: the event is set, or was while the loop waited,
\* even if pause() has cleared it again.
PauseGate == (go \/ woken) /\ woken' = FALSE /\ UNCHANGED <<cancelled, go, inbox, sends>>

PassPause ==
  /\ pc = "top" /\ iteration < cap /\ PauseGate
  /\ pc' = "check"
  /\ UNCHANGED <<history, routing, iteration, escalated, answer, round, stop,
                 disk, spent, outcome, runs, ghosts>>

SeeCancel(at) ==
  /\ pc = at /\ cancelled
  /\ Leave("cancelled")
  /\ UNCHANGED <<history, routing, iteration, escalated, answer, round, stop,
                 shared, disk, spent, runs, ghosts>>

\* No cancellation: the context may be compacted, then the hooks run.
Prepare ==
  /\ pc = "check" /\ ~cancelled
  /\ \/ history' = history
     \/ CanCompact /\ history' \in Compactions(history)
  /\ pc' = "hooked"
  /\ UNCHANGED <<routing, iteration, escalated, answer, round, stop,
                 shared, disk, spent, outcome, runs, ghosts>>

\* Mutant: one request more than the budget allows.
CheckBudget_OffByOne ==
  /\ pc = "hooked" /\ ~cancelled
  /\ IF CallBudget # 0 /\ spent > CallBudget
     THEN Leave("budget") /\ final' = "budget"
     ELSE pc' = "llm" /\ UNCHANGED <<outcome, final>>
  /\ UNCHANGED <<history, routing, iteration, escalated, schemaLeft, verifyLeft,
                 rejected, round, stop, shared, disk, spent, runs, ghosts>>

\* The second cancellation check passes; the budget is checked.
CheckBudget ==
  /\ pc = "hooked" /\ ~cancelled
  /\ IF CallBudget # 0 /\ spent >= CallBudget
     THEN Leave("budget") /\ final' = "budget"
     ELSE pc' = "llm" /\ UNCHANGED <<outcome, final>>
  /\ UNCHANGED <<history, routing, iteration, escalated, schemaLeft, verifyLeft,
                 rejected, round, stop, shared, disk, spent, runs, ghosts>>

-----------------------------------------------------------------------------
(***************************************************************************)
(* The LLM request and what the loop does with a response.                 *)
(***************************************************************************)

\* A response arrived: the budget is charged (_record_usage).
Charge ==
  /\ spent' = IF CallBudget # 0 THEN spent + 1 ELSE spent
  /\ callsInRun' = callsInRun + 1
  /\ callsSincePause' = IF go THEN callsSincePause ELSE callsSincePause + 1

LlmRaises ==
  /\ pc = "llm" /\ "llm" \in Faults
  /\ Leave("exception")
  /\ UNCHANGED <<history, routing, iteration, escalated, answer, round, stop,
                 shared, disk, spent, runs, ghosts>>

\* escalate(), when _maybe_escalate decides for it.
MaybeEscalate(triggeredByError) ==
  IF /\ ~escalated /\ mode = "FLASH"
     /\ (iteration = 0 /\ triggeredByError) \/ iteration + 1 >= Threshold
  THEN /\ mode' = "MAX" /\ sticky' = TRUE
       /\ cap' = IF Override = 0 THEN MaxCap ELSE cap
       /\ escalated' = TRUE /\ escalations' = escalations + 1
  ELSE UNCHANGED <<routing, escalated, escalations>>

\* _persist_state: best effort.  newTurns are not counted in turnsUnsaved yet.
Persist(messages, newTurns) ==
  \/ disk' = messages /\ turnsUnsaved' = 0
  \/ StoreFails /\ UNCHANGED disk /\ turnsUnsaved' = turnsUnsaved + newTurns

\* A text answer that fails the schema while correction rounds are left.
AnswerFailsSchema ==
  /\ pc = "llm" /\ HasSchema /\ schemaLeft > 0
  /\ Charge
  /\ history' = Add(Add(history, AssistantText), UserTurn(0))
  /\ final' = "unchecked"
  /\ schemaLeft' = schemaLeft - 1
  /\ iteration' = iteration + 1
  /\ turnsUnsaved' = turnsUnsaved + 1
  /\ pc' = "top"
  /\ UNCHANGED <<routing, escalated, verifyLeft, rejected, round, stop, shared,
                 disk, outcome, runs, escalations>>

\* The verifier rejects and no correction round is left.
AnswerRejectedForGood ==
  /\ pc = "llm" /\ HasVerifier /\ verifyLeft = 0
  /\ Charge
  /\ history' = Add(history, AssistantText)
  /\ final' = "rejected" /\ rejected' = TRUE
  /\ turnsUnsaved' = turnsUnsaved + 1
  /\ Leave("unverified")
  /\ UNCHANGED <<routing, iteration, escalated, schemaLeft, verifyLeft, round,
                 stop, shared, disk, runs, escalations>>

\* The verifier rejects; the model gets a correction round.
AnswerRejected ==
  /\ pc = "llm" /\ HasVerifier /\ verifyLeft > 0
  /\ Charge
  /\ history' = Add(Add(history, AssistantText), UserTurn(0))
  /\ final' = "rejected" /\ rejected' = TRUE
  /\ verifyLeft' = verifyLeft - 1
  /\ MaybeEscalate(TRUE)
  /\ iteration' = iteration + 1
  /\ turnsUnsaved' = turnsUnsaved + 1
  /\ pc' = "top"
  /\ UNCHANGED <<schemaLeft, round, stop, shared, disk, outcome, runs>>

\* The answer stands: it is saved and returned.
AnswerAccepted ==
  /\ pc = "llm"
  /\ Charge
  /\ history' = Add(history, AssistantText)
  /\ final' = IF HasVerifier THEN "accepted" ELSE "unchecked"
  /\ rejected' = FALSE
  /\ Persist(history', 1)
  /\ Leave("answer")
  /\ UNCHANGED <<routing, iteration, escalated, schemaLeft, verifyLeft, round,
                 stop, shared, runs, escalations>>

\* The response asks for tools.
BeginRound(n) ==
  /\ pc = "llm"
  /\ Charge
  /\ calls' = CallIds(n)
  /\ history' = Add(history, AssistantCalls(calls'))
  /\ recorded' = 0 /\ gates' = <<>> /\ anyError' = FALSE
  /\ turnsUnsaved' = turnsUnsaved + 1
  /\ pc' = IF Parallel /\ n > 1 THEN "gate" ELSE "tools"
  /\ UNCHANGED <<routing, iteration, escalated, answer, stop, shared, disk,
                 outcome, runs, escalations>>

-----------------------------------------------------------------------------
(***************************************************************************)
(* A round of tool calls.  The sequential path gates, executes and records *)
(* one call after the other; the parallel path gates them all, then runs   *)
(* the ones that passed and records every result in the order of the       *)
(* calls.  "Early" stands for every error result of _prepare_call: hook    *)
(* veto, denial, missing confirmation, unknown tool, open circuit, invalid *)
(* input.  A confirmation that becomes a checkpoint is in Confirmation.    *)
(***************************************************************************)
MoreCalls == recorded < Len(calls)

\* _emit_tool_call_finished: the stuck detector may set _stop_reason.
Finished == stop' \in {stop, stop \/ HasStuckDetector}

Record(isError) ==
  /\ history' = Add(history, ToolResult(calls[recorded + 1]))
  /\ recorded' = recorded + 1
  /\ anyError' = (anyError \/ isError)

\* Mutant: a cancelled round drops its calls without a result.
SkipCall_NoResult ==
  /\ pc = "tools" /\ MoreCalls /\ cancelled
  /\ recorded' = recorded + 1
  /\ UNCHANGED <<pc, history, anyError, routing, iteration, escalated, answer,
                 calls, gates, stop, shared, disk, spent, outcome, runs, ghosts>>

SkipCall ==
  /\ pc = "tools" /\ MoreCalls /\ cancelled
  /\ Record(TRUE)
  /\ UNCHANGED <<pc, routing, iteration, escalated, answer, calls, gates, stop,
                 shared, disk, spent, outcome, runs, ghosts>>

EarlyResult ==
  /\ pc = "tools" /\ MoreCalls /\ ~cancelled
  /\ Record(TRUE) /\ Finished
  /\ UNCHANGED <<pc, routing, iteration, escalated, answer, calls, gates,
                 shared, disk, spent, outcome, runs, ghosts>>

PassGate ==
  /\ pc = "tools" /\ MoreCalls /\ ~cancelled
  /\ pc' = "exec"
  /\ UNCHANGED <<history, routing, iteration, escalated, answer, round, stop,
                 shared, disk, spent, outcome, runs, ghosts>>

Execute(isError) ==
  /\ pc = "exec"
  /\ Record(isError) /\ Finished
  /\ pc' = "tools"
  /\ UNCHANGED <<routing, iteration, escalated, answer, calls, gates,
                 shared, disk, spent, outcome, runs, ghosts>>

\* The policy, the audit log or a checkpoint save raises out of the round.
GateRaises ==
  /\ pc \in {"tools", "gate"} /\ "gate" \in Faults /\ ~cancelled
  /\ IF pc = "tools" THEN MoreCalls ELSE Len(gates) < Len(calls)
  /\ Leave("exception")
  /\ UNCHANGED <<history, routing, iteration, escalated, answer, round, stop,
                 shared, disk, spent, runs, ghosts>>

GateNext(verdict) ==
  /\ pc = "gate" /\ Len(gates) < Len(calls)
  /\ cancelled <=> verdict = "skip"
  /\ gates' = Append(gates, verdict)
  /\ UNCHANGED <<pc, history, routing, iteration, escalated, answer, calls,
                 recorded, anyError, stop, shared, disk, spent, outcome, runs,
                 ghosts>>

\* Mutant: only the calls that executed are recorded.
DispatchAndRecord_ExecutedOnly(failed) ==
  /\ pc = "gate" /\ Len(gates) = Len(calls)
  /\ failed \subseteq {k \in DOMAIN gates : gates[k] = "run"}
  /\ LET executed == SelectSeq([k \in DOMAIN calls |-> <<gates[k], calls[k]>>],
                               LAMBDA c : c[1] = "run")
     IN  history' = EnforceCap(history \o [k \in DOMAIN executed |-> ToolResult(executed[k][2])])
  /\ recorded' = Len(calls)
  /\ anyError' = (failed # {} \/ \E k \in DOMAIN gates : gates[k] # "run")
  /\ IF \E k \in DOMAIN gates : gates[k] # "skip" THEN Finished ELSE UNCHANGED stop
  /\ pc' = "tools"
  /\ UNCHANGED <<routing, iteration, escalated, answer, calls, gates,
                 shared, disk, spent, outcome, runs, ghosts>>

\* _dispatch_and_record: failed is the set of executed calls with an error.
DispatchAndRecord(failed) ==
  /\ pc = "gate" /\ Len(gates) = Len(calls)
  /\ failed \subseteq {k \in DOMAIN gates : gates[k] = "run"}
  /\ history' = EnforceCap(history \o [k \in DOMAIN calls |-> ToolResult(calls[k])])
  /\ recorded' = Len(calls)
  /\ anyError' = (failed # {} \/ \E k \in DOMAIN gates : gates[k] # "run")
  /\ IF \E k \in DOMAIN gates : gates[k] # "skip" THEN Finished ELSE UNCHANGED stop
  /\ pc' = "tools"
  /\ UNCHANGED <<routing, iteration, escalated, answer, calls, gates,
                 shared, disk, spent, outcome, runs, ghosts>>

\* Mutant: only final answers are saved.
SaveRound_Never == UNCHANGED <<disk, turnsUnsaved>>

SaveRound == Persist(history, 0)

\* The round is complete: save, and stop an unproductive loop.
EndRound ==
  /\ pc = "tools" /\ ~MoreCalls
  /\ SaveRound
  /\ IF stop THEN Leave("stuck") ELSE pc' = "drain" /\ UNCHANGED outcome
  /\ calls' = <<>> /\ recorded' = 0 /\ gates' = <<>>
  /\ UNCHANGED <<history, routing, iteration, escalated, answer, anyError, stop, shared,
                 spent, runs, callsInRun, callsSincePause, escalations>>

\* _drain_inbox: one queued message becomes a user turn.
DrainInbox ==
  /\ pc = "drain" /\ inbox # <<>>
  /\ history' = Add(history, UserTurn(Head(inbox)))
  /\ inbox' = Tail(inbox)
  /\ UNCHANGED <<pc, routing, iteration, escalated, answer, round, stop, cancelled, go, woken,
                 sends, disk, spent, outcome, runs, ghosts>>

InboxEmpty ==
  /\ pc = "drain" /\ inbox = <<>>
  /\ pc' = "wait"
  /\ UNCHANGED <<history, routing, iteration, escalated, answer, round, stop,
                 shared, disk, spent, outcome, runs, ghosts>>

\* Mutant: the polarity of the pause event is confused.
PassSecondPause_Inverted ==
  /\ pc = "wait" /\ ~go
  /\ pc' = "after"
  /\ UNCHANGED <<history, routing, iteration, escalated, answer, round, stop,
                 shared, disk, spent, outcome, runs, ghosts>>

PassSecondPause ==
  /\ pc = "wait" /\ PauseGate
  /\ pc' = "after"
  /\ UNCHANGED <<history, routing, iteration, escalated, answer, round, stop,
                 disk, spent, outcome, runs, ghosts>>

NextTurn ==
  /\ pc = "after" /\ ~cancelled
  /\ MaybeEscalate(anyError)
  /\ iteration' = iteration + 1
  /\ pc' = "top"
  /\ UNCHANGED <<history, answer, round, stop, shared, disk, spent, outcome,
                 runs, turnsUnsaved, callsInRun, callsSincePause>>

-----------------------------------------------------------------------------
(***************************************************************************)
(* The control thread, and a crash followed by a restart from the store.   *)
(***************************************************************************)
Waiting == ~go /\ (pc = "wait" \/ (pc = "top" /\ iteration < cap))

\* set() of the pause event: a waiting loop is released for good, one that has
\* not reached the wait yet is not.
SetPauseEvent == go' = TRUE /\ woken' \in {woken, woken \/ Waiting} /\ callsSincePause' = 0

Cancel ==
  /\ "cancel" \in Controls
  /\ cancelled' = TRUE /\ SetPauseEvent
  /\ UNCHANGED <<pc, history, routing, iteration, escalated, answer, round, stop,
                 inbox, sends, disk, spent, outcome, runs, turnsUnsaved,
                 callsInRun, escalations>>

Pause ==
  /\ "pause" \in Controls
  /\ go' = FALSE /\ callsSincePause' = IF go THEN 0 ELSE callsSincePause
  /\ UNCHANGED <<pc, history, routing, iteration, escalated, answer, round, stop,
                 cancelled, woken, inbox, sends, disk, spent, outcome, runs,
                 turnsUnsaved, callsInRun, escalations>>

Resume ==
  /\ "pause" \in Controls
  /\ SetPauseEvent
  /\ UNCHANGED <<pc, history, routing, iteration, escalated, answer, round, stop,
                 cancelled, inbox, sends, disk, spent, outcome, runs,
                 turnsUnsaved, callsInRun, escalations>>

SendMessageWhileRunning ==
  /\ "send" \in Controls /\ sends < MaxSends
  /\ inbox' = Append(inbox, Turn) /\ sends' = sends + 1
  /\ UNCHANGED <<pc, history, routing, iteration, escalated, answer, round, stop,
                 cancelled, go, woken, disk, spent, outcome, runs, ghosts>>

\* A new Agent is built on the same store: __init__ loads what was saved.
CrashAndRestart ==
  /\ "crash" \in Controls /\ pc # "idle"
  /\ pc' = "idle" /\ history' = disk
  /\ mode' = "MAX" /\ sticky' = FALSE /\ cap' = CapOf("MAX")
  /\ calls' = <<>> /\ recorded' = 0 /\ gates' = <<>> /\ anyError' = FALSE
  /\ cancelled' = FALSE /\ go' = TRUE /\ woken' = FALSE /\ inbox' = <<>> /\ stop' = FALSE
  /\ spent' = 0 /\ outcome' = "none"
  /\ turnsUnsaved' = 0 /\ callsSincePause' = 0
  /\ UNCHANGED <<iteration, escalated, answer, sends, disk, runs, callsInRun, escalations>>

-----------------------------------------------------------------------------
RunThread ==
  \/ HitCap \/ PassPause \/ Prepare \/ CheckBudget \/ LlmRaises
  \/ \E at \in {"check", "hooked", "after"} : SeeCancel(at)
  \/ AnswerFailsSchema \/ AnswerRejectedForGood \/ AnswerRejected \/ AnswerAccepted
  \/ \E n \in 1..MaxBatch : BeginRound(n)
  \/ SkipCall \/ EarlyResult \/ PassGate \/ GateRaises
  \/ \E isError \in BOOLEAN : Execute(isError)
  \/ \E verdict \in {"skip", "early", "run"} : GateNext(verdict)
  \/ \E failed \in SUBSET DOMAIN calls : DispatchAndRecord(failed)
  \/ EndRound \/ DrainInbox \/ InboxEmpty \/ PassSecondPause \/ NextTurn

Start ==
  \E withMessage \in BOOLEAN, verdict \in {"FLASH", "MAX", "error"} :
    StartRun(withMessage, verdict)

ControlThread == Cancel \/ Pause \/ Resume \/ SendMessageWhileRunning

Next == Start \/ RunThread \/ ControlThread \/ CrashAndRestart

Spec == Init /\ [][Next]_vars

\* The run thread is scheduled, and a model or a tool call it waits for returns.
FairSpec == Spec /\ WF_vars(RunThread)

-----------------------------------------------------------------------------
TypeOK ==
  /\ pc \in {"idle", "top", "check", "hooked", "llm", "tools", "exec", "gate",
             "drain", "wait", "after"}
  /\ history \in Seq(Message) /\ disk \in Seq(Message)
  /\ mode \in Modes /\ sticky \in BOOLEAN /\ cap \in Nat
  /\ iteration \in Nat /\ escalated \in BOOLEAN
  /\ schemaLeft \in 0..SchemaRetries /\ verifyLeft \in 0..VerifyRetries
  /\ rejected \in BOOLEAN /\ final \in Texts
  /\ calls \in Seq(Nat) /\ recorded \in 0..Len(calls)
  /\ gates \in Seq({"skip", "early", "run"}) /\ Len(gates) <= Len(calls)
  /\ anyError \in BOOLEAN /\ stop \in BOOLEAN
  /\ cancelled \in BOOLEAN /\ go \in BOOLEAN /\ woken \in BOOLEAN
  /\ inbox \in Seq(Nat) /\ sends \in 0..MaxSends
  /\ spent \in Nat /\ outcome \in Outcomes /\ runs \in 0..MaxRuns
  /\ turnsUnsaved \in Nat /\ callsInRun \in Nat /\ callsSincePause \in Nat
  /\ escalations \in Nat

(***************************************************************************)
(* Every request sees a history in which each tool_use has its result, and *)
(* so does whoever resumes from the store: across cancellation in the      *)
(* middle of a round, parallel rounds, correction turns, injected          *)
(* messages, compaction, and a crash between any two steps                 *)
(* (agent.py:1147, "every tool_use in the history must have its result or  *)
(* providers reject the whole conversation on the next call").  An         *)
(* exception that leaves a round half recorded is followed by no other     *)
(* run: see GateRaises.                                                    *)
(***************************************************************************)
HistoryReplayValid ==
  /\ pc = "llm" => ReplayValid(history)
  /\ ReplayValid(disk)

(***************************************************************************)
(* A run that returns normally, with an answer or at the iteration cap,    *)
(* never hands out an answer the verifier rejected, and an answer it ends  *)
(* on is a verified one (agent.py:740, 789).                               *)
(***************************************************************************)
RejectedAnswerHeld ==
  /\ outcome = "answer" /\ HasVerifier => final = "accepted"
  /\ outcome = "cap" => final # "rejected"

(***************************************************************************)
(* A run that is classified MAX, or that goes from FLASH to MAX on its way *)
(* (once at most), is never followed by a FLASH run of the same Agent, in  *)
(* whatever way it ended: no step but a restart forgets it (agent.py:341,  *)
(* 567-571, 598), and the cap stays the one of the mode unless the caller  *)
(* pinned it.  A new Agent on the same store has forgotten.                *)
(***************************************************************************)
MaxIsSticky ==
  [][/\ (\E withMessage \in BOOLEAN : StartRun(withMessage, "MAX")) => sticky'
     /\ pc # "idle" /\ mode # mode' /\ ~CrashAndRestart =>
          mode' = "MAX" /\ sticky' /\ escalations = 0 /\ escalations' = 1
     /\ sticky /\ ~CrashAndRestart => sticky' /\ mode' = "MAX"
     /\ cap' = CapOf(mode')]_vars

(***************************************************************************)
(* No run makes more requests than the cap in force when it ends, however  *)
(* its turns were spent, and never one beyond its budget (agent.py:682,    *)
(* 705).                                                                   *)
(***************************************************************************)
RequestsBounded ==
  /\ pc # "idle" => callsInRun <= cap /\ callsInRun >= iteration
  /\ CallBudget # 0 => spent <= CallBudget

(***************************************************************************)
(* "A crash mid-run loses at most the in-flight turn" (agent.py:247): at   *)
(* no moment is more than one assistant turn missing from the store.  It   *)
(* is a property of runs without correction turns, which are not saved     *)
(* (agent.py:738, 758), and of a store whose writes succeed.               *)
(***************************************************************************)
CrashLosesOneTurn == turnsUnsaved <= 1

(***************************************************************************)
(* After pause() at most the request already under way is made; no other   *)
(* follows until resume() or cancel() (agent.py:640).                      *)
(***************************************************************************)
PauseTakesEffect == callsSincePause <= 1

(***************************************************************************)
(* Every run ends, whatever the model answers and whatever it is told to   *)
(* do: the loop runs out of turns even across an escalation that raises    *)
(* the cap (agent.py:682), and a cancelled run stops, unless it is (again) *)
(* paused.                                                                 *)
(***************************************************************************)
RunEnds == (pc # "idle") ~> (pc = "idle" \/ ~go)
=============================================================================
