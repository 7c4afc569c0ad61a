--------------------------- MODULE AgentLoopProofs ---------------------------
(***************************************************************************)
(* Theorems about the agent loop for all caps, thresholds, retry limits,   *)
(* budgets, batch sizes and histories, and about AgentServer, which runs   *)
(* agents for its clients: its slots and its session agents, for any       *)
(* number of requests of any kind, any number of slots and any session     *)
(* time-out and rate limit.                                                *)
(***************************************************************************)
EXTENDS AgentLoop, Server, ConversationProofs

\* A call that passed its gate is still to be recorded.
ExecutingACall == pc = "exec" => recorded < Len(calls)

\* The sticky flag, the mode and the cap fit together.
RoutingConsistent ==
  /\ sticky => mode = "MAX"
  /\ cap = CapOf(mode)
  /\ escalations <= 1 /\ (escalations = 1 => mode = "MAX")

\* The escalated flag of _run_loop, its event and the mode tell the same story.
EscalationRecorded ==
  /\ escalations = IF escalated THEN 1 ELSE 0
  /\ escalated => mode = "MAX"

\* Where the loop is tells how many requests the run has made.
RequestsCounted ==
  /\ pc \in {"top", "check", "hooked", "llm"} => callsInRun = iteration
  /\ pc \in {"tools", "exec", "gate", "drain", "wait", "after"} => callsInRun = iteration + 1
  /\ pc # "idle" => callsInRun <= cap
  /\ pc \in {"check", "hooked", "llm"} => callsInRun < cap
  /\ CallBudget # 0 => spent <= CallBudget /\ (pc = "llm" => spent < CallBudget)

\* A run that goes on has no outcome, and remembers that it was rejected.
RejectionRemembered ==
  pc # "idle" => outcome = "none" /\ (final = "rejected" => rejected)

\* No request is under way, and none was made, while the pause gate is open; a
\* loop that was released is still at its gate and has made none either.
PauseCounted ==
  /\ callsSincePause <= 1
  /\ go \/ pc \in {"check", "hooked", "llm"} => callsSincePause = 0
  /\ woken => callsSincePause = 0 /\ (pc = "wait" \/ (pc = "top" /\ iteration < cap))

IInv ==
  /\ TypeOK /\ ExecutingACall
  /\ RoutingConsistent /\ EscalationRecorded
  /\ RequestsCounted
  /\ RejectedAnswerHeld /\ RejectionRemembered
  /\ PauseCounted

\* A run was started.
Started == pc # "idle" => runs >= 1

\* The turns whose tool_use ids may be in use: those before the one in progress,
\* with it once it is in the history, and those of the whole run once it is over.
TurnsUsed ==
  IF pc = "idle" THEN runs * TurnsPerRun + TurnsPerRun
  ELSE IF pc \in {"top", "check", "hooked", "llm"} THEN Turn ELSE Turn + 1

\* No id is used twice, in memory and on disk.
CallsDistinct ==
  /\ DistinctCalls(history, TurnsUsed * MaxBatch)
  /\ DistinctCalls(disk, TurnsUsed * MaxBatch)

\* Between rounds every call has its result, and within a round every call that
\* was recorded; an exception that leaves a round is the last run's.
HistoryPaired ==
  /\ ReplayValid(disk)
  /\ pc \in {"top", "check", "hooked", "llm", "drain", "wait", "after"} => ReplayValid(history)
  /\ pc = "idle" /\ runs < MaxRuns => ReplayValid(history)
  /\ pc \in {"tools", "exec", "gate"} => RoundOpen(history, calls, recorded)
  /\ pc = "gate" => recorded = 0

\* Only the turn of the round in progress is not on disk.
UnsavedCounted ==
  /\ turnsUnsaved <= 1
  /\ pc \in {"top", "check", "hooked", "llm", "drain", "wait", "after"} => turnsUnsaved = 0
  /\ pc = "idle" /\ runs < MaxRuns => turnsUnsaved = 0

-----------------------------------------------------------------------------
LEMMA InitIInv == Init => IInv
<1> SUFFICES ASSUME Init PROVE IInv
  OBVIOUS
<1>1. TypeOK
  <2>1. CapOf("MAX") \in Nat
    BY LoopAssumption DEF CapOf
  <2>2. /\ history \in Seq(Message) /\ disk \in Seq(Message) /\ calls \in Seq(Nat)
        /\ gates \in Seq({"skip", "early", "run"}) /\ inbox \in Seq(Nat)
        /\ Len(calls) = 0 /\ Len(gates) = 0
    BY DEF Init
  <2>3. /\ schemaLeft \in 0..SchemaRetries /\ verifyLeft \in 0..VerifyRetries
        /\ sends \in 0..MaxSends /\ runs \in 0..MaxRuns
    BY LoopAssumption DEF Init
  <2>4. recorded \in 0..Len(calls) /\ Len(gates) <= Len(calls)
    BY <2>2 DEF Init
  <2>5. cap \in Nat /\ mode \in Modes /\ final \in Texts /\ outcome \in Outcomes
    BY <2>1 DEF Init, Modes, Texts, Outcomes
  <2>6. spent \in Nat
    BY LoopAssumption DEF Init
  <2>7. QED
    BY <2>2, <2>3, <2>4, <2>5, <2>6, Zenon DEF Init, TypeOK
<1>2. QED
  BY <1>1, LoopAssumption
     DEF Init, IInv, ExecutingACall, RoutingConsistent, EscalationRecorded, RequestsCounted,
         RejectedAnswerHeld, RejectionRemembered, PauseCounted

LEMMA CapOfType == \A m \in Modes : CapOf(m) \in Nat
BY LoopAssumption DEF CapOf

LEMMA TurnType == ASSUME TypeOK PROVE Turn \in Nat /\ \A n \in 1..MaxBatch : CallIds(n) \in Seq(Nat)
<1>1. TurnsPerRun \in Nat
  BY LoopAssumption DEF TurnsPerRun, Max2
<1>2. Turn \in Nat
  <2>1. runs \in Nat /\ iteration \in Nat
    BY DEF TypeOK
  <2>2. QED
    BY <1>1, <2>1 DEF Turn
<1>3. ASSUME NEW n \in 1..MaxBatch PROVE CallIds(n) \in Seq(Nat)
  <2>1. n \in Nat /\ \A k \in 1..n : Turn * MaxBatch + k \in Nat
    BY <1>2, LoopAssumption
  <2>2. QED
    BY <2>1 DEF CallIds
<1>4. QED
  BY <1>2, <1>3

\* A message for each element of a sequence of numbers.
LEMMA MappedType ==
  ASSUME NEW s \in Seq(Nat)
  PROVE  /\ [k \in DOMAIN s |-> ToolResult(s[k])] \in Seq(Message)
         /\ [k \in DOMAIN s |-> UserTurn(s[k])] \in Seq(Message)
<1> DEFINE n == Len(s)
<1>1. n \in Nat /\ DOMAIN s = 1..n
  OBVIOUS
<1>2. \A k \in 1..n : ToolResult(s[k]) \in Message /\ UserTurn(s[k]) \in Message
  BY MessageTypes
<1> HIDE DEF n
<1>3. /\ [k \in 1..n |-> ToolResult(s[k])] \in Seq(Message)
      /\ [k \in 1..n |-> UserTurn(s[k])] \in Seq(Message)
  BY <1>1, <1>2
<1>4. QED
  BY <1>1, <1>3

LEMMA HistoryStep ==
  ASSUME TypeOK, ExecutingACall, Next
  PROVE  history' \in Seq(Message) /\ disk' \in Seq(Message)
<1> USE DEF TypeOK, routing, answer, round, shared, ghosts
<1>1. ASSUME history' = history, disk' = disk
      PROVE  history' \in Seq(Message) /\ disk' \in Seq(Message)
  BY <1>1
<1>2. ASSUME NEW m, m = AssistantText \/ m = UserTurn(0), NEW h \in Seq(Message)
      PROVE  Add(h, m) \in Seq(Message)
  BY <1>2, MessageTypes, AddType, Zenon
<1>3. ASSUME Start PROVE history' \in Seq(Message) /\ disk' \in Seq(Message)
  BY <1>2, <1>3 DEF Start, StartRun
<1>4. CASE Prepare
  BY <1>4, CompactionsType DEF Prepare
<1>5. CASE AnswerFailsSchema \/ AnswerRejected \/ AnswerRejectedForGood
  BY <1>2, <1>5, Zenon DEF AnswerFailsSchema, AnswerRejected, AnswerRejectedForGood
<1>6. CASE AnswerAccepted
  BY <1>2, <1>6 DEF AnswerAccepted, Persist
<1>7. ASSUME NEW n \in 1..MaxBatch, BeginRound(n)
      PROVE  history' \in Seq(Message) /\ disk' \in Seq(Message)
  <2>1. AssistantCalls(calls') \in Message
    BY <1>7, TurnType, MessageTypes DEF BeginRound
  <2>2. QED
    BY <1>7, <2>1, AddType DEF BeginRound
<1>8. ASSUME NEW e, Record(e), MoreCalls, disk' = disk
      PROVE  history' \in Seq(Message) /\ disk' \in Seq(Message)
  <2>1. calls[recorded + 1] \in Nat
    BY <1>8, SMTT(30), ZenonT(30) DEF MoreCalls
  <2>2. QED
    BY <1>8, <2>1, MessageTypes, AddType, Zenon DEF Record
<1>9. CASE SkipCall \/ EarlyResult \/ \E isError \in BOOLEAN : Execute(isError)
  BY <1>8, <1>9, Zenon DEF SkipCall, EarlyResult, Execute, ExecutingACall, MoreCalls
<1>10. ASSUME NEW failed, DispatchAndRecord(failed)
       PROVE  history' \in Seq(Message) /\ disk' \in Seq(Message)
  <2>2. [k \in DOMAIN calls |-> ToolResult(calls[k])] \in Seq(Message)
    BY MappedType, Zenon
  <2>3. history \o [k \in DOMAIN calls |-> ToolResult(calls[k])] \in Seq(Message)
    BY <2>2
  <2>4. QED
    BY <1>10, <2>3, EnforceCapType, Zenon DEF DispatchAndRecord
<1>11. CASE EndRound
  BY <1>11 DEF EndRound, SaveRound, Persist
<1>17. CASE DrainInbox
  <2>1. Head(inbox) \in Nat
    BY <1>17, SMTT(30), ZenonT(30) DEF DrainInbox
  <2>2. QED
    BY <1>17, <2>1, MessageTypes, AddType, Zenon DEF DrainInbox
<1>12. CASE CrashAndRestart
  BY <1>12 DEF CrashAndRestart
<1>13. CASE ControlThread
  BY <1>13, SMTT(30), ZenonT(30) DEF ControlThread, Cancel, Pause, Resume, SetPauseEvent, SendMessageWhileRunning
<1>14. CASE \/ HitCap \/ PassPause \/ CheckBudget \/ LlmRaises
            \/ \E at \in {"check", "hooked", "after"} : SeeCancel(at)
  BY <1>14, SMTT(30), ZenonT(30) DEF HitCap, PassPause, CheckBudget, LlmRaises, SeeCancel
<1>15. CASE \/ PassGate \/ GateRaises \/ InboxEmpty \/ PassSecondPause \/ NextTurn
            \/ \E verdict \in {"skip", "early", "run"} : GateNext(verdict)
  BY <1>15 DEF PassGate, GateRaises, GateNext, InboxEmpty, PassSecondPause, NextTurn
<1>16. QED
  BY <1>3, <1>4, <1>5, <1>6, <1>7, <1>9, <1>10, <1>11, <1>12, <1>13, <1>14, <1>15, <1>17, SMTT(30), ZenonT(30)
     DEF Next, RunThread

\* The variables of a round of tool calls.
Verdicts == {"skip", "early", "run"}
RoundOK ==
  /\ calls \in Seq(Nat) /\ recorded \in 0..Len(calls)
  /\ gates \in Seq(Verdicts) /\ Len(gates) <= Len(calls)
  /\ anyError \in BOOLEAN
  /\ ExecutingACall

LEMMA RoundStep ==
  ASSUME TypeOK, ExecutingACall, Next
  PROVE  RoundOK'
<1> USE DEF RoundOK, ExecutingACall, Verdicts, routing, answer, round, shared, ghosts
<1>1. RoundOK
  BY DEF TypeOK
<1>2. ASSUME NEW n \in 1..MaxBatch, BeginRound(n) PROVE RoundOK'
  <2>1. calls' \in Seq(Nat)
    BY <1>2, TurnType DEF BeginRound
  <2>2. recorded' = 0 /\ gates' = <<>> /\ anyError' = FALSE /\ pc' # "exec"
    BY <1>2 DEF BeginRound
  <2>3. gates' \in Seq(Verdicts) /\ Len(gates') = 0 /\ Len(calls') \in Nat
    BY <2>1, <2>2
  <2>4. anyError' \in BOOLEAN
    BY ONLY <2>2, Zenon
  <2>5. recorded' \in 0..Len(calls') /\ Len(gates') <= Len(calls')
    BY ONLY <2>2, <2>3
  <2>6. QED
    BY <2>1, <2>2, <2>3, <2>4, <2>5
<1>3. ASSUME NEW e \in BOOLEAN, Record(e), MoreCalls, UNCHANGED <<calls, gates>>, pc' = "tools"
      PROVE  RoundOK'
  <2>1. recorded' \in 0..Len(calls)
    BY <1>1, <1>3 DEF Record, MoreCalls
  <2>2. anyError' \in BOOLEAN
    <3>1. anyError' = (anyError \/ e)
      BY <1>3 DEF Record
    <3>2. (anyError \/ e) \in BOOLEAN
      OBVIOUS
    <3>3. QED
      BY ONLY <3>1, <3>2
  <2>3. QED
    BY <1>1, <1>3, <2>1, <2>2
<1>4. CASE SkipCall \/ EarlyResult \/ \E isError \in BOOLEAN : Execute(isError)
  BY <1>3, <1>4, Zenon DEF SkipCall, EarlyResult, Execute, MoreCalls
<1>5. ASSUME NEW v \in Verdicts, GateNext(v) PROVE RoundOK'
  <2>1. gates' \in Seq(Verdicts) /\ Len(gates') = Len(gates) + 1
    BY <1>1, <1>5 DEF GateNext
  <2>2. QED
    BY <1>1, <1>5, <2>1 DEF GateNext
<1>6. ASSUME NEW failed, DispatchAndRecord(failed) PROVE RoundOK'
  <2>1. recorded' \in 0..Len(calls)
    BY <1>1, <1>6 DEF DispatchAndRecord
  <2>2. anyError' \in BOOLEAN
    BY <1>6 DEF DispatchAndRecord
  <2>3. QED
    BY <1>1, <1>6, <2>1, <2>2 DEF DispatchAndRecord
<1>7. CASE EndRound
  BY <1>1, <1>7 DEF EndRound, Leave
<1>8. CASE PassGate
  BY <1>1, <1>8 DEF PassGate, MoreCalls
<1>9. ASSUME UNCHANGED round, pc' # "exec" \/ UNCHANGED pc PROVE RoundOK'
  BY <1>1, <1>9, SMTT(30), ZenonT(30)
<1>10. CASE Start \/ ControlThread
  BY <1>9, <1>10 DEF Start, StartRun, ControlThread, Cancel, Pause, Resume,
                     SendMessageWhileRunning
<1>14. CASE CrashAndRestart
  <2>1. /\ calls' = <<>> /\ recorded' = 0 /\ gates' = <<>> /\ anyError' = FALSE
        /\ pc' # "exec"
    BY <1>14 DEF CrashAndRestart
  <2>2. /\ calls' \in Seq(Nat) /\ gates' \in Seq(Verdicts)
        /\ Len(calls') = 0 /\ Len(gates') = 0 /\ recorded' \in 0..Len(calls')
    BY ONLY <2>1
  <2>3. anyError' \in BOOLEAN
    BY ONLY <2>1, ZenonT(30)
  <2>4. QED
    BY <2>1, <2>2, <2>3
<1>11. CASE \/ HitCap \/ PassPause \/ Prepare \/ CheckBudget \/ LlmRaises
            \/ \E at \in {"check", "hooked", "after"} : SeeCancel(at)
  BY <1>9, <1>11 DEF HitCap, PassPause, Prepare, CheckBudget, LlmRaises, SeeCancel, Leave
<1>12. CASE \/ AnswerFailsSchema \/ AnswerRejectedForGood \/ AnswerRejected \/ AnswerAccepted
            \/ GateRaises \/ DrainInbox \/ InboxEmpty \/ PassSecondPause \/ NextTurn
  BY <1>9, <1>12, ZenonT(30) DEF AnswerFailsSchema, AnswerRejectedForGood, AnswerRejected, AnswerAccepted,
                     GateRaises, DrainInbox, InboxEmpty, PassSecondPause, NextTurn, Leave
<1>13. QED
  BY <1>2, <1>4, <1>5, <1>6, <1>7, <1>8, <1>10, <1>11, <1>12, <1>14, SMTT(30), ZenonT(30) DEF Next, RunThread

\* The flags, which the backends treat apart from the numbers.
FlagsOK ==
  /\ sticky \in BOOLEAN /\ escalated \in BOOLEAN /\ rejected \in BOOLEAN
  /\ stop \in BOOLEAN /\ cancelled \in BOOLEAN /\ go \in BOOLEAN /\ woken \in BOOLEAN

LEMMA FlagsStep ==
  ASSUME TypeOK, Next
  PROVE  FlagsOK'
<1> USE DEF FlagsOK, routing, answer, round, shared, ghosts
<1>1. FlagsOK
  BY DEF TypeOK
<1>2. ASSUME UNCHANGED <<sticky, escalated, rejected, stop, cancelled, go, woken>> PROVE FlagsOK'
  BY <1>1, <1>2
<1>3. ASSUME UNCHANGED <<sticky, escalated, rejected, cancelled, go, woken>>, Finished PROVE FlagsOK'
  <2>1. (stop \/ HasStuckDetector) \in BOOLEAN
    OBVIOUS
  <2>2. stop' \in BOOLEAN
    BY <1>1, <1>3, <2>1, Zenon DEF Finished
  <2>3. QED
    BY <1>1, <1>3, <2>2
<1>4. ASSUME NEW e, MaybeEscalate(e) PROVE sticky' \in BOOLEAN /\ escalated' \in BOOLEAN
  BY <1>1, <1>4, Zenon DEF MaybeEscalate
<1>5. ASSUME NEW m \in BOOLEAN, NEW v, StartRun(m, v) PROVE FlagsOK'
  <2>1. sticky' = (sticky \/ v = "MAX")
    BY <1>5 DEF StartRun, ClassifyAndRoute
  <2>2. (sticky \/ v = "MAX") \in BOOLEAN
    OBVIOUS
  <2>3. sticky' \in BOOLEAN
    BY ONLY <2>1, <2>2
  <2>4. QED
    BY <1>1, <1>5, <2>3, Zenon DEF StartRun
<1>14. ASSUME UNCHANGED <<sticky, escalated, rejected, stop, cancelled, go>>, woken' = FALSE
       PROVE  FlagsOK'
  BY <1>1, <1>14, Zenon
<1>15. ASSUME SetPauseEvent PROVE go' \in BOOLEAN /\ woken' \in BOOLEAN
  <2>1. (woken \/ Waiting) \in BOOLEAN
    BY DEF Waiting
  <2>2. woken' \in BOOLEAN
    BY <1>1, <1>15, <2>1, Zenon DEF SetPauseEvent
  <2>3. QED
    BY <1>15, <2>2 DEF SetPauseEvent
<1>6. CASE Cancel \/ Resume
  BY <1>1, <1>6, <1>15, Zenon DEF Cancel, Resume
<1>16. CASE Pause \/ SendMessageWhileRunning \/ CrashAndRestart
  BY <1>1, <1>16, ZenonT(30) DEF Pause, SendMessageWhileRunning, CrashAndRestart
<1>7. CASE \/ HitCap \/ Prepare \/ CheckBudget \/ LlmRaises
           \/ \E at \in {"check", "hooked", "after"} : SeeCancel(at)
  BY <1>2, <1>7 DEF HitCap, Prepare, CheckBudget, LlmRaises, SeeCancel
<1>17. CASE PassPause \/ PassSecondPause
  BY <1>14, <1>17, Zenon DEF PassPause, PassSecondPause, PauseGate
<1>8. CASE AnswerFailsSchema \/ AnswerRejectedForGood \/ AnswerAccepted
  BY <1>1, <1>8, Zenon DEF AnswerFailsSchema, AnswerRejectedForGood, AnswerAccepted
<1>9. CASE AnswerRejected \/ NextTurn
  BY <1>1, <1>4, <1>9, Zenon DEF AnswerRejected, NextTurn
<1>10. CASE \/ SkipCall \/ PassGate \/ GateRaises \/ EndRound \/ DrainInbox \/ InboxEmpty
            \/ \E n \in 1..MaxBatch : BeginRound(n)
            \/ \E verdict \in {"skip", "early", "run"} : GateNext(verdict)
  BY <1>2, <1>10, Zenon DEF SkipCall, PassGate, GateRaises, EndRound, DrainInbox, InboxEmpty,
                     BeginRound, GateNext
<1>11. CASE EarlyResult \/ \E isError \in BOOLEAN : Execute(isError)
  BY <1>3, <1>11, ZenonT(30) DEF EarlyResult, Execute
<1>12. ASSUME NEW failed, DispatchAndRecord(failed) PROVE FlagsOK'
  BY <1>2, <1>3, <1>12 DEF DispatchAndRecord
<1>13. QED
  BY <1>5, <1>6, <1>7, <1>8, <1>9, <1>10, <1>11, <1>12, <1>16, <1>17, SMTT(30), ZenonT(30)
     DEF Next, RunThread, Start, ControlThread

\* The program counter, the mode and the numbers.
PCs == {"idle", "top", "check", "hooked", "llm", "tools", "exec", "gate", "drain", "wait",
        "after"}
ControlOK ==
  /\ pc \in PCs /\ mode \in Modes /\ cap \in Nat /\ iteration \in Nat
  /\ schemaLeft \in 0..SchemaRetries /\ verifyLeft \in 0..VerifyRetries
  /\ final \in Texts /\ outcome \in Outcomes
  /\ inbox \in Seq(Nat) /\ sends \in 0..MaxSends
  /\ spent \in Nat /\ runs \in 0..MaxRuns
  /\ turnsUnsaved \in Nat /\ callsInRun \in Nat /\ callsSincePause \in Nat
  /\ escalations \in Nat

LEMMA ControlStep ==
  ASSUME TypeOK, Next
  PROVE  ControlOK'
<1> USE LoopAssumption DEF ControlOK, PCs, Modes, Texts, Outcomes, Leave,
                           routing, answer, round, shared, ghosts
<1>1. ControlOK
  BY DEF TypeOK
<1>2. ASSUME NEW m \in BOOLEAN, NEW v \in {"FLASH", "MAX", "error"}, StartRun(m, v)
      PROVE  ControlOK'
  <2>1. mode' \in Modes /\ cap' \in Nat
    BY <1>2, CapOfType DEF StartRun, ClassifyAndRoute
  <2>2. QED
    BY <1>1, <1>2, <2>1 DEF StartRun
<1>3. CASE HitCap
  BY <1>1, <1>3, SMTT(30), ZenonT(30) DEF HitCap
<1>4. CASE PassPause \/ Prepare \/ LlmRaises \/ \E at \in {"check", "hooked", "after"} : SeeCancel(at)
  BY <1>1, <1>4, ZenonT(30) DEF PassPause, PauseGate, Prepare, LlmRaises, SeeCancel
<1>5. CASE CheckBudget
  BY <1>1, <1>5 DEF CheckBudget
<1>6. ASSUME Charge PROVE spent' \in Nat /\ callsInRun' \in Nat /\ callsSincePause' \in Nat
  BY <1>1, <1>6 DEF Charge
<1>7. ASSUME NEW e, MaybeEscalate(e) PROVE mode' \in Modes /\ cap' \in Nat /\ escalations' \in Nat
  BY <1>1, <1>7, SMTT(30), ZenonT(30) DEF MaybeEscalate
<1>8. CASE AnswerFailsSchema
  BY <1>1, <1>6, <1>8, SMTT(30), ZenonT(30) DEF AnswerFailsSchema
<1>9. CASE AnswerRejectedForGood
  BY <1>1, <1>6, <1>9, SMTT(30), ZenonT(30) DEF AnswerRejectedForGood
<1>10. CASE AnswerRejected
  <2>1. mode' \in Modes /\ cap' \in Nat /\ escalations' \in Nat
    BY <1>7, <1>10, ZenonT(30) DEF AnswerRejected
  <2>2. verifyLeft' \in 0..VerifyRetries /\ schemaLeft' \in 0..SchemaRetries
    BY <1>1, <1>10, SMTT(30), ZenonT(30) DEF AnswerRejected
  <2>3. QED
    BY <1>1, <1>6, <1>10, <2>1, <2>2 DEF AnswerRejected
<1>11. CASE AnswerAccepted
  BY <1>1, <1>6, <1>11, SMTT(30), ZenonT(30) DEF AnswerAccepted, Persist
<1>12. ASSUME NEW n \in 1..MaxBatch, BeginRound(n) PROVE ControlOK'
  BY <1>1, <1>6, <1>12 DEF BeginRound
<1>13. CASE SkipCall \/ EarlyResult \/ PassGate \/ GateRaises \/ PassSecondPause \/ InboxEmpty
  BY <1>1, <1>13, ZenonT(30) DEF SkipCall, EarlyResult, PassGate, GateRaises, PassSecondPause, PauseGate,
                     InboxEmpty
<1>14. CASE \/ \E isError \in BOOLEAN : Execute(isError)
            \/ \E verdict \in {"skip", "early", "run"} : GateNext(verdict)
            \/ \E failed \in SUBSET DOMAIN calls : DispatchAndRecord(failed)
  BY <1>1, <1>14, ZenonT(30) DEF Execute, GateNext, DispatchAndRecord
<1>15. CASE EndRound
  <2>1. turnsUnsaved' \in Nat
    BY <1>1, <1>15 DEF EndRound, SaveRound, Persist
  <2>2. pc' \in PCs /\ outcome' \in Outcomes
    BY <1>1, <1>15 DEF EndRound
  <2>3. UNCHANGED <<mode, cap, iteration, schemaLeft, verifyLeft, final, inbox, sends, spent,
                    runs, callsInRun, callsSincePause, escalations>>
    BY <1>15 DEF EndRound
  <2>4. QED
    BY <1>1, <2>1, <2>2, <2>3, SMTT(30), ZenonT(30)
<1>21. CASE DrainInbox
  <2>1. inbox' \in Seq(Nat)
    BY <1>1, <1>21, SMTT(30), ZenonT(30) DEF DrainInbox
  <2>2. QED
    BY <1>1, <1>21, <2>1, SMTT(30), ZenonT(30) DEF DrainInbox
<1>16. CASE NextTurn
  BY <1>1, <1>7, <1>16, SMTT(30), ZenonT(30) DEF NextTurn
<1>17. CASE Cancel \/ Pause \/ Resume
  <2>1. callsSincePause' \in Nat
    BY <1>1, <1>17, SMTT(30), ZenonT(30) DEF Cancel, Pause, Resume, SetPauseEvent
  <2>2. UNCHANGED <<pc, mode, cap, iteration, schemaLeft, verifyLeft, final, outcome, inbox,
                    sends, spent, runs, turnsUnsaved, callsInRun, escalations>>
    BY <1>17, SMTT(30), ZenonT(30) DEF Cancel, Pause, Resume
  <2>3. QED
    BY <1>1, <2>1, <2>2, SMTT(30), ZenonT(30)
<1>18. CASE SendMessageWhileRunning
  BY <1>1, <1>18, TurnType, SMTT(30), ZenonT(30) DEF SendMessageWhileRunning
<1>19. CASE CrashAndRestart
  <2>1. cap' \in Nat
    BY <1>19, CapOfType, SMTT(30), ZenonT(30) DEF CrashAndRestart
  <2>2. QED
    BY <1>1, <1>19, <2>1, SMTT(30), ZenonT(30) DEF CrashAndRestart
<1>20. QED
  BY <1>2, <1>3, <1>4, <1>5, <1>8, <1>9, <1>10, <1>11, <1>12, <1>13, <1>14, <1>15,
     <1>16, <1>17, <1>18, <1>19, <1>21, ZenonT(30) DEF Next, Start, RunThread, ControlThread

LEMMA TypeStep ==
  ASSUME TypeOK, ExecutingACall, Next
  PROVE  TypeOK' /\ ExecutingACall'
BY HistoryStep, RoundStep, FlagsStep, ControlStep, SMTT(30), ZenonT(30)
   DEF TypeOK, RoundOK, Verdicts, FlagsOK, ControlOK, PCs

-----------------------------------------------------------------------------
LEMMA StickyStep ==
  ASSUME TypeOK, RoutingConsistent, EscalationRecorded, Next
  PROVE  RoutingConsistent' /\ EscalationRecorded'
<1> USE DEF RoutingConsistent, EscalationRecorded, routing, answer, round, shared, ghosts
<1>1. ASSUME UNCHANGED <<mode, sticky, cap, escalated, escalations>>
      PROVE  RoutingConsistent' /\ EscalationRecorded'
  BY <1>1 DEF CapOf
<1>2. ASSUME NEW e, MaybeEscalate(e)
      PROVE  RoutingConsistent' /\ EscalationRecorded'
  <2>1. CASE UNCHANGED <<routing, escalated, escalations>>
    BY <1>1, <2>1
  <2>2. CASE ~UNCHANGED <<routing, escalated, escalations>>
    <3>1. /\ ~escalated /\ mode' = "MAX" /\ sticky' = TRUE /\ escalated' = TRUE
          /\ escalations' = escalations + 1
          /\ cap' = IF Override = 0 THEN MaxCap ELSE cap
      BY <1>2, <2>2 DEF MaybeEscalate
    <3>2. cap' = CapOf("MAX")
      BY <3>1 DEF CapOf
    <3>3. QED
      BY <3>1, <3>2 DEF CapOf
  <2>3. QED
    BY <2>1, <2>2
<1>3. ASSUME NEW m \in BOOLEAN, NEW v \in {"FLASH", "MAX", "error"}, StartRun(m, v)
      PROVE  RoutingConsistent' /\ EscalationRecorded'
  <2>1. cap' = CapOf(mode') /\ escalated' = FALSE /\ escalations' = 0
    BY <1>3 DEF StartRun, ClassifyAndRoute
  <2>2. sticky' => mode' = "MAX"
    BY <1>3, ZenonT(30) DEF StartRun, ClassifyAndRoute
  <2>3. QED
    BY <2>1, <2>2 DEF CapOf
<1>4. CASE ControlThread
  BY <1>1, <1>4 DEF ControlThread, Cancel, Pause, Resume, SetPauseEvent, SendMessageWhileRunning
<1>5. CASE CrashAndRestart
  BY <1>5, SMTT(30), ZenonT(30) DEF CrashAndRestart, CapOf
<1>6. CASE \/ HitCap \/ PassPause \/ Prepare \/ CheckBudget \/ LlmRaises
           \/ \E at \in {"check", "hooked", "after"} : SeeCancel(at)
  BY <1>1, <1>6, SMTT(30), ZenonT(30) DEF HitCap, PassPause, Prepare, CheckBudget, LlmRaises, SeeCancel
<1>7. CASE \/ AnswerFailsSchema \/ AnswerRejectedForGood \/ AnswerAccepted
           \/ \E n \in 1..MaxBatch : BeginRound(n)
  BY <1>1, <1>7 DEF AnswerFailsSchema, AnswerRejectedForGood, AnswerAccepted, BeginRound
<1>8. CASE AnswerRejected \/ NextTurn
  BY <1>2, <1>8, Zenon DEF AnswerRejected, NextTurn
<1>9. CASE \/ SkipCall \/ EarlyResult \/ PassGate \/ GateRaises \/ EndRound \/ DrainInbox
           \/ InboxEmpty \/ PassSecondPause
  BY <1>1, <1>9, ZenonT(30) DEF SkipCall, EarlyResult, PassGate, GateRaises, EndRound, DrainInbox,
                    InboxEmpty, PassSecondPause
<1>10. CASE \/ \E isError \in BOOLEAN : Execute(isError)
            \/ \E verdict \in {"skip", "early", "run"} : GateNext(verdict)
            \/ \E failed \in SUBSET DOMAIN calls : DispatchAndRecord(failed)
  BY <1>1, <1>10, ZenonT(30) DEF Execute, GateNext, DispatchAndRecord
<1>11. QED
  BY <1>3, <1>4, <1>5, <1>6, <1>7, <1>8, <1>9, <1>10, SMTT(30), ZenonT(30) DEF Next, Start, RunThread

LEMMA RequestsStep ==
  ASSUME TypeOK, RoutingConsistent, RequestsCounted, Next
  PROVE  RequestsCounted'
<1> USE LoopAssumption DEF RequestsCounted, TypeOK, Leave, routing, answer, round, shared, ghosts
<1>1. ASSUME NEW m \in BOOLEAN, NEW v \in {"FLASH", "MAX", "error"}, StartRun(m, v)
      PROVE  RequestsCounted'
  <2>1. cap' \in Nat
    BY <1>1, ControlStep, SMTT(30), ZenonT(30) DEF ControlOK
  <2>2. QED
    BY <1>1, <2>1, SMTT(30), ZenonT(30) DEF StartRun
<1>2. CASE HitCap \/ PassPause \/ LlmRaises \/ \E at \in {"check", "hooked", "after"} : SeeCancel(at)
  BY <1>2, ZenonT(30) DEF HitCap, PassPause, LlmRaises, SeeCancel
<1>3. CASE Prepare \/ CheckBudget
  <2>1. UNCHANGED <<callsInRun, iteration, cap, spent>>
    BY <1>3, SMTT(30), ZenonT(30) DEF Prepare, CheckBudget
  <2>2. \/ pc = "check" /\ pc' = "hooked"
        \/ pc = "hooked" /\ pc' = "idle"
        \/ pc = "hooked" /\ pc' = "llm" /\ ~(CallBudget # 0 /\ spent >= CallBudget)
    BY <1>3, SMTT(30), ZenonT(30) DEF Prepare, CheckBudget
  <2>3. QED
    BY <2>1, <2>2, SMTT(30), ZenonT(30)
<1>4. ASSUME pc = "llm", Charge
      PROVE  /\ callsInRun' = callsInRun + 1 /\ callsInRun' <= cap /\ callsInRun = iteration
             /\ CallBudget # 0 => spent' <= CallBudget
  BY <1>4 DEF Charge
<1>5. CASE AnswerFailsSchema
  BY <1>4, <1>5, SMTT(30), ZenonT(30) DEF AnswerFailsSchema
<1>6. CASE AnswerRejectedForGood \/ AnswerAccepted
  BY <1>4, <1>6, SMTT(30), ZenonT(30) DEF AnswerRejectedForGood, AnswerAccepted
<1>7. ASSUME NEW e, MaybeEscalate(e) PROVE cap <= cap'
  BY <1>7, SMTT(30), ZenonT(30) DEF MaybeEscalate, RoutingConsistent, CapOf
<1>8. CASE AnswerRejected
  <2>1. cap' \in Nat
    BY ControlStep, SMTT(30), ZenonT(30) DEF ControlOK
  <2>2. /\ pc' = "top" /\ iteration' = iteration + 1 /\ cap <= cap' /\ pc = "llm" /\ Charge
    BY <1>7, <1>8, ZenonT(30) DEF AnswerRejected
  <2>3. callsInRun' = iteration' /\ callsInRun' <= cap'
    BY <1>4, <2>1, <2>2, SMTT(30), ZenonT(30)
  <2>4. QED
    BY <1>4, <2>2, <2>3, SMTT(30), ZenonT(30)
<1>9. ASSUME NEW n \in 1..MaxBatch, BeginRound(n) PROVE RequestsCounted'
  BY <1>4, <1>9 DEF BeginRound
<1>10. CASE SkipCall \/ EarlyResult \/ PassGate \/ GateRaises
  BY <1>10, ZenonT(30) DEF SkipCall, EarlyResult, PassGate, GateRaises
<1>11. CASE \/ \E isError \in BOOLEAN : Execute(isError)
            \/ \E verdict \in {"skip", "early", "run"} : GateNext(verdict)
            \/ \E failed \in SUBSET DOMAIN calls : DispatchAndRecord(failed)
  BY <1>11, Zenon DEF Execute, GateNext, DispatchAndRecord
<1>12. CASE EndRound \/ DrainInbox \/ InboxEmpty \/ PassSecondPause
  BY <1>12, ZenonT(30) DEF EndRound, DrainInbox, InboxEmpty, PassSecondPause
<1>13. CASE NextTurn
  <2>1. cap' \in Nat
    BY ControlStep DEF ControlOK
  <2>2. cap <= cap'
    BY <1>7, <1>13 DEF NextTurn
  <2>3. QED
    BY <1>13, <2>1, <2>2, SMTT(30), ZenonT(30) DEF NextTurn
<1>14. CASE ControlThread
  BY <1>14, ZenonT(30) DEF ControlThread, Cancel, Pause, Resume, SetPauseEvent, SendMessageWhileRunning
<1>15. CASE CrashAndRestart
  BY <1>15, SMTT(30), ZenonT(30) DEF CrashAndRestart
<1>16. QED
  BY <1>1, <1>2, <1>3, <1>5, <1>6, <1>8, <1>9, <1>10, <1>11, <1>12, <1>13, <1>14,
     <1>15, ZenonT(30) DEF Next, Start, RunThread

LEMMA RejectionStep ==
  ASSUME TypeOK, RejectedAnswerHeld, RejectionRemembered, Next
  PROVE  RejectedAnswerHeld' /\ RejectionRemembered'
<1> USE DEF RejectedAnswerHeld, RejectionRemembered, Leave, routing, answer, round, shared, ghosts
<1>1. ASSUME UNCHANGED <<rejected, final, outcome>>, pc' # "idle" => pc # "idle"
      PROVE  RejectedAnswerHeld' /\ RejectionRemembered'
  BY <1>1
<1>2. CASE Start
  BY <1>2 DEF Start, StartRun
<1>3. CASE HitCap
  BY <1>3, SMTT(30), ZenonT(30) DEF HitCap
<1>4. CASE LlmRaises \/ \E at \in {"check", "hooked", "after"} : SeeCancel(at)
  BY <1>4 DEF LlmRaises, SeeCancel
<1>5. CASE CheckBudget
  BY <1>5 DEF CheckBudget
<1>6. CASE AnswerFailsSchema \/ AnswerRejected
  BY <1>6, ZenonT(30) DEF AnswerFailsSchema, AnswerRejected
<1>7. CASE AnswerRejectedForGood \/ AnswerAccepted
  BY <1>7, SMTT(30), ZenonT(30) DEF AnswerRejectedForGood, AnswerAccepted
<1>8. CASE \/ PassPause \/ Prepare \/ DrainInbox \/ InboxEmpty \/ PassSecondPause \/ NextTurn
           \/ \E n \in 1..MaxBatch : BeginRound(n)
  BY <1>1, <1>8 DEF PassPause, Prepare, DrainInbox, InboxEmpty, PassSecondPause, NextTurn,
                    BeginRound
<1>9. CASE SkipCall \/ EarlyResult \/ PassGate
  BY <1>1, <1>9, ZenonT(30) DEF SkipCall, EarlyResult, PassGate
<1>10. CASE \/ \E isError \in BOOLEAN : Execute(isError)
            \/ \E verdict \in {"skip", "early", "run"} : GateNext(verdict)
            \/ \E failed \in SUBSET DOMAIN calls : DispatchAndRecord(failed)
  BY <1>1, <1>10, ZenonT(30) DEF Execute, GateNext, DispatchAndRecord
<1>11. CASE GateRaises \/ EndRound
  BY <1>11, SMTT(30), ZenonT(30) DEF GateRaises, EndRound
<1>12. CASE ControlThread
  BY <1>1, <1>12, SMTT(30), ZenonT(30) DEF ControlThread, Cancel, Pause, Resume, SetPauseEvent, SendMessageWhileRunning
<1>13. CASE CrashAndRestart
  BY <1>13, SMTT(30), ZenonT(30) DEF CrashAndRestart
<1>14. QED
  BY <1>2, <1>3, <1>4, <1>5, <1>6, <1>7, <1>8, <1>9, <1>10, <1>11, <1>12, <1>13, SMTT(30), ZenonT(30)
     DEF Next, RunThread

LEMMA PauseStep ==
  ASSUME TypeOK, PauseCounted, Next
  PROVE  PauseCounted'
<1> USE DEF PauseCounted, Leave, routing, answer, round, shared, ghosts
<1>1. ASSUME UNCHANGED <<go, callsSincePause>>, woken' = FALSE,
             pc' \in {"check", "hooked", "llm"} =>
               go \/ woken \/ pc \in {"check", "hooked", "llm"}
      PROVE  PauseCounted'
  BY <1>1
<1>2. ASSUME UNCHANGED <<go, woken>>, Charge, pc = "llm", pc' \notin {"check", "hooked", "llm"}
      PROVE  PauseCounted'
  BY <1>2 DEF Charge
<1>15. ASSUME pc \notin {"top", "wait"} PROVE woken = FALSE
  BY <1>15, SMTT(30), ZenonT(30) DEF TypeOK
<1>3. CASE Start
  BY <1>1, <1>3, <1>15, SMTT(30), ZenonT(30) DEF Start, StartRun
<1>16. CASE HitCap
  <2>1. woken = FALSE
    BY <1>16, SMTT(30), ZenonT(30) DEF HitCap, TypeOK
  <2>2. QED
    BY <1>1, <1>16, <2>1, SMTT(30), ZenonT(30) DEF HitCap
<1>17. CASE PassPause \/ PassSecondPause
  BY <1>1, <1>17, SMTT(30), ZenonT(30) DEF PassPause, PassSecondPause, PauseGate
<1>4. CASE LlmRaises \/ \E at \in {"check", "hooked", "after"} : SeeCancel(at)
  BY <1>1, <1>4, <1>15, SMTT(30), ZenonT(30) DEF LlmRaises, SeeCancel
<1>5. CASE Prepare \/ CheckBudget
  BY <1>1, <1>5, <1>15, SMTT(30), ZenonT(30) DEF Prepare, CheckBudget
<1>6. CASE AnswerFailsSchema \/ AnswerRejected \/ AnswerRejectedForGood \/ AnswerAccepted
  BY <1>2, <1>6, ZenonT(30) DEF AnswerFailsSchema, AnswerRejected, AnswerRejectedForGood, AnswerAccepted
<1>7. ASSUME NEW n \in 1..MaxBatch, BeginRound(n) PROVE PauseCounted'
  BY <1>2, <1>7 DEF BeginRound
<1>8. CASE SkipCall \/ EarlyResult \/ PassGate \/ GateRaises
  BY <1>1, <1>8, <1>15, Zenon DEF SkipCall, EarlyResult, PassGate, GateRaises
<1>9. CASE \/ \E isError \in BOOLEAN : Execute(isError)
           \/ \E verdict \in {"skip", "early", "run"} : GateNext(verdict)
           \/ \E failed \in SUBSET DOMAIN calls : DispatchAndRecord(failed)
  BY <1>1, <1>9, <1>15, ZenonT(30) DEF Execute, GateNext, DispatchAndRecord
<1>10. CASE EndRound \/ DrainInbox \/ InboxEmpty \/ NextTurn
  BY <1>1, <1>10, <1>15 DEF EndRound, DrainInbox, InboxEmpty, NextTurn
<1>11. CASE Cancel \/ Resume
  <2>1. callsSincePause' = 0 /\ UNCHANGED <<pc, iteration, cap>>
    BY <1>11 DEF Cancel, Resume, SetPauseEvent
  <2>2. woken' => woken \/ Waiting
    BY <1>11, ZenonT(30) DEF Cancel, Resume, SetPauseEvent
  <2>3. QED
    BY <2>1, <2>2, SMTT(30), ZenonT(30) DEF Waiting
<1>18. CASE CrashAndRestart
  BY <1>18 DEF CrashAndRestart
<1>12. CASE Pause
  BY <1>12 DEF Pause
<1>13. CASE SendMessageWhileRunning
  BY <1>13 DEF SendMessageWhileRunning
<1>14. QED
  BY <1>3, <1>4, <1>5, <1>6, <1>7, <1>8, <1>9, <1>10, <1>11, <1>12, <1>13, <1>16, <1>17, <1>18, SMTT(30), ZenonT(30)
     DEF Next, RunThread, ControlThread

-----------------------------------------------------------------------------
LEMMA LoopStep == IInv /\ [Next]_vars => IInv'
<1> SUFFICES ASSUME IInv, [Next]_vars PROVE IInv'
  OBVIOUS
<1>1. CASE Next
  BY <1>1, TypeStep, StickyStep, RequestsStep, RejectionStep, PauseStep, SMTT(30), ZenonT(30) DEF IInv
<1>2. CASE UNCHANGED vars
  <2> USE <1>2 DEF vars, routing, answer, round, shared, ghosts
  <2>1. TypeOK' /\ ExecutingACall'
    BY SMTT(30), ZenonT(30) DEF IInv, TypeOK, ExecutingACall
  <2>2. RoutingConsistent' /\ EscalationRecorded' /\ RequestsCounted'
    BY SMTT(30), ZenonT(30) DEF IInv, RoutingConsistent, EscalationRecorded, RequestsCounted, CapOf
  <2>3. RejectedAnswerHeld' /\ RejectionRemembered' /\ PauseCounted'
    BY DEF IInv, RejectedAnswerHeld, RejectionRemembered, PauseCounted
  <2>4. QED
    BY <2>1, <2>2, <2>3, SMTT(30), ZenonT(30) DEF IInv
<1>3. QED
  BY <1>1, <1>2

\* The conjunction is inductive.
THEOREM LoopInvariance == Spec => []IInv
BY InitIInv, LoopStep, PTL DEF Spec

(***************************************************************************)
(* Agent.run keeps its state well typed whatever the model answers: the    *)
(* retry counters stay in range, a result is recorded for a call that      *)
(* exists, and compaction yields messages.                                 *)
(***************************************************************************)
THEOREM TypeCorrect == Spec => []TypeOK
<1>1. IInv => TypeOK
  BY DEF IInv
<1>2. QED
  BY <1>1, LoopInvariance, PTL

\* What a step of the loop may do to the routing.
LEMMA RoutingStep ==
  ASSUME TypeOK, RoutingConsistent, EscalationRecorded, Next, ~CrashAndRestart
  PROVE  /\ sticky => sticky' /\ mode' = "MAX"
         /\ pc # "idle" /\ mode # mode' =>
              mode' = "MAX" /\ sticky' /\ escalations = 0 /\ escalations' = 1
<1> DEFINE Goal == /\ sticky => sticky' /\ mode' = "MAX"
                   /\ pc # "idle" /\ mode # mode' =>
                        mode' = "MAX" /\ sticky' /\ escalations = 0 /\ escalations' = 1
<1> USE DEF routing, answer, round, shared, ghosts
<1>1. ASSUME UNCHANGED <<mode, sticky>> PROVE Goal
  BY <1>1, ZenonT(30) DEF RoutingConsistent
<1>2. ASSUME NEW e, MaybeEscalate(e) PROVE Goal
  <2>1. CASE UNCHANGED <<routing, escalated, escalations>>
    BY <1>1, <2>1
  <2>2. CASE ~UNCHANGED <<routing, escalated, escalations>>
    <3>1. /\ ~escalated /\ mode' = "MAX" /\ sticky' = TRUE /\ escalations' = escalations + 1
      BY <1>2, <2>2, ZenonT(30) DEF MaybeEscalate
    <3>2. escalations = 0 /\ escalations' = 1
      BY <3>1 DEF EscalationRecorded
    <3>3. QED
      BY <3>1, <3>2, ZenonT(30)
  <2>3. QED
    BY <2>1, <2>2
<1>3. ASSUME NEW m \in BOOLEAN, NEW v \in {"FLASH", "MAX", "error"}, StartRun(m, v) PROVE Goal
  BY <1>3, ZenonT(30) DEF StartRun, ClassifyAndRoute
<1>4. CASE ControlThread
  BY <1>1, <1>4 DEF ControlThread, Cancel, Pause, Resume, SetPauseEvent, SendMessageWhileRunning
<1>5. CASE \/ HitCap \/ PassPause \/ Prepare \/ CheckBudget \/ LlmRaises
           \/ \E at \in {"check", "hooked", "after"} : SeeCancel(at)
  BY <1>1, <1>5, SMTT(30), ZenonT(30) DEF HitCap, PassPause, Prepare, CheckBudget, LlmRaises, SeeCancel
<1>6. CASE \/ AnswerFailsSchema \/ AnswerRejectedForGood \/ AnswerAccepted
           \/ \E n \in 1..MaxBatch : BeginRound(n)
  BY <1>1, <1>6, SMTT(30), ZenonT(30) DEF AnswerFailsSchema, AnswerRejectedForGood, AnswerAccepted, BeginRound
<1>7. CASE AnswerRejected \/ NextTurn
  BY <1>2, <1>7, Zenon DEF AnswerRejected, NextTurn
<1>8. CASE \/ SkipCall \/ EarlyResult \/ PassGate \/ GateRaises \/ EndRound \/ DrainInbox
           \/ InboxEmpty \/ PassSecondPause
  BY <1>1, <1>8, ZenonT(30) DEF SkipCall, EarlyResult, PassGate, GateRaises, EndRound, DrainInbox,
                    InboxEmpty, PassSecondPause
<1>9. CASE \/ \E isError \in BOOLEAN : Execute(isError)
           \/ \E verdict \in {"skip", "early", "run"} : GateNext(verdict)
           \/ \E failed \in SUBSET DOMAIN calls : DispatchAndRecord(failed)
  BY <1>1, <1>9, ZenonT(30) DEF Execute, GateNext, DispatchAndRecord
<1>10. QED
  BY <1>3, <1>4, <1>5, <1>6, <1>7, <1>8, <1>9, SMTT(30), ZenonT(30) DEF Next, Start, RunThread

(***************************************************************************)
(* MAX is sticky: for all caps, thresholds and numbers of runs no run of   *)
(* an Agent that ran at MAX by a verdict or an escalation is FLASH again,  *)
(* a run changes its mode at most once and only to MAX, and the cap is     *)
(* that of the mode (_classify_and_route, escalate).                       *)
(***************************************************************************)
THEOREM StickyAlways == Spec => MaxIsSticky
<1> DEFINE Step ==
      /\ (\E withMessage \in BOOLEAN : StartRun(withMessage, "MAX")) => sticky'
      /\ pc # "idle" /\ mode # mode' /\ ~CrashAndRestart =>
           mode' = "MAX" /\ sticky' /\ escalations = 0 /\ escalations' = 1
      /\ sticky /\ ~CrashAndRestart => sticky' /\ mode' = "MAX"
      /\ cap' = CapOf(mode')
<1>1. ASSUME IInv, IInv', [Next]_vars PROVE [Step]_vars
  <2>1. CASE Next
    <3>1. (\E withMessage \in BOOLEAN : StartRun(withMessage, "MAX")) => sticky'
      BY ZenonT(30) DEF StartRun, ClassifyAndRoute
    <3>2. cap' = CapOf(mode')
      BY <1>1, ZenonT(30) DEF IInv, RoutingConsistent, CapOf
    <3>3. ~CrashAndRestart =>
            /\ pc # "idle" /\ mode # mode' =>
                 mode' = "MAX" /\ sticky' /\ escalations = 0 /\ escalations' = 1
            /\ sticky => sticky' /\ mode' = "MAX"
      BY <1>1, <2>1, RoutingStep, ZenonT(30) DEF IInv
    <3>4. QED
      BY <3>1, <3>2, <3>3, ZenonT(30)
  <2>2. CASE UNCHANGED vars
    BY <2>2
  <2>3. QED
    BY <1>1, <2>1, <2>2
<1>2. QED
  BY <1>1, LoopInvariance, PTL DEF Spec, MaxIsSticky

(***************************************************************************)
(* No run makes more requests than its cap, and the budget is never        *)
(* exceeded, for all caps and budgets, across escalations, correction      *)
(* rounds and crashes (_run_loop, _budget_stop_message).                   *)
(***************************************************************************)
THEOREM RequestsAlwaysBounded == Spec => []RequestsBounded
<1>1. IInv => RequestsBounded
  BY DEF IInv, RequestsCounted, RequestsBounded, TypeOK
<1>2. QED
  BY <1>1, LoopInvariance, PTL

(***************************************************************************)
(* An answer that is returned as such was accepted, and a rejected one is  *)
(* not returned at the cap, for all numbers of correction rounds           *)
(* (_verify_final_answer, _raise_answer_not_verified).                     *)
(***************************************************************************)
THEOREM RejectedAlwaysHeld == Spec => []RejectedAnswerHeld
<1>1. IInv => RejectedAnswerHeld
  BY DEF IInv
<1>2. QED
  BY <1>1, LoopInvariance, PTL

(***************************************************************************)
(* After pause() at most one request is made, in every interleaving of the *)
(* run thread with pause(), resume() and cancel().                         *)
(***************************************************************************)
THEOREM PauseAlwaysTakesEffect == Spec => []PauseTakesEffect
<1>1. IInv => PauseTakesEffect
  BY DEF IInv, PauseCounted, PauseTakesEffect
<1>2. QED
  BY <1>1, LoopInvariance, PTL

-----------------------------------------------------------------------------
(***************************************************************************)
(* The pairing of calls and results.  The ids of a turn are above those of *)
(* all turns before it, which is what keeps a compaction from mistaking a  *)
(* call for the one a result belongs to.                                   *)
(***************************************************************************)
LEMMA TurnsType ==
  ASSUME IInv
  PROVE  /\ TurnsPerRun \in Nat /\ runs * TurnsPerRun \in Nat /\ cap < TurnsPerRun
         /\ Turn = runs * TurnsPerRun + iteration
         /\ TurnsUsed \in Nat
<1>1. /\ TurnsPerRun \in Nat /\ MaxCap < TurnsPerRun /\ FlashCap < TurnsPerRun
      /\ Override < TurnsPerRun
  BY LoopAssumption DEF TurnsPerRun, Max2
<1>2. cap < TurnsPerRun
  BY <1>1, LoopAssumption DEF IInv, RoutingConsistent, CapOf
<1>3. runs \in Nat /\ iteration \in Nat
  BY DEF IInv, TypeOK
<1>4. runs * TurnsPerRun \in Nat
  BY <1>1, <1>3, SMTT(30), ZenonT(30)
<1>5. QED
  BY <1>1, <1>2, <1>3, <1>4, SMTT(30), ZenonT(30) DEF Turn, TurnsUsed

FirstHalf == {"top", "check", "hooked", "llm"}

\* No step takes the numbering of the turns back.
LEMMA TurnsUsedGrows ==
  ASSUME IInv, Next
  PROVE  TurnsUsed' \in Nat /\ TurnsUsed <= TurnsUsed'
<1> USE DEF FirstHalf, Leave, routing, answer, round, shared, ghosts
<1> DEFINE b == runs * TurnsPerRun
<1>1. /\ TurnsPerRun \in Nat /\ b \in Nat /\ cap < TurnsPerRun /\ cap \in Nat
      /\ runs \in Nat /\ iteration \in Nat /\ pc \in PCs
  BY TurnsType, SMTT(30), ZenonT(30) DEF IInv, TypeOK, PCs
<1>2. /\ pc # "idle" => iteration <= cap
      /\ pc # "idle" /\ pc \notin FirstHalf => iteration + 1 <= cap
  BY <1>1 DEF IInv, RequestsCounted, TypeOK, PCs
<1>3. TurnsUsed = IF pc = "idle" THEN b + TurnsPerRun
                  ELSE IF pc \in FirstHalf THEN b + iteration ELSE b + iteration + 1
  BY <1>1 DEF TurnsUsed, Turn
<1>4. ASSUME runs' = runs
      PROVE  TurnsUsed' = IF pc' = "idle" THEN b + TurnsPerRun
                          ELSE IF pc' \in FirstHalf THEN b + iteration' ELSE b + iteration' + 1
  <2>1. TurnsPerRun' = TurnsPerRun
    BY DEF TurnsPerRun
  <2>2. TurnsUsed' = IF pc' = "idle" THEN b + TurnsPerRun
                     ELSE IF pc' \in FirstHalf THEN b + iteration' ELSE (b + iteration') + 1
    BY <1>4, <2>1, SMTT(30), ZenonT(30) DEF TurnsUsed, Turn
  <2>3. iteration' \in Nat
    BY TypeStep DEF IInv, TypeOK
  <2>4. QED
    BY <1>1, <2>2, <2>3
<1>5. ASSUME UNCHANGED <<runs, iteration>>, pc = "idle" => pc' = "idle",
             pc' \in FirstHalf => pc \in FirstHalf
      PROVE  TurnsUsed' \in Nat /\ TurnsUsed <= TurnsUsed'
  <2> HIDE DEF b
  <2>1. QED
    BY <1>1, <1>2, <1>3, <1>4, <1>5, SMTT(30), ZenonT(30)
<1>6. ASSUME runs' = runs, iteration' = iteration + 1, pc' = "top", pc # "idle"
      PROVE  TurnsUsed' \in Nat /\ TurnsUsed <= TurnsUsed'
  <2> HIDE DEF b
  <2>1. QED
    BY <1>1, <1>2, <1>3, <1>4, <1>6, SMTT(30), ZenonT(30)
<1>7. ASSUME Start PROVE TurnsUsed' \in Nat /\ TurnsUsed <= TurnsUsed'
  <2>1. pc = "idle" /\ pc' = "top" /\ runs' = runs + 1 /\ iteration' = 0
    BY <1>7 DEF Start, StartRun
  <2>2. TurnsUsed' = (runs + 1) * TurnsPerRun + 0
    <3>1. TurnsPerRun' = TurnsPerRun
      BY DEF TurnsPerRun
    <3>2. QED
      BY <2>1, <3>1 DEF TurnsUsed, Turn
  <2>3. (runs + 1) * TurnsPerRun = b + TurnsPerRun
    BY <1>1, SMTT(30), ZenonT(30)
  <2>4. QED
    BY <1>1, <1>3, <2>1, <2>2, <2>3, SMTT(30), ZenonT(30)
<1>8. CASE AnswerFailsSchema \/ AnswerRejected \/ NextTurn
  BY <1>6, <1>8, ZenonT(30) DEF AnswerFailsSchema, AnswerRejected, NextTurn
<1>9. CASE \/ HitCap \/ PassPause \/ Prepare \/ CheckBudget \/ LlmRaises
           \/ \E at \in {"check", "hooked", "after"} : SeeCancel(at)
  BY <1>5, <1>9, SMTT(30), ZenonT(30) DEF HitCap, PassPause, Prepare, CheckBudget, LlmRaises, SeeCancel
<1>10. CASE \/ AnswerRejectedForGood \/ AnswerAccepted
            \/ \E n \in 1..MaxBatch : BeginRound(n)
  BY <1>5, <1>10 DEF AnswerRejectedForGood, AnswerAccepted, BeginRound
<1>11. CASE SkipCall \/ EarlyResult \/ PassGate \/ GateRaises
  BY <1>5, <1>11, Zenon DEF SkipCall, EarlyResult, PassGate, GateRaises
<1>12. CASE \/ \E isError \in BOOLEAN : Execute(isError)
            \/ \E verdict \in {"skip", "early", "run"} : GateNext(verdict)
            \/ \E failed \in SUBSET DOMAIN calls : DispatchAndRecord(failed)
  BY <1>5, <1>12, ZenonT(30) DEF Execute, GateNext, DispatchAndRecord
<1>13. CASE EndRound \/ DrainInbox \/ InboxEmpty \/ PassSecondPause
  BY <1>5, <1>13, SMTT(30), ZenonT(30) DEF EndRound, DrainInbox, InboxEmpty, PassSecondPause
<1>14. CASE ControlThread \/ CrashAndRestart
  BY <1>5, <1>14, SMTT(30), ZenonT(30) DEF ControlThread, Cancel, Pause, Resume, SendMessageWhileRunning, CrashAndRestart
<1>15. QED
  BY <1>7, <1>8, <1>9, <1>10, <1>11, <1>12, <1>13, <1>14, SMTT(30), ZenonT(30) DEF Next, RunThread

\* The ids of a round are above those of the turns before it.
LEMMA CallIdsFresh ==
  ASSUME IInv, NEW n \in 1..MaxBatch
  PROVE  /\ Turn * MaxBatch \in Nat /\ (Turn + 1) * MaxBatch \in Nat
         /\ Turn * MaxBatch <= (Turn + 1) * MaxBatch
         /\ \A k \in DOMAIN CallIds(n) :
              Turn * MaxBatch < CallIds(n)[k] /\ CallIds(n)[k] <= (Turn + 1) * MaxBatch
<1>1. Turn \in Nat /\ MaxBatch \in Nat
  BY TurnType, LoopAssumption DEF IInv
<1>2. Turn * MaxBatch \in Nat /\ (Turn + 1) * MaxBatch = Turn * MaxBatch + MaxBatch
  BY <1>1
<1>3. \A k \in 1..n : CallIds(n)[k] = Turn * MaxBatch + k
  BY DEF CallIds
<1>4. DOMAIN CallIds(n) = 1..n
  BY DEF CallIds
<1> DEFINE t == Turn * MaxBatch
<1>5. ASSUME NEW k \in 1..n PROVE t < t + k /\ t + k <= t + MaxBatch
  <2> HIDE DEF t
  <2>1. t \in Nat
    BY <1>2, SMTT(30), ZenonT(30) DEF t
  <2>2. QED
    BY <1>1, <2>1
<1>6. QED
  BY <1>1, <1>2, <1>3, <1>4, <1>5, SMTT(30), ZenonT(30)

\* Only a round of calls brings new ids.
LEMMA CallsKept ==
  ASSUME IInv, MaxMessages = 0, HistoryPaired, Next, ~\E n \in 1..MaxBatch : BeginRound(n),
         NEW n, DistinctCalls(history, n), DistinctCalls(disk, n)
  PROVE  DistinctCalls(history', n) /\ DistinctCalls(disk', n)
<1> USE DEF Leave, routing, answer, round, shared, ghosts
<1>1. /\ history \in Seq(Message) /\ disk \in Seq(Message) /\ inbox \in Seq(Nat)
      /\ calls \in Seq(Nat) /\ recorded \in 0..Len(calls) /\ ExecutingACall
  BY DEF IInv, TypeOK
<1>2. \A h, m : EnforceCap(h) = h /\ Add(h, m) = Append(h, m)
  BY NoCap
<1>3. ASSUME NEW h \in Seq(Message), DistinctCalls(h, n),
             NEW m, m = AssistantText \/ \E k \in Nat : m = UserTurn(k) \/ m = ToolResult(k)
      PROVE  Add(h, m) \in Seq(Message) /\ DistinctCalls(Add(h, m), n)
  <2>1. m \in Message /\ m.kind # "use"
    <3>1. CASE m = AssistantText
      BY <3>1, MessageTypes DEF AssistantText
    <3>2. \A k \in Nat : UserTurn(k) \in Message /\ UserTurn(k).kind # "use"
      BY MessageTypes, Zenon DEF UserTurn
    <3>3. \A k \in Nat : ToolResult(k) \in Message /\ ToolResult(k).kind # "use"
      BY MessageTypes, ZenonT(30) DEF ToolResult
    <3>4. QED
      BY <1>3, <3>1, <3>2, <3>3, SMTT(30), ZenonT(30)
  <2>2. QED
    BY <1>2, <1>3, <2>1, AddType, AppendNoCalls, ZenonT(30)
<1>4. CASE Start
  BY <1>1, <1>3, <1>4, SMTT(30), ZenonT(30) DEF Start, StartRun
<1>5. CASE Prepare
  <2>1. disk' = disk /\ (history' = history \/ history' \in Compactions(history))
    BY <1>5, SMTT(30), ZenonT(30) DEF Prepare
  <2>2. ReplayValid(history)
    BY <1>5, SMTT(30), ZenonT(30) DEF Prepare, HistoryPaired
  <2>3. QED
    BY <1>1, <2>1, <2>2, CompactionKeepsPairing, SMTT(30), ZenonT(30)
<1>6. CASE AnswerFailsSchema \/ AnswerRejected
  <2>1. history' = Add(Add(history, AssistantText), UserTurn(0)) /\ disk' = disk
    BY <1>6, ZenonT(30) DEF AnswerFailsSchema, AnswerRejected
  <2>2. QED
    BY <1>1, <1>3, <2>1, SMTT(30), ZenonT(30)
<1>7. CASE AnswerRejectedForGood \/ AnswerAccepted
  <2>1. history' = Add(history, AssistantText) /\ (disk' = disk \/ disk' = history')
    BY <1>7, SMTT(30), ZenonT(30) DEF AnswerRejectedForGood, AnswerAccepted, Persist
  <2>2. QED
    BY <1>1, <1>3, <2>1, SMTT(30), ZenonT(30)
<1>8. ASSUME NEW e, Record(e), MoreCalls, disk' = disk
      PROVE  DistinctCalls(history', n) /\ DistinctCalls(disk', n)
  <2>1. calls[recorded + 1] \in Nat
    BY <1>1, <1>8, SMTT(30), ZenonT(30) DEF MoreCalls
  <2>2. QED
    BY <1>1, <1>3, <1>8, <2>1, SMTT(30), ZenonT(30) DEF Record
<1>9. CASE SkipCall \/ EarlyResult \/ \E isError \in BOOLEAN : Execute(isError)
  BY <1>1, <1>8, <1>9, ZenonT(30) DEF SkipCall, EarlyResult, Execute, ExecutingACall, MoreCalls
<1>10. ASSUME NEW failed, DispatchAndRecord(failed)
       PROVE  DistinctCalls(history', n) /\ DistinctCalls(disk', n)
  <2> DEFINE s == [k \in DOMAIN calls |-> ToolResult(calls[k])]
  <2>1. s \in Seq(Message)
    BY <1>1, MappedType, ZenonT(30)
  <2>2. \A k \in 1..Len(s) : s[k].kind # "use"
    BY <2>1 DEF ToolResult
  <2>3. history' = history \o s /\ disk' = disk
    BY <1>2, <1>10, ZenonT(30) DEF DispatchAndRecord
  <2> HIDE DEF s
  <2>4. QED
    BY <1>1, <2>1, <2>2, <2>3, NoNewCalls
<1>11. CASE EndRound
  BY <1>11, SMTT(30), ZenonT(30) DEF EndRound, SaveRound, Persist
<1>12. CASE DrainInbox
  <2>1. Head(inbox) \in Nat
    BY <1>1, <1>12 DEF DrainInbox
  <2>2. QED
    BY <1>1, <1>3, <1>12, <2>1, SMTT(30), ZenonT(30) DEF DrainInbox
<1>13. CASE CrashAndRestart
  <2>1. history' = disk /\ disk' = disk
    BY <1>13 DEF CrashAndRestart
  <2>2. QED
    BY <2>1, SMTT(30), ZenonT(30)
<1>14. ASSUME UNCHANGED <<history, disk>> PROVE DistinctCalls(history', n) /\ DistinctCalls(disk', n)
  BY <1>14, SMTT(30), ZenonT(30)
<1>15. CASE ControlThread
  BY <1>14, <1>15, SMTT(30), ZenonT(30) DEF ControlThread, Cancel, Pause, Resume, SendMessageWhileRunning
<1>16. CASE \/ HitCap \/ PassPause \/ CheckBudget \/ LlmRaises
            \/ \E at \in {"check", "hooked", "after"} : SeeCancel(at)
  BY <1>14, <1>16, ZenonT(30) DEF HitCap, PassPause, CheckBudget, LlmRaises, SeeCancel
<1>18. CASE \/ PassGate \/ GateRaises \/ InboxEmpty \/ PassSecondPause \/ NextTurn
            \/ \E verdict \in {"skip", "early", "run"} : GateNext(verdict)
  BY <1>14, <1>18 DEF PassGate, GateRaises, GateNext, InboxEmpty, PassSecondPause, NextTurn
<1>17. QED
  BY <1>4, <1>5, <1>6, <1>7, <1>9, <1>10, <1>11, <1>12, <1>13, <1>15, <1>16, <1>18, SMTT(30), ZenonT(30)
     DEF Next, RunThread

LEMMA TimesMonotone ==
  ASSUME NEW x \in Nat, NEW y \in Nat, NEW m \in Nat, x <= y
  PROVE  x * m \in Nat /\ y * m \in Nat /\ x * m <= y * m
<1>1. PICK z \in Nat : y = x + z
  <2>1. y - x \in Nat /\ y = x + (y - x)
    OBVIOUS
  <2>2. QED
    BY <2>1
<1>2. x * m \in Nat /\ z * m \in Nat /\ (x + z) * m = x * m + z * m
  OBVIOUS
<1>3. QED
  BY <1>1, <1>2

LEMMA CallsStep ==
  ASSUME IInv, MaxMessages = 0, HistoryPaired, CallsDistinct, Next
  PROVE  CallsDistinct'
<1> DEFINE b == TurnsUsed * MaxBatch
<1>1. /\ history \in Seq(Message) /\ disk \in Seq(Message)
      /\ history' \in Seq(Message) /\ disk' \in Seq(Message)
  BY HistoryStep DEF IInv, TypeOK
<1>2. b \in Nat /\ b' \in Nat /\ b <= b'
  <2>1. /\ TurnsUsed \in Nat /\ TurnsUsed' \in Nat /\ TurnsUsed <= TurnsUsed'
        /\ MaxBatch \in Nat /\ MaxBatch' = MaxBatch
    BY TurnsType, TurnsUsedGrows, LoopAssumption
  <2>2. QED
    BY <2>1, TimesMonotone, ZenonT(30)
<1>3. CASE ~\E n \in 1..MaxBatch : BeginRound(n)
  <2>1. DistinctCalls(history', b) /\ DistinctCalls(disk', b)
    BY <1>3, CallsKept DEF CallsDistinct
  <2> HIDE DEF b
  <2>2. DistinctCalls(history', b') /\ DistinctCalls(disk', b')
    BY <1>1, <1>2, <2>1, CallsBoundGrows, SMTT(30), ZenonT(30)
  <2>3. QED
    BY <2>2 DEF CallsDistinct, b
<1>4. CASE \E n \in 1..MaxBatch : BeginRound(n)
  <2>1. PICK n \in 1..MaxBatch : BeginRound(n)
    BY <1>4, SMTT(30), ZenonT(30)
  <2>2. /\ pc = "llm" /\ pc' \in {"gate", "tools"} /\ UNCHANGED <<runs, iteration, disk>>
        /\ calls' = CallIds(n) /\ history' = Add(history, AssistantCalls(CallIds(n)))
    BY <2>1 DEF BeginRound
  <2>3. b = Turn * MaxBatch /\ b' = (Turn + 1) * MaxBatch
    <3>1. TurnsUsed = Turn
      BY <2>2, SMTT(30), ZenonT(30) DEF TurnsUsed
    <3>2. TurnsUsed' = Turn + 1
      BY <2>2 DEF TurnsUsed, Turn, TurnsPerRun
    <3>3. QED
      BY <3>1, <3>2
  <2>4. CallIds(n) \in Seq(Nat)
    BY TurnType, SMTT(30), ZenonT(30) DEF IInv
  <2>5. \A k \in DOMAIN CallIds(n) : b < CallIds(n)[k] /\ CallIds(n)[k] <= b'
    BY <2>3, CallIdsFresh
  <2>6. DistinctCalls(history, b) /\ DistinctCalls(disk, b)
    BY DEF CallsDistinct
  <2>7. history' = Append(history, AssistantCalls(CallIds(n)))
    BY <2>2, NoCap, SMTT(30), ZenonT(30)
  <2> HIDE DEF b
  <2>8. DistinctCalls(history', b')
    BY <1>1, <1>2, <2>4, <2>5, <2>6, <2>7, FreshCalls, SMTT(30), ZenonT(30)
  <2>9. DistinctCalls(disk', b')
    BY <1>1, <1>2, <2>2, <2>6, CallsBoundGrows, SMTT(30), ZenonT(30)
  <2>10. QED
    BY <2>8, <2>9 DEF CallsDistinct, b
<1>5. QED
  BY <1>3, <1>4, SMTT(30), ZenonT(30)

LEMMA PairedStep ==
  ASSUME IInv, MaxMessages = 0, "gate" \notin Faults \/ MaxRuns <= 1,
         Started, CallsDistinct, HistoryPaired, Next
  PROVE  Started' /\ HistoryPaired'
<1> USE DEF Leave, routing, answer, round, shared, ghosts
<1> DEFINE Between == {"top", "check", "hooked", "llm", "drain", "wait", "after"}
           Within  == {"tools", "exec", "gate"}
           Goal    == Started' /\ HistoryPaired'
<1> SUFFICES Goal
  BY SMTT(30), ZenonT(30)
<1> HIDE DEF Goal
<1>1. /\ history \in Seq(Message) /\ disk \in Seq(Message) /\ inbox \in Seq(Nat)
      /\ calls \in Seq(Nat) /\ recorded \in 0..Len(calls) /\ ExecutingACall
      /\ runs \in Nat /\ MaxRuns \in Nat
  BY LoopAssumption DEF IInv, TypeOK
<1>2. \A h, m : EnforceCap(h) = h /\ Add(h, m) = Append(h, m)
  BY NoCap
<1>3. ASSUME NEW h \in Seq(Message), ReplayValid(h),
             NEW m, m = AssistantText \/ \E k \in Nat : m = UserTurn(k)
      PROVE  Add(h, m) \in Seq(Message) /\ ReplayValid(Add(h, m))
  <2>1. m \in Message /\ ~HasToolContent(m)
    <3>1. CASE m = AssistantText
      BY <3>1, MessageTypes, SMTT(30), ZenonT(30) DEF AssistantText, HasToolContent
    <3>2. ASSUME NEW k \in Nat, m = UserTurn(k) PROVE m \in Message /\ ~HasToolContent(m)
      BY <3>2, MessageTypes, SMTT(30), ZenonT(30) DEF UserTurn, HasToolContent
    <3>3. QED
      BY <1>3, <3>1, <3>2, SMTT(30), ZenonT(30)
  <2>2. QED
    BY <1>2, <1>3, <2>1, AddType, PlainKeepsPairing, ZenonT(30)
<1>21. /\ pc # "idle" => runs >= 1
       /\ ReplayValid(disk)
       /\ pc \in Between => ReplayValid(history)
       /\ pc = "idle" /\ runs < MaxRuns => ReplayValid(history)
       /\ pc \in Within => RoundOpen(history, calls, recorded)
       /\ pc = "gate" => recorded = 0
  BY SMTT(30), ZenonT(30) DEF Started, HistoryPaired
<1>4. ASSUME ReplayValid(history'), pc' \notin Within, pc # "idle", runs' = runs,
             disk' = disk \/ disk' = history'
      PROVE  Goal
  BY <1>4, <1>21, SMTT(30), ZenonT(30) DEF Goal, Started, HistoryPaired
<1>22. ASSUME RoundOpen(history', calls', recorded'), pc' \in Within, pc # "idle",
              UNCHANGED <<runs, disk>>, pc' = "gate" => recorded' = 0
       PROVE  Goal
  BY <1>21, <1>22, SMTT(30), ZenonT(30) DEF Goal, Started, HistoryPaired
<1>23. ASSUME UNCHANGED <<pc, history, disk, calls, recorded, runs>> PROVE Goal
  BY <1>23, SMTT(30), ZenonT(30) DEF Goal, Started, HistoryPaired
<1>24. ASSUME UNCHANGED <<history, disk, runs>>, pc \in Between, pc' \in Between \cup {"idle"}
       PROVE  Goal
  <2>1. pc # "idle" /\ pc' \notin Within
    BY <1>24, SMTT(30), ZenonT(30)
  <2>2. QED
    BY <1>4, <1>21, <1>24, <2>1, SMTT(30), ZenonT(30)
<1>5. CASE Start
  <2>1. /\ history' = history \/ history' = Add(history, UserTurn(0))
        /\ pc = "idle" /\ pc' = "top" /\ runs < MaxRuns /\ runs' = runs + 1 /\ disk' = disk
    BY <1>5, SMTT(30), ZenonT(30) DEF Start, StartRun
  <2>2. ReplayValid(history')
    BY <1>1, <1>3, <1>21, <2>1, SMTT(30), ZenonT(30)
  <2>3. runs' >= 1
    BY <1>1, <2>1
  <2>4. QED
    BY <1>21, <2>1, <2>2, <2>3, SMTT(30), ZenonT(30) DEF Goal, Started, HistoryPaired
<1>6. CASE Prepare
  <2>1. /\ disk' = disk /\ (history' = history \/ history' \in Compactions(history))
        /\ pc = "check" /\ pc' = "hooked" /\ runs' = runs
    BY <1>6, SMTT(30), ZenonT(30) DEF Prepare
  <2>2. ReplayValid(history')
    BY <1>1, <1>21, <2>1, CompactionKeepsPairing, SMTT(30), ZenonT(30) DEF CallsDistinct
  <2>3. QED
    BY <1>4, <2>1, <2>2, SMTT(30), ZenonT(30)
<1>7. CASE AnswerFailsSchema \/ AnswerRejected
  <2>1. /\ history' = Add(Add(history, AssistantText), UserTurn(0)) /\ disk' = disk
        /\ pc = "llm" /\ pc' = "top" /\ runs' = runs
    BY <1>7, ZenonT(30) DEF AnswerFailsSchema, AnswerRejected
  <2>2. ReplayValid(history')
    BY <1>1, <1>3, <1>21, <2>1, SMTT(30), ZenonT(30)
  <2>3. QED
    BY <1>4, <2>1, <2>2, SMTT(30), ZenonT(30)
<1>8. CASE AnswerRejectedForGood \/ AnswerAccepted
  <2>1. /\ history' = Add(history, AssistantText) /\ (disk' = disk \/ disk' = history')
        /\ pc = "llm" /\ pc' = "idle" /\ runs' = runs
    BY <1>8, SMTT(30), ZenonT(30) DEF AnswerRejectedForGood, AnswerAccepted, Persist
  <2>2. ReplayValid(history')
    BY <1>1, <1>3, <1>21, <2>1, SMTT(30), ZenonT(30)
  <2>3. QED
    BY <1>4, <2>1, <2>2, SMTT(30), ZenonT(30)
<1>9. ASSUME NEW n \in 1..MaxBatch, BeginRound(n) PROVE Goal
  <2>1. /\ pc = "llm" /\ pc' \in {"gate", "tools"} /\ UNCHANGED <<runs, disk>> /\ recorded' = 0
        /\ calls' = CallIds(n) /\ history' = Append(history, AssistantCalls(CallIds(n)))
    BY <1>2, <1>9 DEF BeginRound
  <2>2. CallIds(n) \in Seq(Nat)
    BY TurnType, SMTT(30), ZenonT(30) DEF IInv
  <2>3. RoundOpen(history', calls', recorded')
    BY <1>1, <1>21, <2>1, <2>2, RoundBegins, SMTT(30), ZenonT(30)
  <2>4. QED
    BY <1>22, <2>1, <2>3, SMTT(30), ZenonT(30)
<1>10. ASSUME NEW e, Record(e), MoreCalls, UNCHANGED <<disk, calls, runs>>, pc \in {"tools", "exec"},
              pc' = "tools"
       PROVE  Goal
  <2>1. /\ recorded < Len(calls) /\ recorded \in Nat /\ recorded' = recorded + 1
        /\ history' = Append(history, ToolResult(calls[recorded + 1]))
    BY <1>1, <1>2, <1>10, SMTT(30), ZenonT(30) DEF MoreCalls, Record
  <2>2. RoundOpen(history', calls', recorded')
    <3>1. RoundOpen(history, calls, recorded)
      BY <1>10, <1>21, SMTT(30), ZenonT(30)
    <3>2. QED
      BY <1>1, <1>10, <2>1, <3>1, RoundContinuesByOne, SMTT(30), ZenonT(30)
  <2>3. QED
    BY <1>10, <1>22, <2>2, SMTT(30), ZenonT(30)
<1>11. CASE SkipCall \/ EarlyResult \/ \E isError \in BOOLEAN : Execute(isError)
  BY <1>1, <1>10, <1>11, ZenonT(30) DEF SkipCall, EarlyResult, Execute, ExecutingACall, MoreCalls
<1>12. ASSUME NEW failed, DispatchAndRecord(failed) PROVE Goal
  <2> DEFINE s == [k \in DOMAIN calls |-> ToolResult(calls[k])]
  <2>1. s \in Seq(Message)
    BY <1>1, MappedType, ZenonT(30)
  <2>2. Len(s) = Len(calls) /\ \A k \in 1..Len(s) : s[k] = ToolResult(calls[0 + k])
    BY <1>1, <2>1
  <2>3. /\ history' = history \o s /\ UNCHANGED <<disk, calls, runs>> /\ recorded' = Len(calls)
        /\ pc = "gate" /\ pc' = "tools"
    BY <1>2, <1>12, ZenonT(30) DEF DispatchAndRecord
  <2>4. RoundOpen(history, calls, 0) /\ Len(calls) \in Nat
    BY <1>1, <1>21, <2>3, SMTT(30), ZenonT(30)
  <2> HIDE DEF s
  <2>5. RoundOpen(history', calls', recorded')
    <3>1. 0 + Len(s) <= Len(calls) /\ 0 + Len(s) = Len(calls)
      BY <2>2, <2>4
    <3>2. RoundOpen(history \o s, calls, 0 + Len(s))
      BY <1>1, <2>1, <2>2, <2>4, <3>1, RoundContinues, ZenonT(30)
    <3>3. QED
      BY <2>3, <3>1, <3>2, SMTT(30), ZenonT(30)
  <2>6. QED
    BY <1>22, <2>3, <2>5
<1>13. CASE EndRound
  <2>1. /\ pc = "tools" /\ UNCHANGED <<history, runs>> /\ (disk' = disk \/ disk' = history)
        /\ ~(recorded < Len(calls)) /\ pc' \in {"idle", "drain"}
    BY <1>13 DEF EndRound, SaveRound, Persist, MoreCalls
  <2>2. recorded = Len(calls)
    BY <1>1, <2>1, SMTT(30), ZenonT(30)
  <2>3. ReplayValid(history)
    BY <1>1, <1>21, <2>1, <2>2, RoundEnds, SMTT(30), ZenonT(30)
  <2>4. QED
    BY <1>4, <2>1, <2>3, SMTT(30), ZenonT(30)
<1>14. CASE DrainInbox
  <2>1. /\ history' = Add(history, UserTurn(Head(inbox))) /\ Head(inbox) \in Nat
        /\ pc = "drain" /\ UNCHANGED <<pc, runs, disk>>
    BY <1>1, <1>14, SMTT(30), ZenonT(30) DEF DrainInbox
  <2>2. ReplayValid(history')
    BY <1>1, <1>3, <1>21, <2>1, SMTT(30), ZenonT(30)
  <2>3. QED
    BY <1>4, <2>1, <2>2, SMTT(30), ZenonT(30)
<1>15. CASE CrashAndRestart
  <2>1. pc' = "idle" /\ history' = disk /\ UNCHANGED <<disk, runs>> /\ pc # "idle"
    BY <1>15, SMTT(30), ZenonT(30) DEF CrashAndRestart
  <2>2. QED
    BY <1>4, <1>21, <2>1, SMTT(30), ZenonT(30)
<1>16. CASE ControlThread
  BY <1>16, <1>23 DEF ControlThread, Cancel, Pause, Resume, SendMessageWhileRunning
<1>17. CASE \/ HitCap \/ PassPause \/ CheckBudget \/ LlmRaises \/ InboxEmpty
            \/ PassSecondPause \/ NextTurn \/ \E at \in {"check", "hooked", "after"} : SeeCancel(at)
  <2>1. UNCHANGED <<history, disk, runs>> /\ pc \in Between
    BY <1>17, ZenonT(30) DEF HitCap, PassPause, CheckBudget, LlmRaises, InboxEmpty, PassSecondPause, NextTurn,
                 SeeCancel
  <2>2. pc' \in Between \cup {"idle"}
    BY <1>17, ZenonT(30) DEF HitCap, PassPause, CheckBudget, LlmRaises, InboxEmpty, PassSecondPause, NextTurn,
                 SeeCancel
  <2>3. QED
    BY <1>24, <2>1, <2>2, SMTT(30), ZenonT(30)
<1>18. CASE GateRaises
  <2>1. /\ "gate" \in Faults /\ pc # "idle" /\ pc' = "idle"
        /\ UNCHANGED <<history, disk, runs>>
    BY <1>18, SMTT(30), ZenonT(30) DEF GateRaises
  <2>2. runs >= 1 /\ MaxRuns <= 1
    BY <1>21, <2>1
  <2>3. ~(runs' < MaxRuns)
    BY ONLY <1>1, <2>1, <2>2, SMTT(30), ZenonT(30)
  <2>4. QED
    BY <1>21, <2>1, <2>3, SMTT(30), ZenonT(30) DEF Goal, Started, HistoryPaired
<1>19. CASE PassGate \/ \E verdict \in {"skip", "early", "run"} : GateNext(verdict)
  <2>1. /\ UNCHANGED <<history, disk, runs, calls, recorded>> /\ pc \in {"tools", "gate"}
        /\ pc' = IF pc = "tools" THEN "exec" ELSE "gate"
    BY <1>19 DEF PassGate, GateNext
  <2>2. QED
    BY <1>21, <1>22, <2>1, SMTT(30), ZenonT(30)
<1>20. QED
  BY <1>5, <1>6, <1>7, <1>8, <1>9, <1>11, <1>12, <1>13, <1>14, <1>15, <1>16, <1>17, <1>18, <1>19, SMTT(30), ZenonT(30)
     DEF Next, RunThread

(***************************************************************************)
(* Every request, and whoever resumes from the store, sees a history in    *)
(* which each tool_use has its result: for all caps, batch sizes, numbers  *)
(* of runs and sequences of cancellations, crashes, correction turns,      *)
(* queued messages and compactions.  It takes a state without max_messages *)
(* (the cap may cut between a call and its result) and, where a gate may   *)
(* raise in the middle of a round, a single run (agent.py:1147).           *)
(***************************************************************************)
THEOREM HistoryAlwaysReplays ==
  ASSUME MaxMessages = 0, "gate" \notin Faults \/ MaxRuns <= 1
  PROVE  Spec => []HistoryReplayValid
<1> DEFINE PInv == IInv /\ Started /\ CallsDistinct /\ HistoryPaired
<1>1. Init => PInv
  <2> SUFFICES ASSUME Init PROVE Started /\ CallsDistinct /\ HistoryPaired
    BY InitIInv
  <2>1. history = <<>> /\ disk = <<>> /\ pc = "idle"
    BY DEF Init
  <2>2. QED
    BY <2>1, EmptyHistory DEF Started, CallsDistinct, HistoryPaired
<1>2. PInv /\ [Next]_vars => PInv'
  <2> SUFFICES ASSUME PInv, [Next]_vars PROVE PInv'
    OBVIOUS
  <2>1. IInv'
    BY LoopStep
  <2>2. CASE Next
    BY <2>1, <2>2, CallsStep, PairedStep, SMTT(30), ZenonT(30)
  <2>3. CASE UNCHANGED vars
    BY <2>1, <2>3, ZenonT(30)
       DEF vars, routing, answer, round, shared, ghosts, Started, CallsDistinct, HistoryPaired,
           TurnsUsed, Turn, TurnsPerRun
  <2>4. QED
    BY <2>2, <2>3
<1>3. HistoryPaired => HistoryReplayValid
  BY DEF HistoryPaired, HistoryReplayValid
<1>4. PInv => HistoryReplayValid
  BY <1>3, SMTT(30), ZenonT(30)
<1> HIDE DEF PInv
<1>5. QED
  BY <1>1, <1>2, <1>4, PTL DEF Spec

-----------------------------------------------------------------------------
\* The store's writes succeed and no turn is a correction turn or an answer that
\* was rejected for good; those are not saved.  A turn whose permission gate
\* raised is not saved either: no other run may follow it.
EveryTurnIsSaved ==
  /\ ~StoreFails /\ ~HasVerifier
  /\ HasSchema => SchemaRetries = 0
  /\ "gate" \notin Faults \/ MaxRuns <= 1

LEMMA UnsavedStep ==
  ASSUME IInv, EveryTurnIsSaved, Started, UnsavedCounted, Next
  PROVE  Started' /\ UnsavedCounted'
<1> USE DEF Started, UnsavedCounted, Leave, routing, answer, round, shared, ghosts
<1>1. /\ runs \in Nat /\ MaxRuns \in Nat /\ turnsUnsaved \in Nat /\ schemaLeft \in 0..SchemaRetries
      /\ pc \in PCs
  BY LoopAssumption DEF IInv, TypeOK, PCs
<1>2. ASSUME turnsUnsaved' = 0, pc' # "idle" => pc # "idle", runs' = runs
      PROVE  Started' /\ UnsavedCounted'
  BY <1>1, <1>2, SMTT(30), ZenonT(30)
<1>3. CASE Start
  <2>1. /\ pc = "idle" /\ pc' = "top" /\ runs < MaxRuns /\ runs' = runs + 1
        /\ turnsUnsaved' = turnsUnsaved
    BY <1>3 DEF Start, StartRun
  <2>2. turnsUnsaved' = 0 /\ runs' >= 1
    BY <1>1, <2>1, SMTT(30), ZenonT(30)
  <2>3. QED
    BY <2>1, <2>2, SMTT(30), ZenonT(30)
<1>4. CASE AnswerFailsSchema \/ AnswerRejectedForGood \/ AnswerRejected
  <2>1. ~HasVerifier /\ (HasSchema => ~(schemaLeft > 0))
    BY <1>1, SMTT(30), ZenonT(30) DEF EveryTurnIsSaved
  <2>2. QED
    BY <1>4, <2>1, ZenonT(30) DEF AnswerFailsSchema, AnswerRejectedForGood, AnswerRejected
<1>5. CASE AnswerAccepted
  BY <1>2, <1>5, SMTT(30), ZenonT(30) DEF AnswerAccepted, Persist, EveryTurnIsSaved
<1>6. CASE EndRound
  BY <1>2, <1>6, SMTT(30), ZenonT(30) DEF EndRound, SaveRound, Persist, EveryTurnIsSaved
<1>7. CASE CrashAndRestart
  BY <1>2, <1>7, SMTT(30), ZenonT(30) DEF CrashAndRestart
<1>8. ASSUME NEW n \in 1..MaxBatch, BeginRound(n) PROVE Started' /\ UnsavedCounted'
  BY <1>1, <1>8, SMTT(30), ZenonT(30) DEF BeginRound
<1>9. CASE GateRaises
  <2>1. "gate" \in Faults /\ pc # "idle" /\ pc' = "idle" /\ UNCHANGED <<turnsUnsaved, runs>>
    BY <1>9 DEF GateRaises
  <2>2. ~(runs' < MaxRuns)
    BY <1>1, <2>1, SMTT(30), ZenonT(30) DEF EveryTurnIsSaved
  <2>3. QED
    BY <2>1, <2>2, SMTT(30), ZenonT(30)
<1>10. CASE \/ HitCap \/ PassPause \/ Prepare \/ CheckBudget \/ LlmRaises
            \/ \E at \in {"check", "hooked", "after"} : SeeCancel(at)
  BY <1>2, <1>10, ZenonT(30) DEF HitCap, PassPause, Prepare, CheckBudget, LlmRaises, SeeCancel
<1>11. CASE SkipCall \/ EarlyResult \/ PassGate
  BY <1>11, ZenonT(30) DEF SkipCall, EarlyResult, PassGate
<1>12. CASE \/ \E isError \in BOOLEAN : Execute(isError)
            \/ \E verdict \in {"skip", "early", "run"} : GateNext(verdict)
            \/ \E failed \in SUBSET DOMAIN calls : DispatchAndRecord(failed)
  BY <1>12, Zenon DEF Execute, GateNext, DispatchAndRecord
<1>13. CASE DrainInbox \/ InboxEmpty \/ PassSecondPause \/ NextTurn
  BY <1>2, <1>13, ZenonT(30) DEF DrainInbox, InboxEmpty, PassSecondPause, NextTurn
<1>14. CASE ControlThread
  BY <1>14 DEF ControlThread, Cancel, Pause, Resume, SetPauseEvent, SendMessageWhileRunning
<1>15. QED
  BY <1>3, <1>4, <1>5, <1>6, <1>7, <1>8, <1>9, <1>10, <1>11, <1>12, <1>13, <1>14, ZenonT(30)
     DEF Next, RunThread

(***************************************************************************)
(* A crash loses at most the turn in flight (agent.py:247), for all caps,  *)
(* batch sizes and numbers of runs, where every turn is one that is saved. *)
(***************************************************************************)
THEOREM CrashAlwaysLosesOneTurn ==
  ASSUME EveryTurnIsSaved
  PROVE  Spec => []CrashLosesOneTurn
<1> DEFINE UInv == IInv /\ Started /\ UnsavedCounted
<1>1. Init => UInv
  BY InitIInv DEF Init, Started, UnsavedCounted
<1>2. UInv /\ [Next]_vars => UInv'
  <2> SUFFICES ASSUME UInv, [Next]_vars PROVE UInv'
    OBVIOUS
  <2>1. IInv'
    BY LoopStep
  <2>2. CASE Next
    BY <2>1, <2>2, UnsavedStep, SMTT(30), ZenonT(30)
  <2>3. CASE UNCHANGED vars
    BY <2>1, <2>3 DEF vars, routing, answer, round, shared, ghosts, Started, UnsavedCounted
  <2>4. QED
    BY <2>2, <2>3
<1>3. UInv => CrashLosesOneTurn
  BY DEF UnsavedCounted, CrashLosesOneTurn
<1> HIDE DEF UInv
<1>4. QED
  BY <1>1, <1>2, <1>3, PTL DEF Spec
-----------------------------------------------------------------------------
(***************************************************************************)
(* The server                                                              *)
(***************************************************************************)

Places == Accepted \cup {"new", "done"}

\* The handlers that were let in and have not left.
LetIn == {h \in Handlers : place[h] \in Accepted}

HandlersOK ==
  /\ place \in [Handlers -> Places] /\ agent \in [Handlers -> Handlers \cup {None}]
  /\ lock \in Handlers \cup {None} /\ session \in Handlers \cup {None}
  /\ stopping \in BOOLEAN

\* A slot is taken by each of them, by nobody else, and there are enough.
SlotsCounted ==
  /\ IsFiniteSet(LetIn) /\ inflight = Cardinality(LetIn)
  /\ inflight <= MaxConcurrent

\* A run that takes the lock holds it until its end.
LockHeld == \A h \in Handlers : place[h] = "running" /\ Locks(h) => lock = h

\* A plain run has an agent of its own; the cached agent and those of all other
\* runs were made for a session.
AgentsOwned ==
  /\ session # None => settings.kind[session] # "run"
  /\ \A h \in Handlers :
       /\ place[h] \in {"start", "running"} => agent[h] # None
       /\ agent[h] # None => IF settings.kind[h] = "run" THEN agent[h] = h
                                                      ELSE settings.kind[agent[h]] # "run"

\* Nobody is let in once stop() has begun.
DrainMarked ==
  /\ stopper # "off" => stopping
  /\ stopper = "done" => LetIn = {}

SInv == HandlersOK /\ SlotsCounted /\ LockHeld /\ AgentsOwned /\ DrainMarked

-----------------------------------------------------------------------------
LEMMA InitSInv == ServerInit => SInv
<1> SUFFICES ASSUME ServerInit PROVE SInv
  OBVIOUS
<1>1. HandlersOK
  BY Zenon DEF ServerInit, HandlersOK, Places
<1>2. LetIn = {}
  BY SMTT(30), ZenonT(30) DEF ServerInit, LetIn, Accepted
<1>3. SlotsCounted
  BY <1>2, FS_EmptySet, ServerAssumption, SMTT(30), ZenonT(30) DEF ServerInit, SlotsCounted
<1>4. LockHeld /\ AgentsOwned /\ DrainMarked
  BY <1>2, ZenonT(30) DEF ServerInit, LockHeld, AgentsOwned, DrainMarked
<1>5. QED
  BY <1>1, <1>3, <1>4 DEF SInv

\* A step of a handler that is neither its first nor its last leaves it among
\* those that were let in.
Moves(h) == \E w \in Accepted : place[h] \in Accepted /\ MoveTo(h, w) /\ UNCHANGED inflight

LEMMA StepMoves ==
  ASSUME NEW h \in Handlers, Handle(h)
  PROVE  Begin(h) \/ Finish(h) \/ Moves(h)
<1> USE DEF Moves, Accepted
<1>1. CASE ReadClock(h)
  BY <1>1 DEF ReadClock
<1>2. CASE Allow(h)
  <2>1. place[h] = "window" /\ (MoveTo(h, "finish") \/ MoveTo(h, "dispatch")) /\ UNCHANGED inflight
    BY <1>2, Zenon DEF Allow
  <2>2. QED
    BY <2>1, SMTT(30), ZenonT(30)
<1>3. CASE Dispatch(h)
  <2>1. /\ place[h] = "dispatch" /\ UNCHANGED inflight
        /\ MoveTo(h, "record") \/ MoveTo(h, "finish") \/ MoveTo(h, "make")
    BY <1>3, ZenonT(30) DEF Dispatch, PostRun, OpenAiCompletion, WorkspacePost, Unauthorised, BadBody,
                OpenSocket, NoFrame, ToRun, Turned
  <2>2. QED
    BY <2>1, SMTT(30), ZenonT(30)
<1>4. CASE Health(h) \/ Poll(h)
  BY <1>4, Zenon DEF Health, Poll
<1>5. CASE RecordRun(h) \/ MakeAgent(h)
  BY <1>5, Zenon DEF RecordRun, MakeAgent
<1>6. CASE FactoryRaises(h)
  <2>1. place[h] = "make" /\ (MoveTo(h, "finish") \/ MoveTo(h, "store")) /\ UNCHANGED inflight
    BY <1>6, ZenonT(30) DEF FactoryRaises
  <2>2. QED
    BY <2>1, SMTT(30), ZenonT(30)
<1>7. CASE StartAgentRun(h) \/ StoreRecord(h)
  BY <1>7, SMTT(30), ZenonT(30) DEF StartAgentRun, StoreRecord
<1>8. CASE EndHttpRun(h) \/ EndSocketRun(h)
  BY <1>8, ZenonT(30) DEF EndHttpRun, EndSocketRun
<1>9. QED
  BY <1>1, <1>2, <1>3, <1>4, <1>5, <1>6, <1>7, <1>8, ZenonT(30) DEF Handle

\* The slots: what _begin_request takes, _finish_request gives back.
LEMMA SlotsStep ==
  ASSUME SInv, NEW h \in Handlers, Handle(h)
  PROVE  place' \in [Handlers -> Places] /\ SlotsCounted' /\ (stopping => LetIn' \subseteq LetIn)
<1> USE DEF Places
<1>1. place \in [Handlers -> Places] /\ IsFiniteSet(LetIn) /\ inflight = Cardinality(LetIn)
  BY DEF SInv, HandlersOK, SlotsCounted
<1>2. MaxConcurrent \in Nat /\ Cardinality(LetIn) \in Nat
  BY <1>1, FS_CardinalityType, ServerAssumption
<1>3. inflight <= MaxConcurrent
  BY DEF SInv, SlotsCounted
<1>4. CASE Begin(h)
  <2>1. CASE Refused
    <3>1. place' = [place EXCEPT ![h] = "done"] /\ place[h] = "new" /\ inflight' = inflight
      BY <1>4, <2>1, SMTT(30), ZenonT(30) DEF Begin, MoveTo
    <3>2. place' \in [Handlers -> Places] /\ LetIn' = LetIn
      BY <1>1, <3>1, SMTT(30), ZenonT(30) DEF LetIn, Accepted
    <3>3. QED
      BY <1>1, <1>3, <3>1, <3>2, SMTT(30), ZenonT(30) DEF SlotsCounted
  <2>2. CASE ~Refused
    <3>1. PICK w \in Accepted : place' = [place EXCEPT ![h] = w]
      BY <1>4, <2>2, SMTT(30), ZenonT(30) DEF Begin, MoveTo, Accepted
    <3>2. place[h] = "new" /\ inflight' = inflight + 1 /\ ~stopping /\ ~(inflight >= MaxConcurrent)
      BY <1>4, <2>2, SMTT(30), ZenonT(30) DEF Begin, Refused
    <3>3. place' \in [Handlers -> Places] /\ LetIn' = LetIn \cup {h} /\ h \notin LetIn
      BY <1>1, <3>1, <3>2, SMTT(30), ZenonT(30) DEF LetIn, Accepted
    <3>4. /\ IsFiniteSet(LetIn \cup {h})
          /\ Cardinality(LetIn \cup {h}) = Cardinality(LetIn) + 1
      BY <1>1, <3>3, FS_AddElement, SMTT(30), ZenonT(30)
    <3>5. IsFiniteSet(LetIn') /\ inflight' = Cardinality(LetIn')
      BY <1>1, <3>2, <3>3, <3>4, ZenonT(30)
    <3>6. inflight' <= MaxConcurrent
      BY ONLY <1>1, <1>2, <3>2, SMTT(30)
    <3>7. QED
      BY <3>2, <3>3, <3>5, <3>6, ZenonT(30) DEF SlotsCounted
  <2>3. QED
    BY <2>1, <2>2, SMTT(30), ZenonT(30)
<1>5. CASE Finish(h)
  <2>1. place[h] = "finish" /\ place' = [place EXCEPT ![h] = "done"] /\ inflight' = inflight - 1
    BY <1>5, SMTT(30), ZenonT(30) DEF Finish, MoveTo
  <2>2. place' \in [Handlers -> Places] /\ LetIn' = LetIn \ {h} /\ h \in LetIn
    BY <1>1, <2>1, SMTT(30), ZenonT(30) DEF LetIn, Accepted
  <2>3. IsFiniteSet(LetIn \ {h}) /\ Cardinality(LetIn \ {h}) = Cardinality(LetIn) - 1
    BY <1>1, <2>2, FS_RemoveElement, SMTT(30), ZenonT(30)
  <2>4. IsFiniteSet(LetIn') /\ Cardinality(LetIn') = Cardinality(LetIn) - 1
    BY <2>2, <2>3, ZenonT(30)
  <2>5. inflight' <= MaxConcurrent
    BY ONLY <1>1, <1>2, <1>3, <2>1, SMTT(30)
  <2>6. inflight' = Cardinality(LetIn')
    BY <1>1, <2>1, <2>4, ZenonT(30)
  <2>7. QED
    BY <2>2, <2>4, <2>5, <2>6, ZenonT(30) DEF SlotsCounted
<1>6. CASE Moves(h)
  <2>1. PICK w \in Accepted : place[h] \in Accepted /\ place' = [place EXCEPT ![h] = w] /\ inflight' = inflight
    BY <1>6, ZenonT(30) DEF Moves, MoveTo
  <2>2. place' \in [Handlers -> Places] /\ LetIn' = LetIn
    BY <1>1, <2>1, SMTT(30), ZenonT(30) DEF LetIn
  <2>3. QED
    BY <1>1, <1>3, <2>1, <2>2 DEF SlotsCounted
<1>7. QED
  BY <1>4, <1>5, <1>6, StepMoves, SMTT(30), ZenonT(30)

\* The lock: a run that took it is the only one that did, until it ends.
LEMMA LockStep ==
  ASSUME SInv, NEW h \in Handlers, Handle(h)
  PROVE  lock' \in Handlers \cup {None} /\ LockHeld'
<1>1. /\ place \in [Handlers -> Places] /\ lock \in Handlers \cup {None} /\ None \notin Handlers
      /\ \A k \in Handlers : place[k] = "running" /\ Locks(k) => lock = k
  BY ServerAssumption DEF SInv, HandlersOK, LockHeld
<1>2. settings' = settings
  BY ZenonT(30) DEF Handle, Begin, ReadClock, Allow, Dispatch, Health, Poll, RecordRun, MakeAgent,
         FactoryRaises, StartAgentRun, EndHttpRun, EndSocketRun, StoreRecord, Finish
<1>3. \A k \in Handlers : Locks(k)' = Locks(k)
  BY <1>2, ZenonT(30) DEF Locks
<1>4. ASSUME NEW w, w # "running", MoveTo(h, w), lock' = lock
      PROVE  lock' \in Handlers \cup {None} /\ LockHeld'
  BY <1>1, <1>3, <1>4 DEF LockHeld, MoveTo
<1>5. CASE StartAgentRun(h)
  <2>1. place' = [place EXCEPT ![h] = "running"]
    BY <1>5 DEF StartAgentRun, MoveTo
  <2>2. CASE Locks(h)
    <3>1. lock = None /\ lock' = h
      BY <1>5, <2>2, SMTT(30), ZenonT(30) DEF StartAgentRun
    <3>2. \A k \in Handlers : k # h => ~(place'[k] = "running" /\ Locks(k))
      BY <1>1, <2>1, <3>1, SMTT(30), ZenonT(30)
    <3>3. QED
      BY <1>3, <3>1, <3>2, SMTT(30), ZenonT(30) DEF LockHeld
  <2>3. CASE ~Locks(h)
    <3>1. lock' = lock
      BY <1>5, <2>3, SMTT(30), ZenonT(30) DEF StartAgentRun
    <3>2. QED
      BY <1>1, <1>3, <2>1, <2>3, <3>1, SMTT(30), ZenonT(30) DEF LockHeld
  <2>4. QED
    BY <2>2, <2>3, SMTT(30), ZenonT(30)
<1>6. CASE EndHttpRun(h)
  <2>1. place[h] = "running" /\ place' = [place EXCEPT ![h] = "store"]
        /\ lock' = IF lock = h THEN None ELSE lock
    BY <1>6, SMTT(30), ZenonT(30) DEF EndHttpRun, MoveTo, FreeLock
  <2>2. QED
    BY <1>1, <1>3, <2>1, SMTT(30), ZenonT(30) DEF LockHeld
<1>7. CASE Begin(h) \/ ReadClock(h) \/ Allow(h) \/ Finish(h)
  BY <1>4, <1>7, SMTT(30), ZenonT(30) DEF Begin, ReadClock, Allow, Finish
<1>8. CASE Dispatch(h)
  BY <1>4, <1>8, Zenon DEF Dispatch, PostRun, OpenAiCompletion, WorkspacePost, Unauthorised, BadBody,
                    OpenSocket, NoFrame, ToRun, Turned
<1>9. CASE Health(h) \/ Poll(h) \/ RecordRun(h) \/ MakeAgent(h) \/ FactoryRaises(h)
  BY <1>4, <1>9, ZenonT(30) DEF Health, Poll, RecordRun, MakeAgent, FactoryRaises
<1>10. CASE EndSocketRun(h) \/ StoreRecord(h)
  BY <1>4, <1>10, ZenonT(30) DEF EndSocketRun, StoreRecord
<1>11. QED
  BY <1>5, <1>6, <1>7, <1>8, <1>9, <1>10, SMTT(30), ZenonT(30) DEF Handle

\* The agents: the cached one is replaced, never handed to a plain run.
LEMMA AgentsStep ==
  ASSUME SInv, NEW h \in Handlers, Handle(h)
  PROVE  /\ agent' \in [Handlers -> Handlers \cup {None}] /\ session' \in Handlers \cup {None}
         /\ AgentsOwned'
<1>1. /\ place \in [Handlers -> Places] /\ agent \in [Handlers -> Handlers \cup {None}]
      /\ session \in Handlers \cup {None} /\ None \notin Handlers
  BY ServerAssumption DEF SInv, HandlersOK
<1>2. settings' = settings
  BY Zenon DEF Handle, Begin, ReadClock, Allow, Dispatch, Health, Poll, RecordRun, MakeAgent,
         FactoryRaises, StartAgentRun, EndHttpRun, EndSocketRun, StoreRecord, Finish
<1>3. AgentsOwned
  BY SMTT(30), ZenonT(30) DEF SInv
<1>4. ASSUME NEW w, w \notin {"start", "running"} \/ (place[h] = "start" /\ w = "running"),
             MoveTo(h, w), agent' = agent, session' = session \/ session' = None
      PROVE  /\ agent' \in [Handlers -> Handlers \cup {None}] /\ session' \in Handlers \cup {None}
             /\ AgentsOwned'
  <2>1. place' = [place EXCEPT ![h] = w]
    BY <1>4, SMTT(30), ZenonT(30) DEF MoveTo
  <2>2. \A k \in Handlers : place'[k] \in {"start", "running"} => place[k] \in {"start", "running"}
    BY <1>1, <1>4, <2>1, SMTT(30), ZenonT(30)
  <2>3. QED
    BY <1>1, <1>2, <1>3, <1>4, <2>2, ZenonT(30) DEF AgentsOwned
<1>5. CASE MakeAgent(h)
  <2>1. place' = [place EXCEPT ![h] = "start"]
    BY <1>5, SMTT(30), ZenonT(30) DEF MakeAgent, MoveTo
  <2>2. CASE settings.kind[h] = "run"
    <3>1. agent' = [agent EXCEPT ![h] = h] /\ session' = session
      BY <1>5, <2>2, ZenonT(30) DEF MakeAgent
    <3>2. QED
      BY <1>1, <1>2, <1>3, <2>1, <2>2, <3>1, SMTT(30), ZenonT(30) DEF AgentsOwned
  <2>3. CASE settings.kind[h] # "run"
    <3>1. /\ agent' = [agent EXCEPT ![h] = session']
          /\ session' = h \/ (session' = session /\ session # None)
      BY <1>5, <2>3, ZenonT(30) DEF MakeAgent, Cached
    <3>2. session' \in Handlers /\ settings.kind[session'] # "run"
      BY <1>1, <1>3, <2>3, <3>1, ZenonT(30) DEF AgentsOwned
    <3>3. agent' \in [Handlers -> Handlers \cup {None}]
      BY <1>1, <3>1, <3>2, SMTT(30), ZenonT(30)
    <3>4. \A k \in Handlers : k # h => agent'[k] = agent[k] /\ place'[k] = place[k]
      BY <1>1, <2>1, <3>1, SMTT(30), ZenonT(30)
    <3>5. agent'[h] = session' /\ agent'[h] # None
      BY <1>1, <3>1, <3>2, SMTT(30), ZenonT(30)
    <3>6. QED
      BY <1>1, <1>2, <1>3, <2>3, <3>2, <3>3, <3>4, <3>5, SMTT(30), ZenonT(30) DEF AgentsOwned
  <2>4. QED
    BY <2>2, <2>3, ZenonT(30)
<1>6. CASE Begin(h) \/ ReadClock(h) \/ Allow(h) \/ Finish(h)
  BY <1>4, <1>6, SMTT(30), ZenonT(30) DEF Begin, ReadClock, Allow, Finish, tables
<1>7. CASE Dispatch(h)
  BY <1>4, <1>7, SMTT(30), ZenonT(30) DEF Dispatch, PostRun, OpenAiCompletion, WorkspacePost, Unauthorised, BadBody,
                    OpenSocket, NoFrame, ToRun, Turned, tables
<1>8. CASE Health(h) \/ Poll(h) \/ RecordRun(h)
  BY <1>4, <1>8, ZenonT(30) DEF Health, Poll, RecordRun, tables
<1>9. CASE FactoryRaises(h)
  BY <1>4, <1>9, ZenonT(30) DEF FactoryRaises
<1>10. CASE StartAgentRun(h) \/ EndHttpRun(h) \/ EndSocketRun(h) \/ StoreRecord(h)
  BY <1>4, <1>10, Zenon DEF StartAgentRun, EndHttpRun, EndSocketRun, StoreRecord, tables
<1>11. QED
  BY <1>5, <1>6, <1>7, <1>8, <1>9, <1>10, SMTT(30), ZenonT(30) DEF Handle

LEMMA ServerStep == SInv /\ [ServerNext]_serverVars => SInv'
<1> SUFFICES ASSUME SInv, [ServerNext]_serverVars PROVE SInv'
  OBVIOUS
<1>1. ASSUME NEW h \in Handlers, Handle(h) PROVE SInv'
  <2>1. UNCHANGED <<stopping, stopper>>
    BY <1>1, ZenonT(30) DEF Handle, Begin, ReadClock, Allow, Dispatch, Health, Poll, RecordRun, MakeAgent,
                FactoryRaises, StartAgentRun, EndHttpRun, EndSocketRun, StoreRecord, Finish
  <2>2. HandlersOK' /\ SlotsCounted'
    BY <1>1, <2>1, SlotsStep, LockStep, AgentsStep, SMTT(30), ZenonT(30) DEF SInv, HandlersOK
  <2>3. LockHeld' /\ AgentsOwned'
    BY <1>1, LockStep, AgentsStep, SMTT(30), ZenonT(30)
  <2>4. DrainMarked'
    <3>1. stopping => LetIn' \subseteq LetIn
      BY <1>1, SlotsStep, SMTT(30), ZenonT(30)
    <3>2. QED
      BY <2>1, <3>1 DEF SInv, DrainMarked
  <2>5. QED
    BY <2>2, <2>3, <2>4, SMTT(30), ZenonT(30) DEF SInv
<1>2. ASSUME UNCHANGED <<settings, lock, inflight, tables, handlers>>, DrainMarked', stopping' \in BOOLEAN
      PROVE  SInv'
  BY <1>2, ZenonT(30) DEF SInv, HandlersOK, SlotsCounted, LockHeld, AgentsOwned, LetIn, Locks, tables, handlers
<1>3. CASE Stop
  <2>1. stopping' = TRUE /\ stopper' = "drain" /\ UNCHANGED <<settings, lock, inflight, tables, handlers>>
    BY <1>3, SMTT(30), ZenonT(30) DEF Stop
  <2>2. QED
    BY <1>2, <2>1 DEF DrainMarked
<1>4. CASE Drained
  <2>1. /\ stopper = "drain" /\ stopper' = IF inflight = 0 THEN "done" ELSE "gave_up"
        /\ UNCHANGED <<settings, lock, stopping, inflight, tables, handlers>>
    BY <1>4, SMTT(30), ZenonT(30) DEF Drained
  <2>2. LetIn' = LetIn
    BY <2>1 DEF LetIn, handlers
  <2>3. inflight = 0 => LetIn = {}
    BY FS_EmptySet, ZenonT(30) DEF SInv, SlotsCounted
  <2>4. DrainMarked'
    BY <2>1, <2>2, <2>3, SMTT(30), ZenonT(30) DEF SInv, DrainMarked
  <2>5. QED
    BY <1>2, <2>1, <2>4, SMTT(30), ZenonT(30) DEF SInv, HandlersOK
<1>5. CASE ClockTicks \/ UNCHANGED serverVars
  <2>1. UNCHANGED <<settings, lock, stopping, stopper, inflight, tables, handlers>>
    BY <1>5 DEF ClockTicks, serverVars
  <2>2. LetIn' = LetIn
    BY <2>1 DEF LetIn, handlers
  <2>3. DrainMarked'
    BY <2>1, <2>2, SMTT(30), ZenonT(30) DEF SInv, DrainMarked
  <2>4. QED
    BY <1>2, <2>1, <2>3, SMTT(30), ZenonT(30) DEF SInv, HandlersOK
<1>6. QED
  BY <1>1, <1>3, <1>4, <1>5, SMTT(30), ZenonT(30) DEF ServerNext

(***************************************************************************)
(* SInv holds of every reachable state of the server: the tables, the      *)
(* session locks, the slots and the handlers of _begin_request and the     *)
(* websocket endpoint stay in agreement, whatever requests are interleaved.*)
(***************************************************************************)
THEOREM ServerInvariance == ServerSpec => []SInv
BY InitSInv, ServerStep, PTL DEF ServerSpec

(***************************************************************************)
(* Requests answered over HTTP never run on one agent at the same time     *)
(* (_run_agent, "concurrent requests cannot interleave turns on the same   *)
(* cached agent"), for any number of requests of any kind, whenever the    *)
(* cached agent expires, is replaced or cannot be made.                    *)
(***************************************************************************)
THEOREM TurnsNeverInterleave == ServerSpec => []TurnsDoNotInterleave
<1>1. SInv => TurnsDoNotInterleave
  <2> SUFFICES ASSUME SInv, NEW h \in Handlers, NEW k \in Handlers, h # k,
                      place[h] = "running", place[k] = "running",
                      settings.kind[h] \in Runs, settings.kind[k] \in Runs, agent[h] = agent[k]
               PROVE  FALSE
    BY SMTT(30), ZenonT(30) DEF TurnsDoNotInterleave
  <2>1. settings.kind[h] = "run" \/ Locks(h)
    BY SMTT(30), ZenonT(30) DEF Runs, Locks
  <2>2. settings.kind[k] = "run" \/ Locks(k)
    BY SMTT(30), ZenonT(30) DEF Runs, Locks
  <2>3. ~(Locks(h) /\ Locks(k))
    BY SMTT(30), ZenonT(30) DEF SInv, LockHeld
  <2>4. settings.kind[h] = "run" \/ settings.kind[k] = "run"
    BY <2>1, <2>2, <2>3, SMTT(30), ZenonT(30)
  <2>5. QED
    BY <2>4, SMTT(30), ZenonT(30) DEF SInv, AgentsOwned
<1>2. QED
  BY <1>1, ServerInvariance, PTL

(***************************************************************************)
(* When stop() reports a drained server nobody that was let in is still    *)
(* there, and nobody is let in after it (_begin_request, _finish_request,  *)
(* stop), for any number of requests and slots.                            *)
(***************************************************************************)
THEOREM DrainAlwaysHonoured == ServerSpec => []DrainHonoured
<1>1. SInv => DrainHonoured
  BY DEF SInv, DrainMarked, LetIn, DrainHonoured
<1>2. QED
  BY <1>1, ServerInvariance, PTL

(***************************************************************************)
(* The counter is the number of requests that were let in and have not     *)
(* left, and it never passes max_concurrent_requests: every slot that      *)
(* _begin_request takes is given back once, whatever answers on the way.   *)
(***************************************************************************)
THEOREM SlotsAlwaysCounted == ServerSpec => []SlotsCounted
BY ServerInvariance, PTL DEF SInv
=============================================================================
