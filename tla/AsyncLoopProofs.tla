--------------------------- MODULE AsyncLoopProofs ---------------------------
(***************************************************************************)
(* The asynchronous loop implements the synchronous one, whatever the      *)
(* limits, retries, budgets, batch sizes and the cap on the messages.      *)
(***************************************************************************)
EXTENDS AsyncLoop, ConversationProofs

Verdicts == {"FLASH", "MAX", "error"}

AsyncTypeOK ==
  /\ pc \in {"idle", "routing", "top", "check", "compacting", "hooked", "llm", "answered",
             "judge", "verify", "saving", "tools", "gating", "exec", "gate", "gatewait",
             "gather", "record", "drain", "wait", "after"}
  /\ history \in Seq(Message) /\ aside \in Seq(Message) /\ disk \in Seq(Message)
  /\ sticky \in BOOLEAN /\ anyError \in BOOLEAN /\ stop \in BOOLEAN /\ woken \in BOOLEAN
  /\ iteration \in Nat /\ runs \in Nat /\ spent \in Nat
  /\ inbox \in Seq(Nat)
  /\ calls \in Seq(Nat) /\ recorded \in 0..Len(calls)
  /\ gates \in Seq({"skip", "early", "run"}) /\ Len(gates) <= Len(calls)
  /\ reply \in 0..MaxBatch /\ verdict \in Verdicts

\* An answer under judgement is the last message, over the history put aside.
AnswerUnderJudgement ==
  /\ pc \in {"judge", "verify", "saving"} => history = Add(aside, AssistantText)
  /\ pc = "verify" => HasVerifier

\* The results of the first n calls of the round.
FirstResults(n) == [k \in 1..n |-> ToolResult(calls[k])]

\* What the gates decided is what the results of a batch start from.
BatchAsGated ==
  pc \in {"gather", "record"} =>
    /\ Len(gates) = Len(calls)
    /\ results \in [DOMAIN calls -> {"none", "skip", "early"} \cup ToolResults]
    /\ \A k \in DOMAIN calls :
         IF gates[k] = "run" THEN results[k] \notin {"skip", "early"} ELSE results[k] = gates[k]

\* The flags of a round are set by the results recorded in it, and by no other.
RoundFlags ==
  /\ pc \in {"gate", "gatewait", "gather"} => recorded = 0 /\ ~anyError
  /\ pc \in {"gate", "gatewait", "gather", "gating", "exec", "record"} => MoreCalls
  /\ pc \notin {"idle", "tools", "gating", "exec", "record"} => ~stop
  /\ pc = "gather" => history = aside

\* Part of a batch is recorded: one by one is the same as all at once so far.
PartlyRecorded ==
  pc = "record" =>
    /\ history = IF recorded = 0 THEN aside ELSE EnforceCap(aside \o FirstResults(recorded))
    /\ anyError <=> \E k \in 1..recorded : results[k] # "ok"
    /\ stop => HasStuckDetector /\ \E k \in 1..recorded : gates[k] # "skip"

AsyncInv ==
  /\ AsyncTypeOK /\ AnswerUnderJudgement /\ BatchAsGated /\ RoundFlags /\ PartlyRecorded

-----------------------------------------------------------------------------
LEMMA Empty ==
  /\ <<>> \in Seq(Message) /\ <<>> \in Seq(Nat) /\ <<>> \in Seq({"skip", "early", "run"})
  /\ Len(<<>>) = 0
OBVIOUS

LEMMA AsyncInit == Init => AsyncInv
<1> SUFFICES ASSUME Init PROVE AsyncInv
  OBVIOUS
<1> USE AsyncAssumption DEF Init
<1>1. spent \in Nat
  OBVIOUS
<1>2. AsyncTypeOK
  <2>1. sticky \in BOOLEAN /\ anyError \in BOOLEAN /\ stop \in BOOLEAN /\ woken \in BOOLEAN
    BY Zenon
  <2>2. QED
    BY <1>1, <2>1, Empty DEF AsyncTypeOK, Verdicts
<1>3. QED
  BY <1>2 DEF AsyncInv, AnswerUnderJudgement, BatchAsGated, RoundFlags, PartlyRecorded

\* The turn in progress has a number, and so have its calls.
LEMMA AsyncTurn ==
  ASSUME AsyncTypeOK
  PROVE  /\ Turn \in Nat
         /\ \A n \in 0..MaxBatch : CallIds(n) \in Seq(Nat) /\ Len(CallIds(n)) = n
<1> USE AsyncAssumption DEF AsyncTypeOK
<1>1. Max2(Max2(MaxCap, FlashCap), Override) + 1 \in Nat
  BY DEF Max2
<1>2. \A a, b \in Nat : a * b \in Nat
  OBVIOUS
<1>3. Turn \in Nat
  <2>1. runs * (Max2(Max2(MaxCap, FlashCap), Override) + 1) \in Nat
    BY <1>1, <1>2
  <2>2. QED
    BY <2>1, SMTT(30), ZenonT(30) DEF Turn
<1>4. Turn * MaxBatch \in Nat
  BY <1>2, <1>3, SMTT(30), ZenonT(30)
<1>5. QED
  <2>1. ASSUME NEW n \in 0..MaxBatch PROVE CallIds(n) \in Seq(Nat) /\ Len(CallIds(n)) = n
    <3>1. n \in Nat /\ \A k \in 1..n : Turn * MaxBatch + k \in Nat
      BY <1>4
    <3>2. QED
      BY <3>1 DEF CallIds
  <2>2. QED
    BY <1>3, <2>1

LEMMA AsyncTypeStep ==
  ASSUME AsyncInv, Next
  PROVE  AsyncTypeOK'
<1> USE AsyncAssumption
<1> USE DEF AsyncInv, routing, answer, round, shared, ghosts, locals, Leave
<1>1. /\ \A h \in Seq(Message) : \A n \in Nat : Add(h, UserTurn(n)) \in Seq(Message)
      /\ \A h \in Seq(Message) : \A n \in Nat : Add(h, ToolResult(n)) \in Seq(Message)
      /\ \A h \in Seq(Message) : Add(h, AssistantText) \in Seq(Message)
      /\ \A h \in Seq(Message) : \A c \in Seq(Nat) : Add(h, AssistantCalls(c)) \in Seq(Message)
  BY AddType, MessageTypes
<1>2. CASE Start
  <2> PICK m \in BOOLEAN, v \in Verdicts : Begin(m, v)
    BY <1>2 DEF Start, Classify, ToMode, ParseComplexity, Verdicts
  <2>1. stop' = FALSE /\ UNCHANGED <<sticky, anyError, woken>>
    BY DEF Begin
  <2>2. stop' \in BOOLEAN
    BY <2>1, Zenon
  <2>3. QED
    BY <1>1, <2>1, <2>2, SMTT(30), ZenonT(30) DEF Begin, AsyncTypeOK
<1>3. CASE ClassifyAndRoute
  BY <1>3 DEF ClassifyAndRoute, AsyncTypeOK, Verdicts
<1>4. CASE HitCap
  BY <1>4 DEF HitCap, AsyncTypeOK
<1>5. CASE PassPause
  BY <1>5, Zenon DEF PassPause, PauseGate, AsyncTypeOK
<1>6. CASE StartCompaction
  <2>1. aside' \in Seq(Message)
    BY <1>6, CompactionsType DEF StartCompaction, AsyncTypeOK
  <2>2. QED
    BY <1>6, <2>1 DEF StartCompaction, AsyncTypeOK
<1>7. CASE Compacted
  BY <1>7 DEF Compacted, AsyncTypeOK
<1>8. CASE CheckBudget
  BY <1>8 DEF CheckBudget, AsyncTypeOK
<1>9. ASSUME NEW at, SeeCancel(at) PROVE AsyncTypeOK'
  BY <1>9 DEF SeeCancel, AsyncTypeOK
<1>10. CASE LlmRaises
  BY <1>10 DEF LlmRaises, AsyncTypeOK
<1>11. ASSUME NEW n \in 0..MaxBatch, Respond(n) PROVE AsyncTypeOK'
  BY <1>11 DEF Respond, AsyncTypeOK
<1>12. CASE AddAnswer
  BY <1>1, <1>12, SMTT(30), ZenonT(30) DEF AddAnswer, AsyncTypeOK
<1>13. CASE FailsSchema
  BY <1>1, <1>13 DEF FailsSchema, Counted, AsyncTypeOK
<1>14. CASE PassesSchema
  BY <1>14 DEF PassesSchema, AsyncTypeOK
<1>15. CASE RejectedForGood
  BY <1>15 DEF RejectedForGood, Counted, AsyncTypeOK
<1>16. CASE Rejected
  <2>1. sticky' \in BOOLEAN
    BY <1>16, Zenon DEF Rejected, MaybeEscalate, Escalate, AsyncTypeOK
  <2>2. QED
    BY <1>1, <1>16, <2>1, SMTT(30), ZenonT(30) DEF Rejected, Counted, AsyncTypeOK
<1>17. CASE Verified
  BY <1>17 DEF Verified, AsyncTypeOK
<1>18. CASE SaveAnswer
  BY <1>18 DEF SaveAnswer, Counted, Persist, AsyncTypeOK
<1>19. CASE BeginRound
  <2>1. CallIds(reply) \in Seq(Nat) /\ Len(CallIds(reply)) = reply /\ reply \in Nat
    BY AsyncTurn DEF AsyncTypeOK
  <2>2. anyError' \in BOOLEAN
    BY <1>19, Zenon DEF BeginRound
  <2>3. history' \in Seq(Message) /\ calls' \in Seq(Nat)
    BY <1>1, <1>19, <2>1, SMTT(30), ZenonT(30) DEF BeginRound, AsyncTypeOK
  <2>4. Len(calls') = reply /\ Len(gates') = 0 /\ gates' = <<>> /\ recorded' = 0
    BY <1>19, <2>1, Empty, SMTT(30), ZenonT(30) DEF BeginRound
  <2>5. recorded' \in 0..Len(calls') /\ Len(gates') <= Len(calls')
    BY <2>1, <2>4
  <2>6. QED
    BY <1>19, <2>2, <2>3, <2>4, <2>5, Empty, SMTT(30), ZenonT(30) DEF BeginRound, Counted, AsyncTypeOK
<1>20. ASSUME Record(TRUE) \/ Record(results[recorded + 1] # "ok"), MoreCalls, UNCHANGED calls
       PROVE  /\ history' \in Seq(Message) /\ anyError' \in BOOLEAN
              /\ recorded' \in 0..Len(calls') /\ calls' \in Seq(Nat)
  <2>1. calls[recorded + 1] \in Nat
    BY <1>20, SMTT(30), ZenonT(30) DEF MoreCalls, AsyncTypeOK
  <2>2. anyError' \in BOOLEAN
    BY <1>20, Zenon DEF Record
  <2>3. history' \in Seq(Message)
    BY <1>1, <1>20, <2>1, ZenonT(30) DEF Record, AsyncTypeOK
  <2>4. recorded' = recorded + 1
    BY <1>20 DEF Record
  <2>5. QED
    BY <1>20, <2>2, <2>3, <2>4 DEF MoreCalls, AsyncTypeOK
<1>21. CASE SkipCall
  BY <1>20, <1>21, SMTT(30), ZenonT(30) DEF SkipCall, AsyncTypeOK
<1>22. CASE StartCall
  BY <1>22, SMTT(30), ZenonT(30) DEF StartCall, AsyncTypeOK
<1>23. CASE EarlyResult
  BY <1>20, <1>23, SMTT(30), ZenonT(30) DEF EarlyResult, Finished, RoundFlags, AsyncTypeOK
<1>24. CASE GateRaises
  BY <1>24 DEF GateRaises, AsyncTypeOK
<1>25. ASSUME NEW r \in ToolResults, RunTool(r) \/ RetryTransientTool(r) PROVE AsyncTypeOK'
  BY <1>25, SMTT(30), ZenonT(30) DEF RunTool, RetryTransientTool, AsyncTypeOK
<1>26. CASE FinalizeCall
  BY <1>20, <1>26 DEF FinalizeCall, Finished, RoundFlags, AsyncTypeOK
<1>27. ASSUME NEW v \in {"skip", "early", "run"}, GateNext(v) PROVE AsyncTypeOK'
  BY <1>27 DEF GateNext, AsyncTypeOK
<1>28. CASE GateDone
  BY <1>28, SMTT(30), ZenonT(30) DEF GateDone, AsyncTypeOK
<1>29. CASE Dispatch
  BY <1>29, SMTT(30), ZenonT(30) DEF Dispatch, AsyncTypeOK
<1>30. CASE Gathered
  BY <1>30, SMTT(30), ZenonT(30) DEF Gathered, AsyncTypeOK
<1>31. CASE DispatchAndRecord
  <2>1. /\ history' \in Seq(Message) /\ anyError' \in BOOLEAN
        /\ recorded' \in 0..Len(calls') /\ calls' \in Seq(Nat)
    BY <1>20, <1>31, SMTT(30), ZenonT(30) DEF DispatchAndRecord
  <2>2. stop' \in BOOLEAN
    BY <1>31 DEF DispatchAndRecord, Finished, AsyncTypeOK
  <2>3. aside' \in Seq(Message) /\ (pc' = "tools" \/ pc' = pc)
    BY <1>31, Empty, ZenonT(30) DEF DispatchAndRecord, AsyncTypeOK
  <2>4. QED
    BY <1>31, <2>1, <2>2, <2>3, SMTT(30), ZenonT(30) DEF DispatchAndRecord, AsyncTypeOK
<1>32. ASSUME NEW k, NEW r, ToolReturns(k, r) PROVE AsyncTypeOK'
  BY <1>32, SMTT(30), ZenonT(30) DEF ToolReturns, AsyncTypeOK
<1>33. CASE EndRound
  BY <1>33 DEF EndRound, Persist, AsyncTypeOK
<1>34. CASE DrainInbox
  <2>1. CASE inbox = <<>>
    BY <1>34, <2>1 DEF DrainInbox, AsyncTypeOK
  <2>2. CASE inbox # <<>>
    <3>1. Head(inbox) \in Nat /\ Tail(inbox) \in Seq(Nat)
      BY <2>2 DEF AsyncTypeOK
    <3>2. history' \in Seq(Message)
      BY <1>1, <1>34, <2>2, <3>1, ZenonT(30) DEF DrainInbox, AsyncTypeOK
    <3>3. QED
      BY <1>34, <2>2, <3>1, <3>2, ZenonT(30) DEF DrainInbox, AsyncTypeOK
  <2>3. QED
    BY <2>1, <2>2
<1>35. CASE PassSecondPause
  BY <1>35, Zenon DEF PassSecondPause, PauseGate, AsyncTypeOK
<1>36. CASE NextTurn
  <2>1. sticky' \in BOOLEAN
    BY <1>36, Zenon DEF NextTurn, MaybeEscalate, Escalate, AsyncTypeOK
  <2>2. QED
    BY <1>36, <2>1 DEF NextTurn, AsyncTypeOK
<1>37. CASE Cancel \/ Pause \/ Resume
  BY <1>37, ZenonT(30) DEF Cancel, Pause, Resume, SetPauseEvent, AsyncTypeOK
<1>38. CASE SendMessageWhileRunning
  BY <1>38, AsyncTurn DEF SendMessageWhileRunning, AsyncTypeOK
<1>39. CASE CrashAndRestart
  <2>1. /\ sticky' \in BOOLEAN /\ anyError' \in BOOLEAN
        /\ stop' \in BOOLEAN /\ woken' \in BOOLEAN
    BY <1>39, Zenon DEF CrashAndRestart
  <2>2. QED
    BY <1>39, <2>1, Empty DEF CrashAndRestart, AsyncTypeOK, Verdicts
<1>40. QED
  BY <1>2, <1>3, <1>4, <1>5, <1>6, <1>7, <1>8, <1>9, <1>10, <1>11, <1>12, <1>13, <1>14, <1>15,
     <1>16, <1>17, <1>18, <1>19, <1>21, <1>22, <1>23, <1>24, <1>25, <1>26, <1>27, <1>28, <1>29,
     <1>30, <1>31, <1>32, <1>33, <1>34, <1>35, <1>36, <1>37, <1>38, <1>39, SMTT(30), ZenonT(30)
     DEF Next, Turns, Rounds, Others

-----------------------------------------------------------------------------
\* Enforcing the cap after every message keeps what enforcing it once would.
LEMMA CapTwice ==
  ASSUME NEW h \in Seq(Message), NEW m \in Message
  PROVE  Add(EnforceCap(h), m) = Add(h, m)
<1> USE ConversationAssumption DEF Add
<1>1. CASE MaxMessages = 0 \/ Len(h) <= MaxMessages
  BY <1>1 DEF EnforceCap
<1>2. CASE MaxMessages # 0 /\ Len(h) > MaxMessages
  <2> DEFINE c == SubSeq(h, Len(h) - MaxMessages + 1, Len(h))
  <2>1. EnforceCap(h) = c /\ c \in Seq(Message) /\ Len(c) = MaxMessages
    BY <1>2 DEF EnforceCap
  <2>2. \A i \in 1..MaxMessages : c[i] = h[Len(h) - MaxMessages + i]
    BY <1>2
  <2> HIDE DEF c
  <2> DEFINE a == Append(c, m)  b == Append(h, m)
  <2>3. /\ a \in Seq(Message) /\ Len(a) = MaxMessages + 1
        /\ b \in Seq(Message) /\ Len(b) = Len(h) + 1
    BY <2>1
  <2>4. /\ \A i \in 1..MaxMessages : a[i] = c[i]
        /\ a[MaxMessages + 1] = m
        /\ \A i \in 1..Len(h) : b[i] = h[i]
        /\ b[Len(h) + 1] = m
    BY <2>1
  <2> HIDE DEF a, b
  <2>5. /\ EnforceCap(a) = SubSeq(a, 2, MaxMessages + 1)
        /\ EnforceCap(b) = SubSeq(b, Len(h) - MaxMessages + 2, Len(h) + 1)
    BY <1>2, <2>3 DEF EnforceCap
  <2>6. \A i \in 1..MaxMessages : a[i + 1] = b[Len(h) - MaxMessages + i + 1]
    <3> TAKE i \in 1..MaxMessages
    <3>1. CASE i = MaxMessages
      BY <1>2, <2>4, <3>1, SMTT(30), ZenonT(30)
    <3>2. CASE i < MaxMessages
      <4>1. i + 1 \in 1..MaxMessages /\ Len(h) - MaxMessages + i + 1 \in 1..Len(h)
        BY <1>2, <3>2, SMTT(30), ZenonT(30)
      <4>2. a[i + 1] = c[i + 1] /\ c[i + 1] = h[Len(h) - MaxMessages + (i + 1)]
        BY <2>2, <2>4, <4>1, SMTT(30), ZenonT(30)
      <4>3. b[Len(h) - MaxMessages + i + 1] = h[Len(h) - MaxMessages + i + 1]
        BY <2>4, <4>1
      <4>4. QED
        BY <4>2, <4>3
    <3>3. QED
      BY <3>1, <3>2
  <2>7. /\ SubSeq(a, 2, MaxMessages + 1) = [i \in 1..MaxMessages |-> a[i + 1]]
        /\ SubSeq(b, Len(h) - MaxMessages + 2, Len(h) + 1)
             = [i \in 1..MaxMessages |-> b[Len(h) - MaxMessages + i + 1]]
    BY <1>2, <2>3, SMTT(30), ZenonT(30)
  <2>8. EnforceCap(a) = EnforceCap(b)
    BY <2>5, <2>6, <2>7, Zenon
  <2>9. QED
    BY <2>1, <2>8 DEF a, b
<1>3. QED
  BY <1>1, <1>2

\* The results of a batch, one more.
LEMMA OneMoreResult ==
  ASSUME AsyncTypeOK, NEW n \in Nat, n < Len(calls)
  PROVE  /\ aside \o FirstResults(n) \in Seq(Message)
         /\ ToolResult(calls[n + 1]) \in Message
         /\ Append(aside \o FirstResults(n), ToolResult(calls[n + 1])) = aside \o FirstResults(n + 1)
<1>1. \A k \in 1..(n + 1) : calls[k] \in Nat
  BY SMTT(30), ZenonT(30) DEF AsyncTypeOK
<1>2. \A k \in 1..(n + 1) : ToolResult(calls[k]) \in Message
  BY <1>1, MessageTypes
<1>3. FirstResults(n) \in Seq(Message) /\ FirstResults(n + 1) \in Seq(Message)
  BY <1>2 DEF FirstResults
<1>4. Len(FirstResults(n)) = n /\ Len(FirstResults(n + 1)) = n + 1
  BY DEF FirstResults
<1>5. /\ \A k \in 1..n : FirstResults(n)[k] = ToolResult(calls[k])
      /\ \A k \in 1..(n + 1) : FirstResults(n + 1)[k] = ToolResult(calls[k])
  BY DEF FirstResults
<1>6. aside \in Seq(Message)
  BY DEF AsyncTypeOK
<1>7. ToolResult(calls[n + 1]) \in Message
  BY <1>2
<1> DEFINE a == aside \o FirstResults(n)
           b == aside \o FirstResults(n + 1)
           m == ToolResult(calls[n + 1])
<1>8. /\ a \in Seq(Message) /\ Len(a) = Len(aside) + n
      /\ b \in Seq(Message) /\ Len(b) = Len(aside) + n + 1
  BY <1>3, <1>4, <1>6
<1>9. Append(a, m) \in Seq(Message) /\ Len(Append(a, m)) = Len(b)
  BY <1>7, <1>8, SMTT(30), ZenonT(30)
<1>10. ASSUME NEW i \in 1..(Len(aside) + n + 1) PROVE Append(a, m)[i] = b[i]
  <2>1. CASE i <= Len(aside)
    BY <1>3, <1>4, <1>6, <1>8, <2>1, SMTT(30), ZenonT(30)
  <2>2. CASE i > Len(aside) /\ i <= Len(aside) + n
    <3>1. i - Len(aside) \in 1..n /\ i - Len(aside) \in 1..(n + 1)
      BY <1>6, <2>2
    <3>2. a[i] = FirstResults(n)[i - Len(aside)] /\ b[i] = FirstResults(n + 1)[i - Len(aside)]
      BY <1>3, <1>4, <1>6, <2>2, SMTT(30), ZenonT(30)
    <3>3. Append(a, m)[i] = a[i]
      BY <1>8, <2>2, <1>6
    <3>4. QED
      BY <1>5, <3>1, <3>2, <3>3, ZenonT(30)
  <2>3. CASE i = Len(aside) + n + 1
    <3>1. Append(a, m)[i] = m
      <4> HIDE DEF a, m
      <4> QED
        BY <1>8, <2>3
    <3>2. b[i] = FirstResults(n + 1)[n + 1]
      BY <1>3, <1>4, <1>6, <2>3
    <3>3. n + 1 \in 1..(n + 1)
      OBVIOUS
    <3>4. QED
      BY <1>5, <3>1, <3>2, <3>3, ZenonT(30)
  <2>4. Len(aside) \in Nat /\ i \in Nat /\ i <= Len(aside) + n + 1
    BY <1>6
  <2>5. \/ i <= Len(aside) \/ i = Len(aside) + n + 1
        \/ i > Len(aside) /\ i <= Len(aside) + n
    BY <2>4
  <2>6. QED
    BY <2>1, <2>2, <2>3, <2>5, Zenon
<1>11. Append(a, m) = b
  <2> HIDE DEF a, b, m
  <2> QED
    BY <1>8, <1>9, <1>10, SMTT(30), ZenonT(30)
<1>12. QED
  BY <1>7, <1>8, <1>11

-----------------------------------------------------------------------------
\* One step keeps what a judged answer, the gates and the flags of a round are.
LEMMA AsyncShapeStep ==
  ASSUME AsyncInv, Next
  PROVE  (AnswerUnderJudgement /\ BatchAsGated /\ RoundFlags)'
<1> USE AsyncAssumption
<1> USE DEF routing, answer, round, shared, ghosts, locals, Leave
<1> USE DEF AnswerUnderJudgement, BatchAsGated, RoundFlags, MoreCalls
<1> DEFINE Shape == AnswerUnderJudgement /\ BatchAsGated /\ RoundFlags
<1>1. AsyncTypeOK /\ Shape
  BY SMTT(30), ZenonT(30) DEF AsyncInv
<1>2. CASE Start
  <2>1. PICK m \in BOOLEAN : \E v : Begin(m, v)
    BY <1>2, SMTT(30), ZenonT(30) DEF Start
  <2>2. PICK v : Begin(m, v)
    BY <2>1, SMTT(30), ZenonT(30)
  <2>3. QED
    BY <2>2 DEF Begin
<1>3. CASE ClassifyAndRoute
  BY <1>1, <1>3, SMTT(30), ZenonT(30) DEF ClassifyAndRoute
<1>4. CASE HitCap \/ PassPause \/ StartCompaction \/ Compacted \/ CheckBudget \/ LlmRaises
  BY <1>1, <1>4, SMTT(30), ZenonT(30) DEF HitCap, PassPause, StartCompaction, Compacted, CheckBudget, LlmRaises
<1>5. ASSUME NEW at, SeeCancel(at) PROVE Shape'
  BY <1>5, ZenonT(30) DEF SeeCancel
<1>6. ASSUME NEW n \in 0..MaxBatch, Respond(n) PROVE Shape'
  BY <1>1, <1>6, ZenonT(30) DEF Respond
<1>7. CASE AddAnswer
  BY <1>1, <1>7, SMTT(30), ZenonT(30) DEF AddAnswer
<1>8. CASE FailsSchema \/ RejectedForGood \/ Rejected
  <2>1. pc' \in {"top", "idle"} /\ pc \in {"judge", "verify"} /\ UNCHANGED stop
    BY <1>8, ZenonT(30) DEF FailsSchema, RejectedForGood, Rejected
  <2>2. QED
    BY <1>1, <2>1, SMTT(30), ZenonT(30)
<1>9. CASE PassesSchema \/ Verified \/ SaveAnswer
  BY <1>1, <1>9 DEF PassesSchema, Verified, SaveAnswer
<1>10. CASE BeginRound
  <2>1. Len(calls') = reply /\ reply \in Nat
    BY <1>1, <1>10, AsyncTurn, SMTT(30), ZenonT(30) DEF BeginRound, AsyncTypeOK
  <2>2. QED
    BY <1>1, <1>10, <2>1, ZenonT(30) DEF BeginRound
<1>11. CASE SkipCall \/ StartCall \/ EarlyResult \/ GateRaises \/ FinalizeCall
  BY <1>1, <1>11, ZenonT(30) DEF SkipCall, StartCall, EarlyResult, GateRaises, FinalizeCall
<1>12. ASSUME NEW r \in ToolResults, RunTool(r) PROVE Shape'
  BY <1>1, <1>12, SMTT(30), ZenonT(30) DEF RunTool
<1>13. ASSUME NEW r \in ToolResults, RetryTransientTool(r) PROVE Shape'
  <2>1. CASE pc = "exec"
    BY <1>1, <1>13, <2>1, SMTT(30), ZenonT(30) DEF RetryTransientTool
  <2>2. CASE pc = "record"
    <3>1. recorded + 1 \in DOMAIN calls /\ results[recorded + 1] = "transient"
      BY <1>1, <1>13, SMTT(30), ZenonT(30) DEF RetryTransientTool, MayRetry, AsyncTypeOK
    <3>2. gates[recorded + 1] = "run"
      <4>1. gates[recorded + 1] \in {"skip", "early", "run"}
        BY <1>1, <2>2, <3>1, SMTT(30), ZenonT(30) DEF AsyncTypeOK
      <4>2. QED
        BY <1>1, <2>2, <3>1, <4>1, SMTT(30), ZenonT(30)
    <3>3. QED
      BY <1>1, <1>13, <2>2, <3>1, <3>2, SMTT(30), ZenonT(30) DEF RetryTransientTool, ToolResults
  <2>3. QED
    BY <1>13, <2>1, <2>2, SMTT(30), ZenonT(30) DEF RetryTransientTool
<1>14. ASSUME NEW v \in {"skip", "early", "run"}, GateNext(v) PROVE Shape'
  BY <1>1, <1>14, SMTT(30), ZenonT(30) DEF GateNext
<1>15. CASE GateDone
  BY <1>1, <1>15, SMTT(30), ZenonT(30) DEF GateDone
<1>16. CASE Dispatch
  <2>1. /\ results' \in [DOMAIN calls -> {"none", "skip", "early"} \cup ToolResults]
        /\ \A k \in DOMAIN calls :
             IF gates[k] = "run" THEN results'[k] \notin {"skip", "early"}
                                 ELSE results'[k] = gates[k]
    BY <1>1, <1>16, SMTT(30), ZenonT(30) DEF Dispatch, AsyncTypeOK
  <2>2. QED
    BY <1>1, <1>16, <2>1, SMTT(30), ZenonT(30) DEF Dispatch
<1>17. CASE Gathered
  BY <1>1, <1>17, SMTT(30), ZenonT(30) DEF Gathered
<1>18. CASE DispatchAndRecord
  <2>1. CASE recorded' = Len(calls)
    BY <1>1, <1>18, <2>1, SMTT(30), ZenonT(30) DEF DispatchAndRecord
  <2>2. CASE recorded' # Len(calls)
    BY <1>1, <1>18, <2>2, SMTT(30), ZenonT(30) DEF DispatchAndRecord, Record, AsyncTypeOK
  <2>3. QED
    BY <2>1, <2>2, SMTT(30), ZenonT(30)
<1>19. ASSUME NEW k, NEW r \in ToolResults, ToolReturns(k, r) PROVE Shape'
  <2>1. k \in DOMAIN calls /\ results[k] = "none"
    BY <1>1, <1>19, SMTT(30), ZenonT(30) DEF ToolReturns
  <2>2. gates[k] = "run"
    <3>1. pc = "gather"
      BY <1>19, SMTT(30), ZenonT(30) DEF ToolReturns
    <3>2. k \in DOMAIN gates
      BY <1>1, <2>1, <3>1, SMTT(30), ZenonT(30) DEF AsyncTypeOK
    <3>3. gates[k] \in {"skip", "early", "run"}
      BY <1>1, <3>2, SMTT(30), ZenonT(30) DEF AsyncTypeOK
    <3>4. QED
      BY <1>1, <2>1, <3>1, <3>3, SMTT(30), ZenonT(30)
  <2>3. QED
    BY <1>1, <1>19, <2>1, <2>2, SMTT(30), ZenonT(30) DEF ToolReturns, ToolResults
<1>20. CASE EndRound \/ PassSecondPause \/ NextTurn
  BY <1>1, <1>20, SMTT(30), ZenonT(30) DEF EndRound, PassSecondPause, NextTurn
<1>21. CASE DrainInbox
  BY <1>1, <1>21, ZenonT(30) DEF DrainInbox
<1>22. CASE Cancel \/ Pause \/ Resume \/ SendMessageWhileRunning
  <2>1. CASE Cancel
    BY <1>1, <2>1, SMTT(30), ZenonT(30) DEF Cancel
  <2>2. CASE Pause \/ Resume
    BY <1>1, <2>2, SMTT(30), ZenonT(30) DEF Pause, Resume
  <2>3. CASE SendMessageWhileRunning
    BY <1>1, <2>3, SMTT(30), ZenonT(30) DEF SendMessageWhileRunning
  <2>4. QED
    BY <1>22, <2>1, <2>2, <2>3, SMTT(30), ZenonT(30)
<1>23. CASE CrashAndRestart
  BY <1>23, SMTT(30), ZenonT(30) DEF CrashAndRestart
<1>24. QED
  BY <1>2, <1>3, <1>4, <1>5, <1>6, <1>7, <1>8, <1>9, <1>10, <1>11, <1>12, <1>13, <1>14, <1>15,
     <1>16, <1>17, <1>18, <1>19, <1>20, <1>21, <1>22, <1>23, ZenonT(30)
     DEF Next, Turns, Rounds, Others

\* A batch under record: the messages, and the flags its results set.
LEMMA AsyncRecordStep ==
  ASSUME AsyncInv, Next
  PROVE  PartlyRecorded'
<1> USE DEF routing, answer, round, shared, ghosts, locals, Leave
<1> SUFFICES ASSUME pc' = "record" PROVE PartlyRecorded'
  BY DEF PartlyRecorded
<1>1. AsyncTypeOK /\ BatchAsGated /\ RoundFlags /\ PartlyRecorded
  BY SMTT(30), ZenonT(30) DEF AsyncInv
<1>2. CASE Gathered
  BY <1>1, <1>2, SMTT(30), ZenonT(30) DEF Gathered, PartlyRecorded, RoundFlags
<1>3. ASSUME NEW r, RetryTransientTool(r) PROVE PartlyRecorded'
  <2>1. pc = "record" /\ \A k \in 1..recorded : results'[k] = results[k]
    BY <1>1, <1>3, SMTT(30), ZenonT(30) DEF RetryTransientTool, BatchAsGated, AsyncTypeOK
  <2>2. QED
    BY <1>1, <1>3, <2>1, SMTT(30), ZenonT(30) DEF RetryTransientTool, PartlyRecorded, FirstResults
<1>4. CASE DispatchAndRecord
  <2>1. /\ pc = "record" /\ recorded' = recorded + 1 /\ recorded + 1 < Len(calls)
        /\ UNCHANGED <<calls, gates, results, aside>>
        /\ history' = Add(history, ToolResult(calls[recorded + 1]))
        /\ anyError' = (anyError \/ results[recorded + 1] # "ok")
    BY <1>1, <1>4, SMTT(30), ZenonT(30) DEF DispatchAndRecord, Record, MoreCalls, AsyncTypeOK
  <2>2. recorded \in Nat
    BY <1>1 DEF AsyncTypeOK
  <2>3. history' = EnforceCap(aside \o FirstResults(recorded + 1))
    <3>1. /\ aside \o FirstResults(recorded) \in Seq(Message)
          /\ ToolResult(calls[recorded + 1]) \in Message
          /\ Append(aside \o FirstResults(recorded), ToolResult(calls[recorded + 1]))
               = aside \o FirstResults(recorded + 1)
      <4>1. recorded < Len(calls)
        BY <1>4 DEF DispatchAndRecord, MoreCalls
      <4>2. QED
        BY <1>1, <2>2, <4>1, OneMoreResult, ZenonT(30)
    <3>2. CASE recorded = 0
      <4>1. history = aside \o FirstResults(recorded)
        BY <1>1, <2>1, <3>2, SMTT(30), ZenonT(30) DEF PartlyRecorded, FirstResults, AsyncTypeOK
      <4>2. QED
        BY <2>1, <3>1, <4>1, ZenonT(30) DEF Add
    <3>3. CASE recorded # 0
      <4>1. history = EnforceCap(aside \o FirstResults(recorded))
        BY <1>1, <2>1, <3>3 DEF PartlyRecorded
      <4>2. history' = Add(aside \o FirstResults(recorded), ToolResult(calls[recorded + 1]))
        BY <2>1, <3>1, <4>1, CapTwice, ZenonT(30)
      <4>3. QED
        BY <3>1, <4>2, SMTT(30), ZenonT(30) DEF Add
    <3>4. QED
      BY <3>2, <3>3
  <2>4. anyError' <=> \E k \in 1..(recorded + 1) : results[k] # "ok"
    <3>1. anyError <=> \E k \in 1..recorded : results[k] # "ok"
      BY <1>1, <2>1 DEF PartlyRecorded
    <3>2. 1..(recorded + 1) = 1..recorded \cup {recorded + 1}
      BY <2>2
    <3>3. QED
      BY <2>1, <3>1, <3>2, ZenonT(30)
  <2>5. stop' => HasStuckDetector /\ \E k \in 1..(recorded + 1) : gates[k] # "skip"
    <3>1. CASE stop'  = stop
      BY <1>1, <2>1, <2>2, <3>1, SMTT(30), ZenonT(30) DEF PartlyRecorded
    <3>2. CASE stop' # stop
      <4>1. results[recorded + 1] # "skip" /\ stop' = (stop \/ HasStuckDetector)
        BY <1>4, <3>2, SMTT(30), ZenonT(30) DEF DispatchAndRecord, Finished
      <4>2. recorded + 1 \in DOMAIN calls
        BY <1>1, <2>1, <2>2, SMTT(30), ZenonT(30) DEF AsyncTypeOK
      <4>3. gates[recorded + 1] # "skip"
        BY <1>1, <2>1, <4>1, <4>2, SMTT(30), ZenonT(30) DEF BatchAsGated
      <4>4. recorded + 1 \in 1..(recorded + 1)
        BY <2>2
      <4>5. ~stop => (stop' => HasStuckDetector)
        BY <4>1, ZenonT(30)
      <4>6. stop => HasStuckDetector
        BY <1>1, <2>1, SMTT(30), ZenonT(30) DEF PartlyRecorded
      <4>7. QED
        BY <4>3, <4>4, <4>5, <4>6, SMTT(30), ZenonT(30)
    <3>3. QED
      BY <3>1, <3>2, ZenonT(30)
  <2>6. QED
    BY <2>1, <2>2, <2>3, <2>4, <2>5, SMTT(30), ZenonT(30) DEF PartlyRecorded, FirstResults
<1>5. CASE Cancel \/ Pause \/ Resume \/ SendMessageWhileRunning
  BY <1>1, <1>5, ZenonT(30) DEF Cancel, Pause, Resume, SendMessageWhileRunning, PartlyRecorded, FirstResults
<1>6. CASE Start
  BY <1>6 DEF Start, Begin
<1>7. ASSUME Turns PROVE FALSE
  BY <1>1, <1>7, ZenonT(30) DEF Turns, ClassifyAndRoute, HitCap, PassPause, StartCompaction, Compacted,
     CheckBudget, SeeCancel, LlmRaises, Respond, AddAnswer, FailsSchema, PassesSchema,
     RejectedForGood, Rejected, Verified, SaveAnswer
<1>8. CASE BeginRound \/ SkipCall \/ StartCall \/ EarlyResult \/ GateRaises \/ FinalizeCall
           \/ GateDone \/ Dispatch \/ EndRound \/ DrainInbox \/ PassSecondPause \/ NextTurn
  BY <1>8, ZenonT(30) DEF BeginRound, SkipCall, StartCall, EarlyResult, GateRaises, FinalizeCall, GateDone,
     Dispatch, EndRound, DrainInbox, PassSecondPause, NextTurn
<1>9. ASSUME NEW r, RunTool(r) \/ GateNext(r) \/ \E k \in DOMAIN calls : ToolReturns(k, r)
      PROVE  FALSE
  BY <1>9, SMTT(30), ZenonT(30) DEF RunTool, GateNext, ToolReturns
<1>10. CASE CrashAndRestart
  BY <1>10 DEF CrashAndRestart
<1>11. QED
  BY <1>2, <1>3, <1>4, <1>5, <1>6, <1>7, <1>8, <1>9, <1>10, SMTT(30), ZenonT(30) DEF Next, Rounds, Others

LEMMA AsyncStep == AsyncInv /\ [Next]_vars => AsyncInv'
<1> SUFFICES ASSUME AsyncInv, [Next]_vars PROVE AsyncInv'
  OBVIOUS
<1>1. CASE Next
  BY <1>1, AsyncTypeStep, AsyncShapeStep, AsyncRecordStep, SMTT(30), ZenonT(30) DEF AsyncInv
<1>2. CASE UNCHANGED vars
  <2> USE <1>2 DEF vars, routing, answer, round, shared, ghosts, locals
  <2>1. AsyncTypeOK'
    BY SMTT(30), ZenonT(30) DEF AsyncInv, AsyncTypeOK
  <2>2. (AnswerUnderJudgement /\ BatchAsGated /\ RoundFlags)'
    BY SMTT(30), ZenonT(30) DEF AsyncInv, AnswerUnderJudgement, BatchAsGated, RoundFlags, MoreCalls
  <2>3. PartlyRecorded'
    BY DEF AsyncInv, PartlyRecorded, FirstResults
  <2>4. QED
    BY <2>1, <2>2, <2>3, SMTT(30), ZenonT(30) DEF AsyncInv
<1>3. QED
  BY <1>1, <1>2

(***************************************************************************)
(* What AsyncAgent keeps between two of its awaits: an answer under        *)
(* judgement is the last message, a batch is recorded in call order over   *)
(* the history it began with, and its flags come from its own results.     *)
(***************************************************************************)
THEOREM AsyncInvariance == Spec => []AsyncInv
BY AsyncInit, AsyncStep, PTL DEF Spec

-----------------------------------------------------------------------------
\* Both loops keep their messages in the same ConversationState.
SameMessages ==
  /\ \A h, m : Sync!Add(h, m) = Add(h, m)
  /\ \A h : Sync!EnforceCap(h) = EnforceCap(h)
  /\ \A n : Sync!UserTurn(n) = UserTurn(n) /\ Sync!ToolResult(n) = ToolResult(n)
  /\ \A c : Sync!AssistantCalls(c) = AssistantCalls(c)
  /\ Sync!AssistantText = AssistantText

LEMMA SameConversation == SameMessages
<1> USE DEF SameMessages
<1>1. \A h : Sync!EnforceCap(h) = EnforceCap(h)
  BY DEF EnforceCap, Sync!EnforceCap
<1>2. QED
  BY <1>1 DEF Add, UserTurn, ToolResult, AssistantCalls, AssistantText,
     Sync!Add, Sync!UserTurn, Sync!ToolResult, Sync!AssistantCalls, Sync!AssistantText

\* And both compact it with the same context manager.
LEMMA SameCompaction == \A h : Sync!Compactions(h) = Compactions(h)
<1>1. \A S : Sync!Cardinality(S) = Cardinality(S)
  BY DEF Cardinality, Sync!Cardinality
<1>2. \A S : Sync!Max(S) = Max(S) /\ Sync!Min(S) = Min(S)
  BY DEF Max, Sync!Max, Min, Sync!Min
<1>3. \A h : Sync!ResultIndexes(h) = ResultIndexes(h)
  BY DEF ResultIndexes, Sync!ResultIndexes
<1>4. \A h, n : Sync!NthLastResult(h, n) = NthLastResult(h, n)
  BY <1>1, <1>3 DEF NthLastResult, Sync!NthLastResult
<1>5. \A h : Sync!Anchors(h) = Anchors(h)
  BY <1>1, <1>2, <1>3, <1>4, ZenonT(30) DEF Anchors, Sync!Anchors
<1>6. /\ \A h, c : Sync!NeededIds(h, c) = NeededIds(h, c)
      /\ \A h, c : Sync!ProvidedIds(h, c) = ProvidedIds(h, c)
  BY <1>3 DEF NeededIds, ProvidedIds, Sync!NeededIds, Sync!ProvidedIds
<1>7. \A h, s : Sync!ExpandToGroupBoundary(h, s) = ExpandToGroupBoundary(h, s)
  BY <1>2, <1>6 DEF ExpandToGroupBoundary, Sync!ExpandToGroupBoundary
<1>8. \A h : Sync!TailStarts(h) = TailStarts(h)
  BY <1>2, <1>5, <1>7, ZenonT(30) DEF TailStarts, Sync!TailStarts
<1>9. \A h, t : Sync!CutAt(h, t) = CutAt(h, t)
  BY DEF CutAt, Sync!CutAt, HasToolContent, Sync!HasToolContent, ElidedMessage, Sync!ElidedMessage
<1>10. QED
  BY <1>8, <1>9, ZenonT(30) DEF Compactions, Sync!Compactions

-----------------------------------------------------------------------------
\* The head of the loop: every step is the same step, or shows nothing.
LEMMA HeadRefines ==
  ASSUME AsyncInv,
         \/ Start \/ ClassifyAndRoute \/ HitCap \/ PassPause \/ StartCompaction \/ Compacted
         \/ CheckBudget \/ (\E at \in {"check", "hooked", "after"} : SeeCancel(at)) \/ LlmRaises
  PROVE  [Sync!Next]_(Sync!vars)
<1> USE DEF routing, answer, round, shared, ghosts, locals, Leave
<1> USE DEF Sync!routing, Sync!answer, Sync!round, Sync!shared, Sync!ghosts, Sync!Leave
<1> USE DEF ShownPc, ShownHistory, ShownMode, ShownSticky, ShownCap, ShownSpent, ShownRecorded,
            ShownAnyError, ShownStop, Judging
<1>1. AsyncTypeOK
  BY DEF AsyncInv
<1>2. ASSUME NEW m \in BOOLEAN, NEW v \in Verdicts, Begin(m, v) PROVE Sync!StartRun(m, v)
  BY <1>1, <1>2, SameConversation, SMTT(30), ZenonT(30)
     DEF SameMessages, Begin, Routed, CapOf, Sync!StartRun, Sync!ClassifyAndRoute, Sync!CapOf, AsyncTypeOK
<1>3. CASE Start
  <2> PICK m \in BOOLEAN, v \in Verdicts : Begin(m, v)
    BY <1>3 DEF Start, Classify, ToMode, ParseComplexity, Verdicts
  <2> QED
    BY <1>2, SMTT(30), ZenonT(30) DEF Sync!Next, Sync!Start, Verdicts
<1>4. CASE ClassifyAndRoute
  <2>1. UNCHANGED Sync!vars
    BY <1>1, <1>4, ZenonT(30) DEF ClassifyAndRoute, Routed, CapOf, Sync!vars, AsyncTypeOK
  <2>2. QED
    BY <2>1
<1>5. CASE HitCap
  <2>1. Sync!HitCap
    BY <1>1, <1>5, SMTT(30), ZenonT(30) DEF HitCap, Sync!HitCap, AsyncTypeOK
  <2>2. QED
    BY <2>1, SMTT(30), ZenonT(30) DEF Sync!Next, Sync!RunThread
<1>6. CASE PassPause
  <2>1. Sync!PassPause
    BY <1>1, <1>6, SMTT(30), ZenonT(30) DEF PassPause, PauseGate, Sync!PassPause, Sync!PauseGate, AsyncTypeOK
  <2>2. QED
    BY <2>1 DEF Sync!Next, Sync!RunThread
<1>7. CASE StartCompaction
  <2>1. Sync!Prepare
    BY <1>1, <1>7, SameCompaction, SMTT(30), ZenonT(30) DEF StartCompaction, Sync!Prepare, AsyncTypeOK
  <2>2. QED
    BY <2>1, SMTT(30), ZenonT(30) DEF Sync!Next, Sync!RunThread
<1>8. CASE Compacted
  <2>1. UNCHANGED Sync!vars
    BY <1>1, <1>8, SMTT(30), ZenonT(30) DEF Compacted, Sync!vars, AsyncTypeOK
  <2>2. QED
    BY <2>1
<1>9. CASE CheckBudget
  <2>1. Sync!CheckBudget
    BY <1>1, <1>9, SMTT(30), ZenonT(30) DEF CheckBudget, Sync!CheckBudget, AsyncTypeOK
  <2>2. QED
    BY <2>1 DEF Sync!Next, Sync!RunThread
<1>10. ASSUME NEW at \in {"check", "hooked", "after"}, SeeCancel(at)
       PROVE  [Sync!Next]_(Sync!vars)
  <2>1. Sync!SeeCancel(at)
    BY <1>1, <1>10, SMTT(30), ZenonT(30) DEF SeeCancel, Sync!SeeCancel, AsyncTypeOK
  <2>2. QED
    BY <2>1, SMTT(30), ZenonT(30) DEF Sync!Next, Sync!RunThread
<1>11. CASE LlmRaises
  <2>1. Sync!LlmRaises
    BY <1>1, <1>11, SMTT(30), ZenonT(30) DEF LlmRaises, Sync!LlmRaises, AsyncTypeOK
  <2>2. QED
    BY <2>1, SMTT(30), ZenonT(30) DEF Sync!Next, Sync!RunThread
<1>12. QED
  BY <1>3, <1>4, <1>5, <1>6, <1>7, <1>8, <1>9, <1>10, <1>11, SMTT(30), ZenonT(30)

\* A response and the verdict on it: the request shows when it is over.
LEMMA AnswerRefines ==
  ASSUME AsyncInv,
         \/ (\E n \in 0..MaxBatch : Respond(n)) \/ BeginRound \/ AddAnswer \/ FailsSchema
         \/ PassesSchema \/ RejectedForGood \/ Rejected \/ Verified \/ SaveAnswer
  PROVE  [Sync!Next]_(Sync!vars)
<1> USE DEF routing, answer, round, shared, ghosts, locals, Leave
<1> USE DEF Sync!routing, Sync!answer, Sync!round, Sync!shared, Sync!ghosts, Sync!Leave
<1> USE DEF ShownPc, ShownHistory, ShownMode, ShownSticky, ShownCap, ShownSpent, ShownRecorded,
            ShownAnyError, ShownStop, Judging
<1>1. AsyncTypeOK /\ AnswerUnderJudgement /\ SameMessages
  BY SameConversation DEF AsyncInv, SameMessages
<1>2. ASSUME NEW n \in 0..MaxBatch, Respond(n) PROVE [Sync!Next]_(Sync!vars)
  <2>1. UNCHANGED Sync!vars
    BY <1>1, <1>2, SMTT(30), ZenonT(30) DEF Respond, Sync!vars, AsyncTypeOK
  <2>2. QED
    BY <2>1, SMTT(30), ZenonT(30)
<1>3. CASE BeginRound
  <2>1. reply \in 1..MaxBatch
    BY <1>1, <1>3, AsyncAssumption, SMTT(30), ZenonT(30) DEF BeginRound, AsyncTypeOK
  <2>2. Sync!BeginRound(reply)
    BY <1>1, <1>3, SMTT(30), ZenonT(30) DEF BeginRound, Counted, CallIds, Turn, Max2, Sync!BeginRound, Sync!Charge,
       Sync!CallIds, Sync!Turn, Sync!TurnsPerRun, Sync!Max2, AsyncTypeOK, SameMessages
  <2>3. QED
    BY <2>1, <2>2, SMTT(30), ZenonT(30) DEF Sync!Next, Sync!RunThread
<1>4. CASE AddAnswer
  <2>1. UNCHANGED Sync!vars
    BY <1>1, <1>4, SMTT(30), ZenonT(30) DEF AddAnswer, Sync!vars, AsyncTypeOK
  <2>2. QED
    BY <2>1
<1>5. CASE FailsSchema
  <2>1. Sync!AnswerFailsSchema
    BY <1>1, <1>5, SMTT(30), ZenonT(30) DEF FailsSchema, Counted, Sync!Charge, AnswerUnderJudgement, SameMessages, Sync!AnswerFailsSchema, AsyncTypeOK
  <2>2. QED
    BY <2>1, SMTT(30), ZenonT(30) DEF Sync!Next, Sync!RunThread
<1>6. CASE PassesSchema
  <2>1. UNCHANGED Sync!vars
    BY <1>1, <1>6, SMTT(30), ZenonT(30) DEF PassesSchema, Sync!vars, AsyncTypeOK
  <2>2. QED
    BY <2>1
<1>7. CASE RejectedForGood
  <2>1. Sync!AnswerRejectedForGood
    BY <1>1, <1>7, SMTT(30), ZenonT(30) DEF RejectedForGood, Counted, Sync!Charge, AnswerUnderJudgement, SameMessages, Sync!AnswerRejectedForGood, AsyncTypeOK
  <2>2. QED
    BY <2>1 DEF Sync!Next, Sync!RunThread
<1>8. CASE Rejected
  <2>1. Sync!AnswerRejected
    BY <1>1, <1>8, SMTT(30), ZenonT(30) DEF Rejected, Counted, MaybeEscalate, Escalates, Escalate, Sync!MaybeEscalate, Sync!Charge,
       AnswerUnderJudgement, SameMessages, Sync!AnswerRejected, AsyncTypeOK
  <2>2. QED
    BY <2>1 DEF Sync!Next, Sync!RunThread
<1>9. CASE Verified
  <2>1. UNCHANGED Sync!vars
    BY <1>1, <1>9, SMTT(30), ZenonT(30) DEF Verified, Sync!vars, AsyncTypeOK
  <2>2. QED
    BY <2>1
<1>10. CASE SaveAnswer
  <2>1. Sync!AnswerAccepted
    BY <1>1, <1>10, SMTT(30), ZenonT(30) DEF SaveAnswer, Counted, Persist, Sync!Persist, Sync!Charge, AnswerUnderJudgement, SameMessages,
       Sync!AnswerAccepted, AsyncTypeOK
  <2>2. QED
    BY <2>1 DEF Sync!Next, Sync!RunThread
<1>11. QED
  BY <1>2, <1>3, <1>4, <1>5, <1>6, <1>7, <1>8, <1>9, <1>10, SMTT(30), ZenonT(30)

\* A round of calls, up to the results of a batch.
LEMMA CallRefines ==
  ASSUME AsyncInv,
         \/ SkipCall \/ StartCall \/ EarlyResult \/ GateRaises
         \/ (\E r \in ToolResults : RunTool(r) \/ RetryTransientTool(r))
         \/ FinalizeCall \/ (\E v \in {"skip", "early", "run"} : GateNext(v))
         \/ GateDone \/ Dispatch \/ Gathered
         \/ (\E k \in DOMAIN calls, r \in ToolResults : ToolReturns(k, r))
  PROVE  [Sync!Next]_(Sync!vars)
<1> USE DEF routing, answer, round, shared, ghosts, locals, Leave
<1> USE DEF Sync!routing, Sync!answer, Sync!round, Sync!shared, Sync!ghosts, Sync!Leave
<1> USE DEF ShownPc, ShownHistory, ShownMode, ShownSticky, ShownCap, ShownSpent, ShownRecorded,
            ShownAnyError, ShownStop, Judging
<1> USE DEF MoreCalls, Sync!MoreCalls, Record, Sync!Record, Finished, Sync!Finished
<1>1. AsyncTypeOK /\ RoundFlags /\ SameMessages
  BY SameConversation, SMTT(30), ZenonT(30) DEF AsyncInv, SameMessages
<1>2. CASE SkipCall
  <2>1. Sync!SkipCall
    BY <1>1, <1>2, ZenonT(30) DEF SkipCall, SameMessages, Sync!SkipCall, AsyncTypeOK
  <2>2. QED
    BY <2>1, SMTT(30), ZenonT(30) DEF Sync!Next, Sync!RunThread
<1>3. CASE StartCall
  <2>1. Sync!PassGate
    BY <1>1, <1>3 DEF StartCall, Sync!PassGate, AsyncTypeOK
  <2>2. QED
    BY <2>1 DEF Sync!Next, Sync!RunThread
<1>4. CASE EarlyResult
  <2>1. Sync!Execute(TRUE)
    BY <1>1, <1>4, ZenonT(30) DEF EarlyResult, Sync!Execute, AsyncTypeOK, SameMessages
  <2>2. QED
    BY <2>1, Zenon DEF Sync!Next, Sync!RunThread
<1>5. CASE GateRaises
  <2>1. Sync!GateRaises
    BY <1>1, <1>5, SMTT(30), ZenonT(30) DEF GateRaises, Sync!GateRaises, AsyncTypeOK
  <2>2. QED
    BY <2>1 DEF Sync!Next, Sync!RunThread
<1>6. ASSUME NEW r \in ToolResults, RunTool(r) PROVE [Sync!Next]_(Sync!vars)
  <2>1. UNCHANGED Sync!vars
    BY <1>1, <1>6, SMTT(30), ZenonT(30) DEF RunTool, Sync!vars, AsyncTypeOK
  <2>2. QED
    BY <2>1
<1>7. ASSUME NEW r \in ToolResults, RetryTransientTool(r) PROVE [Sync!Next]_(Sync!vars)
  <2>1. UNCHANGED Sync!vars
    BY <1>1, <1>7, SMTT(30), ZenonT(30) DEF RetryTransientTool, Sync!vars, AsyncTypeOK
  <2>2. QED
    BY <2>1
<1>8. CASE FinalizeCall
  <2> DEFINE isError == results[recorded + 1] # "ok"
  <2>1. Sync!Execute(isError)
    BY <1>1, <1>8, ZenonT(30) DEF FinalizeCall, Sync!Execute, AsyncTypeOK, SameMessages
  <2>2. isError \in BOOLEAN
    BY ZenonT(30)
  <2> HIDE DEF isError
  <2>3. QED
    BY <2>1, <2>2, SMTT(30), ZenonT(30) DEF Sync!Next, Sync!RunThread
<1>9. ASSUME NEW v \in {"skip", "early", "run"}, GateNext(v) PROVE [Sync!Next]_(Sync!vars)
  <2>1. Sync!GateNext(v)
    BY <1>1, <1>9, SMTT(30), ZenonT(30) DEF GateNext, Sync!GateNext, AsyncTypeOK
  <2>2. QED
    BY <2>1, SMTT(30), ZenonT(30) DEF Sync!Next, Sync!RunThread
<1>10. CASE GateDone
  <2>1. UNCHANGED Sync!vars
    BY <1>1, <1>10, SMTT(30), ZenonT(30) DEF GateDone, Sync!vars, AsyncTypeOK
  <2>2. QED
    BY <2>1, SMTT(30), ZenonT(30)
<1>11. CASE Dispatch
  <2>1. UNCHANGED Sync!vars
    BY <1>1, <1>11, SMTT(30), ZenonT(30) DEF Dispatch, Sync!vars, AsyncTypeOK
  <2>2. QED
    BY <2>1
<1>12. CASE Gathered
  <2>1. UNCHANGED Sync!vars
    BY <1>1, <1>12, SMTT(30), ZenonT(30) DEF Gathered, RoundFlags, Sync!vars, AsyncTypeOK
  <2>2. QED
    BY <2>1
<1>13. ASSUME NEW k \in DOMAIN calls, NEW r \in ToolResults, ToolReturns(k, r)
       PROVE  [Sync!Next]_(Sync!vars)
  <2>1. UNCHANGED Sync!vars
    BY <1>1, <1>13, SMTT(30), ZenonT(30) DEF ToolReturns, Sync!vars, AsyncTypeOK
  <2>2. QED
    BY <2>1, SMTT(30), ZenonT(30)
<1>14. QED
  BY <1>2, <1>3, <1>4, <1>5, <1>6, <1>7, <1>8, <1>9, <1>10, <1>11, <1>12, <1>13, SMTT(30), ZenonT(30)

\* The end of a round, and a crash.
LEMMA EndRefines ==
  ASSUME AsyncInv,
         \/ EndRound \/ DrainInbox \/ PassSecondPause \/ NextTurn \/ CrashAndRestart
  PROVE  [Sync!Next]_(Sync!vars)
<1> USE DEF routing, answer, round, shared, ghosts, locals, Leave
<1> USE DEF Sync!routing, Sync!answer, Sync!round, Sync!shared, Sync!ghosts, Sync!Leave
<1> USE DEF ShownPc, ShownHistory, ShownMode, ShownSticky, ShownCap, ShownSpent, ShownRecorded,
            ShownAnyError, ShownStop, Judging
<1>1. AsyncTypeOK /\ RoundFlags /\ SameMessages
  BY SameConversation DEF AsyncInv, SameMessages
<1>2. CASE EndRound
  <2>1. Sync!EndRound
    BY <1>1, <1>2, SMTT(30), ZenonT(30) DEF EndRound, MoreCalls, Persist, Sync!MoreCalls, Sync!SaveRound, Sync!Persist, Sync!EndRound, AsyncTypeOK
  <2>2. QED
    BY <2>1 DEF Sync!Next, Sync!RunThread
<1>3. CASE DrainInbox
  <2>1. CASE inbox = <<>>
    <3>1. Sync!InboxEmpty
      BY <1>1, <1>3, <2>1, SMTT(30), ZenonT(30) DEF DrainInbox, Sync!InboxEmpty, AsyncTypeOK
    <3>2. QED
      BY <3>1 DEF Sync!Next, Sync!RunThread
  <2>2. CASE inbox # <<>>
    <3>1. Sync!DrainInbox
      BY <1>1, <1>3, <2>2, SMTT(30), ZenonT(30) DEF DrainInbox, Sync!DrainInbox, AsyncTypeOK, SameMessages
    <3>2. QED
      BY <3>1, SMTT(30), ZenonT(30) DEF Sync!Next, Sync!RunThread
  <2>3. QED
    BY <2>1, <2>2, SMTT(30), ZenonT(30)
<1>4. CASE PassSecondPause
  <2>1. Sync!PassSecondPause
    BY <1>1, <1>4, SMTT(30), ZenonT(30) DEF PassSecondPause, PauseGate, Sync!PauseGate, Sync!PassSecondPause, AsyncTypeOK
  <2>2. QED
    BY <2>1 DEF Sync!Next, Sync!RunThread
<1>5. CASE NextTurn
  <2>1. Sync!NextTurn
    BY <1>1, <1>5 DEF NextTurn, MaybeEscalate, Escalates, Escalate, Sync!MaybeEscalate, Sync!NextTurn, AsyncTypeOK
  <2>2. QED
    BY <2>1 DEF Sync!Next, Sync!RunThread
<1>6. CASE CrashAndRestart
  <2>1. Sync!CrashAndRestart
    BY <1>1, <1>6 DEF CrashAndRestart, CapOf, Sync!CapOf, Sync!CrashAndRestart, AsyncTypeOK
  <2>2. QED
    BY <2>1, SMTT(30), ZenonT(30) DEF Sync!Next
<1>7. QED
  BY <1>2, <1>3, <1>4, <1>5, <1>6, SMTT(30), ZenonT(30)

\* The control calls: whatever they meet, they show, and nothing else does.
LEMMA ControlRefines ==
  ASSUME AsyncInv, Cancel \/ Pause \/ Resume \/ SendMessageWhileRunning
  PROVE  [Sync!Next]_(Sync!vars)
<1> USE DEF routing, answer, round, shared, ghosts, locals
<1> USE DEF Sync!routing, Sync!answer, Sync!round, Sync!shared, Sync!ghosts
<1>1. UNCHANGED <<ShownPc, ShownHistory, ShownMode, ShownSticky, ShownCap, ShownSpent,
                  ShownRecorded, ShownAnyError, ShownStop>>
  <2>1. UNCHANGED <<pc, history, aside, mode, sticky, cap, verdict, spent, recorded, anyError, stop>>
    BY DEF Cancel, Pause, Resume, SendMessageWhileRunning
  <2>2. QED
    BY <2>1, SMTT(30), ZenonT(30) DEF ShownPc, ShownHistory, ShownMode, ShownSticky, ShownCap, ShownSpent, ShownRecorded,
       ShownAnyError, ShownStop, Judging, Routed, CapOf
<1>2. ASSUME SetPauseEvent PROVE Sync!SetPauseEvent
  <2>1. Waiting => Sync!Waiting
    BY DEF Waiting, Sync!Waiting, ShownPc, ShownCap, Judging
  <2>2. woken \in BOOLEAN /\ Waiting \in BOOLEAN /\ Sync!Waiting \in BOOLEAN
    BY DEF AsyncInv, AsyncTypeOK, Waiting, Sync!Waiting
  <2>3. (woken \/ Waiting) \in {woken, woken \/ Sync!Waiting}
    BY <2>1, <2>2
  <2>4. QED
    BY <1>2, <2>3 DEF SetPauseEvent, Sync!SetPauseEvent
<1>3. CASE Cancel
  <2>1. Sync!Cancel
    BY <1>1, <1>2, <1>3, SMTT(30), ZenonT(30) DEF Cancel, Sync!Cancel
  <2>2. QED
    BY <2>1, SMTT(30), ZenonT(30) DEF Sync!Next, Sync!ControlThread
<1>4. CASE Pause
  <2>1. Sync!Pause
    BY <1>1, <1>4 DEF Pause, Sync!Pause
  <2>2. QED
    BY <2>1, SMTT(30), ZenonT(30) DEF Sync!Next, Sync!ControlThread
<1>5. CASE Resume
  <2>1. Sync!Resume
    BY <1>1, <1>2, <1>5, SMTT(30), ZenonT(30) DEF Resume, Sync!Resume
  <2>2. QED
    BY <2>1, SMTT(30), ZenonT(30) DEF Sync!Next, Sync!ControlThread
<1>6. CASE SendMessageWhileRunning
  <2>1. Sync!Turn = Turn
    BY SMTT(30), ZenonT(30) DEF Turn, Max2, Sync!Turn, Sync!TurnsPerRun, Sync!Max2
  <2>2. Sync!SendMessageWhileRunning
    BY <1>1, <1>6, <2>1, SMTT(30), ZenonT(30) DEF SendMessageWhileRunning, Sync!SendMessageWhileRunning
  <2>3. QED
    BY <2>2 DEF Sync!Next, Sync!ControlThread
<1>7. QED
  BY <1>3, <1>4, <1>5, <1>6, SMTT(30), ZenonT(30)

\* The results of a batch: the last of them shows them all.
LEMMA BatchRefines ==
  ASSUME AsyncInv, DispatchAndRecord
  PROVE  [Sync!Next]_(Sync!vars)
<1> USE DEF routing, answer, round, shared, ghosts, locals
<1> USE DEF Sync!routing, Sync!answer, Sync!round, Sync!shared, Sync!ghosts
<1>1. /\ AsyncTypeOK /\ BatchAsGated /\ PartlyRecorded
      /\ SameMessages /\ pc = "record" /\ recorded < Len(calls)
  BY SameConversation, SMTT(30), ZenonT(30) DEF AsyncInv, DispatchAndRecord, MoreCalls
<1>2. /\ recorded \in Nat /\ recorded + 1 \in DOMAIN calls /\ DOMAIN gates = DOMAIN calls
      /\ DOMAIN calls = 1..Len(calls)
  BY <1>1 DEF AsyncTypeOK, BatchAsGated
<1>3. CASE recorded' # Len(calls)
  <2>1. UNCHANGED Sync!vars
    BY <1>1, <1>3, SMTT(30), ZenonT(30) DEF DispatchAndRecord, Record, Sync!vars, ShownPc, ShownHistory, ShownMode,
       ShownSticky, ShownCap, ShownSpent, ShownRecorded, ShownAnyError, ShownStop, Judging
  <2>2. QED
    BY <2>1
<1>4. CASE recorded' = Len(calls)
  <2> DEFINE failed == {k \in DOMAIN gates : gates[k] = "run" /\ results[k] # "ok"}
  <2>1. /\ recorded' = recorded + 1 /\ recorded + 1 = Len(calls) /\ pc' = "tools"
        /\ history' = Add(history, ToolResult(calls[recorded + 1]))
        /\ anyError' = (anyError \/ results[recorded + 1] # "ok")
    BY <1>4, SMTT(30), ZenonT(30) DEF DispatchAndRecord, Record
  <2>2. history' = EnforceCap(aside \o [k \in DOMAIN calls |-> ToolResult(calls[k])])
    <3>1. /\ aside \o FirstResults(recorded) \in Seq(Message)
          /\ ToolResult(calls[recorded + 1]) \in Message
          /\ Append(aside \o FirstResults(recorded), ToolResult(calls[recorded + 1]))
               = aside \o FirstResults(recorded + 1)
      BY <1>1, <1>2, OneMoreResult, ZenonT(30)
    <3>2. history' = Add(aside \o FirstResults(recorded), ToolResult(calls[recorded + 1]))
      <4>1. CASE recorded = 0
        BY <1>1, <2>1, <4>1, SMTT(30), ZenonT(30) DEF PartlyRecorded, FirstResults, AsyncTypeOK
      <4>2. CASE recorded # 0
        BY <1>1, <2>1, <3>1, <4>2, CapTwice, ZenonT(30) DEF PartlyRecorded
      <4>3. QED
        BY <4>1, <4>2, SMTT(30), ZenonT(30)
    <3>3. FirstResults(recorded + 1) = [k \in DOMAIN calls |-> ToolResult(calls[k])]
      BY <1>2, <2>1, ZenonT(30) DEF FirstResults
    <3>4. QED
      BY <3>1, <3>2, <3>3 DEF Add
  <2>3. anyError' = (failed # {} \/ \E k \in DOMAIN gates : gates[k] # "run")
    <3>1. anyError <=> \E k \in 1..recorded : results[k] # "ok"
      BY <1>1, SMTT(30), ZenonT(30) DEF PartlyRecorded
    <3>2. DOMAIN calls = 1..recorded \cup {recorded + 1}
      BY <1>2, <2>1
    <3>3. anyError' = (\E k \in DOMAIN calls : results[k] # "ok")
      BY <2>1, <3>1, <3>2, ZenonT(30)
    <3>4. \A k \in DOMAIN calls : gates[k] # "run" => results[k] # "ok"
      <4>1. \A k \in DOMAIN calls : gates[k] \in {"skip", "early", "run"}
        BY <1>1, <1>2 DEF AsyncTypeOK
      <4>2. QED
        BY <1>1, <4>1, SMTT(30), ZenonT(30) DEF BatchAsGated
    <3>5. QED
      BY <1>2, <3>3, <3>4, ZenonT(30)
  <2>4. IF \E k \in DOMAIN gates : gates[k] # "skip"
        THEN stop' \in {FALSE, FALSE \/ HasStuckDetector} ELSE stop' = FALSE
    <3>1. stop => HasStuckDetector /\ \E k \in DOMAIN gates : gates[k] # "skip"
      BY <1>1, <1>2 DEF PartlyRecorded
    <3>2. CASE stop' = stop
      BY <1>1, <3>1, <3>2, AsyncAssumption, ZenonT(30) DEF AsyncTypeOK
    <3>3. CASE stop' # stop
      <4>1. results[recorded + 1] # "skip" /\ stop' = (stop \/ HasStuckDetector)
        BY <3>3, SMTT(30), ZenonT(30) DEF DispatchAndRecord, Finished
      <4>2. gates[recorded + 1] # "skip"
        BY <1>1, <1>2, <4>1 DEF BatchAsGated
      <4>3. stop' \in {FALSE, FALSE \/ HasStuckDetector}
        BY <3>1, <4>1, AsyncAssumption, ZenonT(30)
      <4>4. QED
        BY <1>2, <4>2, <4>3, ZenonT(30)
    <3>4. QED
      BY <3>2, <3>3, ZenonT(30)
  <2>5. failed \subseteq {k \in DOMAIN gates : gates[k] = "run"} /\ failed \in SUBSET DOMAIN calls
    BY <1>2
  <2> HIDE DEF failed
  <2>6. Sync!DispatchAndRecord(failed)
    <3>1. /\ ShownPc = "gate" /\ ShownHistory = aside /\ ShownStop = FALSE
          /\ ShownPc' = "tools" /\ ShownHistory' = history' /\ ShownRecorded' = recorded'
          /\ ShownAnyError' = anyError' /\ ShownStop' = stop'
      BY <1>1, <2>1, <2>3, <2>4, AsyncAssumption, ZenonT(30)
         DEF ShownPc, ShownHistory, ShownStop, ShownRecorded, ShownAnyError, Judging
    <3>2. UNCHANGED <<ShownMode, ShownSticky, ShownCap, ShownSpent>>
      BY <1>1, <2>1, SMTT(30), ZenonT(30) DEF DispatchAndRecord, ShownMode, ShownSticky, ShownCap, ShownSpent, Judging,
         AsyncTypeOK
    <3>3. Len(gates) = Len(calls)
      BY <1>1, SMTT(30), ZenonT(30) DEF BatchAsGated
    <3>4. ShownHistory' = Sync!EnforceCap(ShownHistory \o [k \in DOMAIN calls |-> Sync!ToolResult(calls[k])])
      BY <1>1, <2>2, <3>1, SMTT(30), ZenonT(30) DEF SameMessages
    <3>5. QED
      BY <1>4, <2>3, <2>4, <2>5, <3>1, <3>2, <3>3, <3>4, ZenonT(30)
         DEF DispatchAndRecord, Sync!DispatchAndRecord, Sync!Finished
  <2>7. QED
    BY <2>5, <2>6, ZenonT(30) DEF Sync!Next, Sync!RunThread
<1>5. QED
  BY <1>3, <1>4, SMTT(30), ZenonT(30)

-----------------------------------------------------------------------------
LEMMA InitRefines == Init => Sync!Init
<1> SUFFICES ASSUME Init PROVE Sync!Init
  OBVIOUS
<1>1. /\ ShownPc = "idle" /\ ShownHistory = <<>> /\ ShownMode = "MAX" /\ ShownCap = cap
      /\ ShownSpent = spent /\ ShownRecorded = 0
  BY DEF Init, ShownPc, ShownHistory, ShownMode, ShownCap, ShownSpent, ShownRecorded, Judging
<1>2. ShownSticky = FALSE /\ ShownAnyError = FALSE /\ ShownStop = FALSE
  BY Zenon DEF Init, ShownSticky, ShownAnyError, ShownStop
<1>3. QED
  BY <1>1, <1>2 DEF Init, CapOf, Sync!Init, Sync!CapOf

LEMMA StepRefines == AsyncInv /\ [Next]_vars => [Sync!Next]_(Sync!vars)
<1> SUFFICES ASSUME AsyncInv, [Next]_vars PROVE [Sync!Next]_(Sync!vars)
  BY SMTT(30), ZenonT(30)
<1>1. CASE Next
  BY <1>1, HeadRefines, AnswerRefines, CallRefines, BatchRefines, EndRefines, ControlRefines, SMTT(30), ZenonT(30)
     DEF Next, Turns, Rounds, Others
<1>2. CASE UNCHANGED vars
  <2>1. UNCHANGED <<ShownPc, ShownHistory, ShownMode, ShownSticky, ShownCap, ShownSpent,
                    ShownRecorded, ShownAnyError, ShownStop>>
    BY <1>2, SMTT(30), ZenonT(30) DEF vars, routing, round, locals, ShownPc, ShownHistory, ShownMode, ShownSticky,
       ShownCap, ShownSpent, ShownRecorded, ShownAnyError, ShownStop, Judging, Routed, CapOf
  <2>2. UNCHANGED Sync!vars
    BY <1>2, <2>1 DEF vars, routing, answer, round, shared, ghosts, Sync!vars, Sync!routing,
       Sync!answer, Sync!round, Sync!shared, Sync!ghosts
  <2>3. QED
    BY <2>2
<1>3. QED
  BY <1>1, <1>2

(***************************************************************************)
(* AsyncAgent.run does nothing Agent.run could not do: whatever comes at   *)
(* an await (a cancel(), a pause(), a queued message, a crash), the        *)
(* history, the store, the routing, the budget and the outcome move as in  *)
(* the synchronous loop, for every limit, retry count, batch size and cap  *)
(* on the messages.                                                        *)
(***************************************************************************)
THEOREM AsyncImplementsSync == Spec => ImplementsSync
<1>1. Init => Sync!Init
  BY InitRefines
<1>2. AsyncInv /\ [Next]_vars => [Sync!Next]_(Sync!vars)
  BY StepRefines
<1>3. QED
  BY <1>1, <1>2, AsyncInvariance, PTL DEF Spec, ImplementsSync, Sync!Spec
=============================================================================
