-------------------------- MODULE ConfirmationProofs --------------------------
(***************************************************************************)
(* Theorems about Confirmation, for every policy, every set of hooks and   *)
(* any number of calls and resumes, of one checkpoint or of several: what  *)
(* runs was allowed or approved, without a crash nothing runs twice unless *)
(* a checkpoint is resumed twice, and the conversation a resumed agent     *)
(* sends is one a provider accepts.                                        *)
(***************************************************************************)
EXTENDS Confirmation, ConversationProofs

-----------------------------------------------------------------------------
(* The inductive invariants *)

\* "none" stands for the arguments of a call nobody has requested.
Argument == Inputs \cup {"none"}
Request  == [call : Ids, arguments : Argument, epoch : Nat]
Checkpoint == [pending : Request, remaining : Seq(Ids)]
Timeline == [snapshot : Seq(Message) \cup {None}, runtime : {None} \cup Checkpoint]

\* From the pause to the verdict a call is pending.
SecondSave == {"snapshot2", "runtime2", "paused", "resolve"}
Awaiting   == {"snapshot1", "runtime1", "bookkeeping"} \cup SecondSave

ConfirmTypes ==
  /\ setup \in Setups /\ pc \in PCs /\ crashed \in {"never", "clean", "torn"}
  /\ history \in Seq(Message)
  /\ batch \in Seq(Ids) /\ gated \in Seq(Ids) /\ remaining \in Seq(Ids)
  /\ pending \in {None} \cup Request /\ (pc \in Awaiting => pending \in Request)
  /\ store \in Timeline /\ cache \in Timeline
  /\ issued \in 0..MaxCalls /\ inputs \in [Ids -> Argument]
  /\ executed \in [Ids -> Seq(Argument)]
  /\ resumes \in Nat /\ taken \in SUBSET Nat /\ repeats \in [Ids -> Nat]

\* What is pending, in the agent or in a checkpoint, the policy wants confirmed.
Questions == {a \in Argument : Check(a) = "confirm"}

HoldsQuestion(timeline) ==
  timeline.runtime # None => timeline.runtime.pending.arguments \in Questions

AsksForConfirmation ==
  /\ pc \in Awaiting => pending.arguments \in Questions
  /\ HoldsQuestion(store) /\ HoldsQuestion(cache)

VettedInv == ConfirmTypes /\ AsksForConfirmation /\ NoUnapprovedExecution

\* The calls of the round that have no result yet.
Todo == IF pc \in SecondSave THEN Left(Runtime) ELSE gated \o batch

Ascending(s) == \A j, k \in DOMAIN s : j < k => s[j] < s[k]

\* A history whose last round lacks the results of the calls s.
OpenFor(h, s) ==
  \E u \in DOMAIN h :
    LET ids == h[u].ids
        r   == Len(h) - u
    IN  /\ RoundOpen(h, ids, r) /\ r + Len(s) = Len(ids)
        /\ \A k \in DOMAIN s : ids[r + k] = s[k]

Resumable(h, t) == Ascending(Left(t)) /\ OpenFor(h, Left(t))

\* Where the gated calls are, and which call of the round is pending.
RoundShape ==
  /\ pc \in SecondSave \/ ~setup.parallel => gated = <<>>
  /\ pc = "llm" => gated = <<>> /\ batch = <<>>
  /\ pc \in Awaiting \ SecondSave => batch # <<>> /\ pending.call = Head(batch)

\* Two writes make the checkpoint; once they are done, it is what the agent is.
CheckpointWritten ==
  /\ pc \in {"runtime2", "paused"} => store.snapshot = history
  /\ pc = "paused" => store.runtime = Runtime

\* A timeline with no checkpoint but one a run has gone on from.
Spent(timeline) == timeline.runtime # None => timeline.runtime.pending.epoch \in taken

\* What a recorder has cached is spent, and outside a pause so is the store.
SpentInv ==
  /\ Spent(cache)
  /\ pc \in {"llm", "gate", "resolve", "ended", "snapshot1", "runtime1"} => Spent(store)

\* While no checkpoint is being written, the store holds a whole one, unless a
\* recorder put a newer snapshot before one that is spent.
StoreWhole ==
  pc \notin CheckpointWindow /\ Restorable /\ ~(setup.recorder /\ Spent(store))
    => Resumable(store.snapshot, store.runtime)

\* No crash came between the writes of a checkpoint, and no agent with a recorder
\* went on from a spent one.
Trusted == crashed # "torn" /\ ~(setup.recorder /\ Repeated)

HistoryInv ==
  /\ RoundShape /\ CheckpointWritten
  /\ pc = "down" => crashed # "never"
  /\ Trusted =>
       /\ StoreWhole
       /\ pc = "llm" => ReplayValid(history)
       /\ pc \in Awaiting \cup {"gate"} => Ascending(Todo) /\ OpenFor(history, Todo)

\* The calls of a sequence were requested, and have run only as often as they
\* were repeated.
Fresh(s) == \A k \in DOMAIN s : s[k] <= issued /\ Len(executed[s[k]]) <= repeats[s[k]]

\* Without a crash, no call of the round that waits for its result has run.
OnceInv ==
  crashed = "never" =>
    /\ ExecutedAtMostOnce
    /\ \A c \in Ids : c > issued => executed[c] = <<>>
    /\ pc \notin {"ended", "down"} => Ascending(Todo) /\ Fresh(Todo)

\* The calls a checkpoint has left were requested, in their order.
Known(timeline) ==
  timeline.runtime # None =>
    /\ Ascending(Left(timeline.runtime))
    /\ \A k \in DOMAIN Left(timeline.runtime) : Left(timeline.runtime)[k] <= issued

KnownInv ==
  crashed = "never" =>
    /\ Known(store) /\ Known(cache)
    /\ pc \notin SecondSave => remaining = <<>>

-----------------------------------------------------------------------------
(* Types *)

LEMMA IdsType == Ids \in SUBSET Nat /\ Seq(Ids) \in SUBSET Seq(Nat)
BY ConfirmationAssumption DEF Ids

LEMMA ResultsType ==
  ASSUME NEW s \in Seq(Ids)
  PROVE  /\ Results(s) \in Seq(Message) /\ Len(Results(s)) = Len(s)
         /\ \A k \in DOMAIN s : Results(s)[k] = ToolResult(s[k])
<1> DEFINE n == Len(s)
<1>1. n \in Nat /\ DOMAIN s = 1..n /\ \A k \in 1..n : s[k] \in Nat
  BY IdsType
<1>2. \A k \in 1..n : ToolResult(s[k]) \in Message
  BY <1>1, MessageTypes
<1> HIDE DEF n
<1>3. [k \in 1..n |-> ToolResult(s[k])] \in Seq(Message)
  BY <1>1, <1>2
<1>4. Results(s) = [k \in 1..n |-> ToolResult(s[k])]
  BY <1>1 DEF Results
<1>5. QED
  BY <1>1, <1>3, <1>4 DEF n

\* The policy does not change.
LEMMA QuestionsKept ==
  ASSUME setup' = setup
  PROVE  /\ \A a : Check(a)' = Check(a)
         /\ Questions' = Questions
<1>1. ASSUME NEW a PROVE RuleBased(a)' = RuleBased(a)
  <2> DEFINE hits == {k \in DOMAIN setup.rules : Matches(setup.rules[k], a)}
  <2>1. hits' = hits
    BY DEF Matches
  <2>2. RuleBased(a) = IF hits = {} THEN "denied" ELSE setup.rules[Min(hits)].decision
    BY DEF RuleBased
  <2>3. RuleBased(a)' = IF hits' = {} THEN "denied" ELSE setup'.rules[Min(hits')].decision
    BY DEF RuleBased
  <2> HIDE DEF hits
  <2>4. QED
    BY <2>1, <2>2, <2>3
<1>2. \A a : Check(a)' = Check(a)
  BY <1>1 DEF Check, AllowList
<1>3. QED
  BY <1>2 DEF Questions

\* What a set of runs adds to the record of executions.
LEMMA RanFacts ==
  ASSUME ConfirmTypes, NEW runs, Ran(runs),
         \A r \in runs : r.call \in Ids /\ r.arguments \in Argument
  PROVE  /\ executed' \in [Ids -> Seq(Argument)]
         /\ \A c \in Ids : \/ executed'[c] = executed[c]
                           \/ \E r \in runs : /\ r.call = c
                                              /\ executed'[c] = Append(executed[c], r.arguments)
<1>1. ASSUME NEW c \in Ids
      PROVE  /\ executed'[c] \in Seq(Argument)
             /\ \/ executed'[c] = executed[c]
                \/ \E r \in runs : /\ r.call = c
                                   /\ executed'[c] = Append(executed[c], r.arguments)
  <2>1. executed[c] \in Seq(Argument)
    BY DEF ConfirmTypes
  <2>2. CASE ~\E r \in runs : r.call = c
    <3>1. executed'[c] = executed[c]
      BY <2>2 DEF Ran
    <3>2. QED
      BY <2>1, <3>1
  <2>3. CASE \E r \in runs : r.call = c
    <3>1. PICK r \in runs : r = CHOOSE x \in runs : x.call = c
      BY <2>3
    <3>2. r.call = c /\ executed'[c] = Append(executed[c], r.arguments)
      BY <2>3, <3>1 DEF Ran
    <3>3. r.arguments \in Argument
      BY <3>1
    <3>4. QED
      BY <2>1, <3>2, <3>3
  <2>4. QED
    BY <2>2, <2>3
<1>2. executed' = [c \in Ids |-> executed'[c]]
  BY DEF Ran
<1>3. executed' \in [Ids -> Seq(Argument)]
  BY <1>1, <1>2
<1>4. QED
  BY <1>1, <1>3

LEMMA ArgumentsType == ASSUME ConfirmTypes, NEW c \in Ids PROVE Arguments(c) \in Argument
BY DEF ConfirmTypes, Arguments, Argument, Inputs

\* The gate lets nothing else run.
LEMMA ExecuteFacts ==
  ASSUME ConfirmTypes, NEW s \in Seq(Ids), Execute(s)
  PROVE  /\ executed' \in [Ids -> Seq(Argument)]
         /\ approved \subseteq approved'
         /\ \A c \in Ids :
              \/ executed'[c] = executed[c]
              \/ /\ \E k \in DOMAIN s : s[k] = c
                 /\ executed'[c] = Append(executed[c], Arguments(c))
                 /\ PrepareCall(c) = "run"
                 /\ Decision(c) = "confirm" => c \in approved'
<1> DEFINE passed == {s[k] : k \in {k \in DOMAIN s : PrepareCall(s[k]) = "run"}}
           runs   == {[call |-> c, arguments |-> Arguments(c)] : c \in passed}
<1>1. /\ Ran(runs)
      /\ approved' = approved \cup
                       {c \in passed : Decision(c) = "confirm" /\ ConfirmationStatus = "approved"}
  BY DEF Execute
<1>2. \A c \in passed : c \in Ids /\ PrepareCall(c) = "run" /\ \E k \in DOMAIN s : s[k] = c
  OBVIOUS
<1> HIDE DEF passed
<1>3. \A r \in runs : r.call \in Ids /\ r.arguments \in Argument
  BY <1>2, ArgumentsType
<1>4. ASSUME NEW c \in Ids, NEW r \in runs, r.call = c PROVE r.arguments = Arguments(c) /\ c \in passed
  BY <1>4
<1> HIDE DEF runs
<1>5. /\ executed' \in [Ids -> Seq(Argument)]
      /\ \A c \in Ids : \/ executed'[c] = executed[c]
                        \/ \E r \in runs : /\ r.call = c
                                           /\ executed'[c] = Append(executed[c], r.arguments)
  BY <1>1, <1>3, RanFacts
<1>6. \A c \in passed : Decision(c) = "confirm" => ConfirmationStatus = "approved"
  BY <1>2 DEF PrepareCall
<1>7. ASSUME NEW c \in Ids
      PROVE  \/ executed'[c] = executed[c]
             \/ /\ \E k \in DOMAIN s : s[k] = c
                /\ executed'[c] = Append(executed[c], Arguments(c))
                /\ PrepareCall(c) = "run"
                /\ Decision(c) = "confirm" => c \in approved'
  <2>1. CASE executed'[c] = executed[c]
    BY <2>1
  <2>2. CASE executed'[c] # executed[c]
    <3>1. c \in passed /\ executed'[c] = Append(executed[c], Arguments(c))
      BY <1>4, <1>5, <2>2
    <3>2. Decision(c) = "confirm" => c \in approved'
      BY <1>1, <1>6, <3>1
    <3>3. QED
      BY <1>2, <3>1, <3>2
  <2>3. QED
    BY <2>1, <2>2
<1>8. QED
  BY <1>1, <1>5, <1>7

-----------------------------------------------------------------------------
(* What runs was allowed or approved *)

Written == /\ store' \in Timeline /\ cache' \in Timeline
           /\ HoldsQuestion(store)' /\ HoldsQuestion(cache)'

\* The recorder writes back the checkpoint it has cached.
LEMMA WrittenBack ==
  ASSUME ConfirmTypes,
         Recorded \/ (\E h \in Seq(Message) : RecordedSnapshot(h)) \/ UNCHANGED <<store, cache>>
  PROVE  /\ store' \in Timeline /\ cache' \in Timeline
         /\ store'.runtime \in {store.runtime, cache.runtime} /\ cache'.runtime = cache.runtime
<1>1. store \in Timeline /\ cache \in Timeline
  BY DEF ConfirmTypes
<1>2. CASE Recorded \/ UNCHANGED <<store, cache>>
  BY <1>1, <1>2 DEF Recorded
<1>3. ASSUME NEW h \in Seq(Message), RecordedSnapshot(h)
      PROVE  /\ store' \in Timeline /\ cache' \in Timeline
             /\ store'.runtime \in {store.runtime, cache.runtime}
             /\ cache'.runtime = cache.runtime
  BY <1>1, <1>3 DEF RecordedSnapshot, Timeline
<1>4. QED
  BY <1>2, <1>3

\* What the recorder writes back holds a question it has cached.
LEMMA RecordedKeeps ==
  ASSUME VettedInv, setup' = setup,
         Recorded \/ (\E h \in Seq(Message) : RecordedSnapshot(h)) \/ UNCHANGED <<store, cache>>
  PROVE  Written
<1>1. /\ store \in Timeline /\ cache \in Timeline /\ Questions' = Questions
      /\ HoldsQuestion(store) /\ HoldsQuestion(cache)
  BY QuestionsKept DEF VettedInv, ConfirmTypes, AsksForConfirmation
<1>2. /\ store' \in Timeline /\ cache' \in Timeline
      /\ store'.runtime \in {store.runtime, cache.runtime} /\ cache'.runtime = cache.runtime
  BY WrittenBack DEF VettedInv
<1>3. QED
  BY <1>1, <1>2 DEF Written, HoldsQuestion

\* A step that executes nothing.
LEMMA NothingRuns ==
  ASSUME VettedInv, UNCHANGED <<setup, executed>>, approved \subseteq approved'
  PROVE  NoUnapprovedExecution'
<1>1. \A a : Check(a)' = Check(a)
  BY QuestionsKept
<1>2. QED
  BY <1>1 DEF VettedInv, NoUnapprovedExecution, Refused

LEMMA HitsHaveMin == \A S \in SUBSET Nat : S # {} => Min(S) \in S
<1>1. ASSUME NEW S \in SUBSET Nat, S # {} PROVE Min(S) \in S
  <2>1. \E x \in S : \A y \in S : x <= y
    BY <1>1, LeastNatural
  <2>2. QED
    BY <2>1, Zenon DEF Min
<1>2. QED
  BY <1>1

\* The gate lets pass what the policy allows or a hook confirmed.
LEMMA GateVets ==
  ASSUME VettedInv, setup' = setup, NEW s \in Seq(Ids), Execute(s)
  PROVE  NoUnapprovedExecution' /\ executed' \in [Ids -> Seq(Argument)]
<1>1. /\ \A a : Check(a)' = Check(a)
      /\ ConfirmTypes
  BY QuestionsKept DEF VettedInv
<1>2. /\ executed' \in [Ids -> Seq(Argument)]
      /\ approved \subseteq approved'
      /\ \A c \in Ids :
           \/ executed'[c] = executed[c]
           \/ /\ \E k \in DOMAIN s : s[k] = c
              /\ executed'[c] = Append(executed[c], Arguments(c))
              /\ PrepareCall(c) = "run"
              /\ Decision(c) = "confirm" => c \in approved'
  BY <1>1, ExecuteFacts
<1>3. ASSUME NEW c \in Ids, PrepareCall(c) = "run"
      PROVE  Decision(c) \in {"allowed", "confirm"} /\ ~Refused(Arguments(c))
  <2>1. Decision(c) # "denied" /\ ~Refused(Arguments(c))
    BY <1>3 DEF PrepareCall
  <2>2. Decision(c) \in Decisions
    <3> DEFINE a == Arguments(c)
               hits == {k \in DOMAIN setup.rules : Matches(setup.rules[k], a)}
    <3>1. Decision(c) = Check(a)
      BY DEF Decision
    <3> HIDE DEF a
    <3>2. AllowList(a) \in Decisions
      BY DEF AllowList, Decisions
    <3>3. RuleBased(a) \in Decisions
      <4>1. CASE hits = {}
        BY <4>1 DEF RuleBased, Decisions
      <4>2. CASE hits # {}
        <5>0. setup.rules \in Seq(Rule)
          BY <1>1, ConfirmationAssumption DEF ConfirmTypes
        <5>1. RuleBased(a) = setup.rules[Min(hits)].decision
          BY <4>2 DEF RuleBased
        <5>2. Min(hits) \in hits
          <6>1. DOMAIN setup.rules \in SUBSET Nat
            BY <5>0
          <6>2. hits \in SUBSET Nat
            BY <6>1
          <6>3. QED
            BY <4>2, <6>2, HitsHaveMin, Zenon
        <5>3. Min(hits) \in DOMAIN setup.rules
          BY <5>2
        <5> HIDE DEF hits
        <5>4. QED
          <6>1. setup.rules[Min(hits)] \in Rule
            BY <5>0, <5>3
          <6>2. setup.rules[Min(hits)].decision \in Decisions
            BY <6>1 DEF Rule
          <6>3. QED
            BY <5>1, <6>2
      <4>3. QED
        BY <4>1, <4>2
    <3>4. QED
      BY <3>1, <3>2, <3>3 DEF Check
  <2>3. QED
    BY <2>1, <2>2 DEF Decisions
<1>4. ASSUME NEW c \in Ids, NEW a \in {executed'[c][k] : k \in DOMAIN executed'[c]}
      PROVE  \/ Check(a) = "allowed" /\ ~Refused(a)
             \/ Check(a) = "confirm" /\ c \in approved'
  <2>1. CASE a \in {executed[c][k] : k \in DOMAIN executed[c]}
    BY <1>2, <2>1 DEF VettedInv, NoUnapprovedExecution
  <2>2. CASE a \notin {executed[c][k] : k \in DOMAIN executed[c]}
    <3>1. executed[c] \in Seq(Argument) /\ Arguments(c) \in Argument
      BY <1>1, ArgumentsType DEF ConfirmTypes
    <3>2. /\ executed'[c] = Append(executed[c], Arguments(c)) /\ PrepareCall(c) = "run"
          /\ Decision(c) = "confirm" => c \in approved'
      BY <1>2, <1>4, <2>2
    <3>3. a = Arguments(c)
      BY <1>4, <2>2, <3>1, <3>2
    <3>4. QED
      BY <1>3, <3>2, <3>3 DEF Decision
  <2>3. QED
    BY <2>1, <2>2
<1>5. NoUnapprovedExecution'
  BY <1>1, <1>4 DEF NoUnapprovedExecution, Refused
<1>6. QED
  BY <1>2, <1>5

\* A step that asks nothing new: the rest of the state keeps its type.
LEMMA VettedFrom ==
  ASSUME VettedInv, setup' = setup, Written, NoUnapprovedExecution',
         executed' \in [Ids -> Seq(Argument)], inputs' \in [Ids -> Argument],
         history' \in Seq(Message), batch' \in Seq(Ids), gated' \in Seq(Ids),
         remaining' \in Seq(Ids), issued' \in 0..MaxCalls,
         crashed' \in {"never", "clean", "torn"}, pc' \in PCs,
         resumes' \in Nat, taken' \in SUBSET Nat, repeats' \in [Ids -> Nat],
         pending' \in {None} \cup Request,
         pc' \in Awaiting => pending' \in Request /\ pending'.arguments \in Questions
  PROVE  VettedInv'
<1>1. ConfirmTypes'
  BY DEF VettedInv, ConfirmTypes, Written
<1>2. AsksForConfirmation'
  BY QuestionsKept DEF AsksForConfirmation, Written
<1>3. QED
  BY <1>1, <1>2 DEF VettedInv

LEMMA RequestToolsVetted ==
  ASSUME VettedInv, NEW n \in 1..MaxBatch, RequestTools(n)
  PROVE  VettedInv'
<1>1. /\ Written /\ NoUnapprovedExecution' /\ UNCHANGED <<setup, executed, approved>>
  BY RecordedKeeps, NothingRuns DEF RequestTools, life, log
<1>2. n \in Nat /\ issued \in Nat /\ issued + n <= MaxCalls /\ MaxCalls \in Nat
  BY ConfirmationAssumption DEF RequestTools, VettedInv, ConfirmTypes
<1>3. batch' \in Seq(Ids) /\ issued' \in 0..MaxCalls
  <2>1. batch' = [k \in 1..n |-> issued + k] /\ issued' = issued + n
    BY DEF RequestTools
  <2>2. \A k \in 1..n : issued + k \in Ids
    BY <1>2 DEF Ids
  <2>3. QED
    BY <1>2, <2>1, <2>2
<1>4. history' \in Seq(Message)
  <2>1. AssistantCalls(batch') \in Message /\ history \in Seq(Message)
    BY <1>3, IdsType, MessageTypes DEF VettedInv, ConfirmTypes
  <2>2. QED
    BY <2>1 DEF RequestTools
<1>5. inputs' \in [Ids -> Argument]
  <2>1. setup.inputs \subseteq Inputs /\ inputs \in [Ids -> Argument]
    BY ConfirmationAssumption DEF VettedInv, ConfirmTypes
  <2>2. PICK asked \in [(issued + 1)..(issued + n) -> setup.inputs] :
          inputs' = [c \in Ids |-> IF c \in DOMAIN asked THEN asked[c] ELSE inputs[c]]
    BY Zenon DEF RequestTools
  <2>3. QED
    BY <2>1, <2>2 DEF Argument
<1>6. /\ pc' = "gate" /\ UNCHANGED <<gated, pending, remaining, crashed, resumes, taken, repeats>>
  BY DEF RequestTools, life
<1>7. QED
  BY <1>1, <1>3, <1>4, <1>5, <1>6, VettedFrom
     DEF VettedInv, ConfirmTypes, PCs, Awaiting, SecondSave

LEMMA AnswerVetted == ASSUME VettedInv, Answer PROVE VettedInv'
<1>1. history' \in Seq(Message)
  BY MessageTypes DEF Answer, VettedInv, ConfirmTypes
<1>2. /\ Written /\ NoUnapprovedExecution' /\ UNCHANGED <<setup, executed, approved>>
  BY <1>1, RecordedKeeps, NothingRuns, Zenon DEF Answer, life, log
<1>3. /\ pc' = "ended" /\ UNCHANGED <<batch, gated, pending, remaining, issued, inputs>>
      /\ UNCHANGED <<crashed, resumes, taken, repeats>>
  BY DEF Answer, life
<1>4. QED
  BY <1>1, <1>2, <1>3, VettedFrom DEF VettedInv, ConfirmTypes, PCs, Awaiting, SecondSave

LEMMA RunRaisesVetted == ASSUME VettedInv, RunRaises PROVE VettedInv'
<1>1. Written /\ NoUnapprovedExecution' /\ UNCHANGED <<setup, executed, approved>>
  BY RecordedKeeps, NothingRuns DEF RunRaises, life, log
<1>2. /\ pc' = "ended" /\ UNCHANGED <<history, batch, gated, pending, remaining>>
      /\ UNCHANGED <<issued, inputs, crashed, resumes, taken, repeats>>
  BY DEF RunRaises, agent, life
<1>3. QED
  BY <1>1, <1>2, VettedFrom DEF VettedInv, ConfirmTypes, PCs, Awaiting, SecondSave

LEMMA RunNextCallVetted == ASSUME VettedInv, RunNextCall PROVE VettedInv'
<1>1. batch \in Seq(Ids) /\ batch # <<>> /\ history \in Seq(Message)
  BY DEF VettedInv, ConfirmTypes, RunNextCall
<1>2. Head(batch) \in Ids /\ Tail(batch) \in Seq(Ids) /\ <<Head(batch)>> \in Seq(Ids)
  BY <1>1
<1>3. ToolResult(Head(batch)) \in Message
  BY <1>2, IdsType, MessageTypes
<1>4. history' \in Seq(Message) /\ batch' \in Seq(Ids)
  BY <1>1, <1>2, <1>3 DEF RunNextCall
<1>5. Written /\ setup' = setup
  BY RecordedKeeps DEF RunNextCall, life
<1>6. NoUnapprovedExecution' /\ executed' \in [Ids -> Seq(Argument)]
  BY <1>2, <1>5, GateVets, Zenon DEF RunNextCall
<1>7. /\ pc' = "gate" /\ UNCHANGED <<gated, pending, remaining, issued, inputs>>
      /\ UNCHANGED <<crashed, resumes, taken, repeats>>
  BY DEF RunNextCall, life
<1>8. QED
  BY <1>4, <1>5, <1>6, <1>7, VettedFrom DEF VettedInv, ConfirmTypes, PCs, Awaiting, SecondSave

LEMMA GateNextCallVetted == ASSUME VettedInv, GateNextCall PROVE VettedInv'
<1>1. batch \in Seq(Ids) /\ batch # <<>> /\ gated \in Seq(Ids)
  BY DEF VettedInv, ConfirmTypes, GateNextCall
<1>2. gated' \in Seq(Ids) /\ batch' \in Seq(Ids)
  BY <1>1 DEF GateNextCall
<1>3. Written /\ NoUnapprovedExecution' /\ UNCHANGED <<setup, executed, approved>>
  BY RecordedKeeps, NothingRuns DEF GateNextCall, life, log
<1>4. /\ pc' = "gate" /\ UNCHANGED <<history, pending, remaining, issued, inputs>>
      /\ UNCHANGED <<crashed, resumes, taken, repeats>>
  BY DEF GateNextCall, life
<1>5. QED
  BY <1>2, <1>3, <1>4, VettedFrom DEF VettedInv, ConfirmTypes, PCs, Awaiting, SecondSave

LEMMA DispatchVetted ==
  ASSUME VettedInv, setup' = setup, Dispatch
  PROVE  /\ NoUnapprovedExecution' /\ executed' \in [Ids -> Seq(Argument)]
         /\ history' \in Seq(Message) /\ gated' \in Seq(Ids)
<1>1. gated \in Seq(Ids) /\ history \in Seq(Message)
  BY DEF VettedInv, ConfirmTypes
<1>2. Results(gated) \in Seq(Message)
  BY <1>1, ResultsType
<1>3. history' \in Seq(Message) /\ gated' \in Seq(Ids)
  BY <1>1, <1>2 DEF Dispatch
<1>4. QED
  BY <1>1, <1>3, GateVets DEF Dispatch

LEMMA FinishRoundVetted == ASSUME VettedInv, FinishRound PROVE VettedInv'
<1>1. setup' = setup /\ Dispatch
  BY DEF FinishRound, life
<1>2. /\ NoUnapprovedExecution' /\ executed' \in [Ids -> Seq(Argument)]
      /\ history' \in Seq(Message) /\ gated' \in Seq(Ids)
  BY <1>1, DispatchVetted
<1>3. Written
  BY <1>1, <1>2, RecordedKeeps DEF FinishRound
<1>4. /\ pc' = "llm" /\ UNCHANGED <<batch, pending, remaining, issued, inputs>>
      /\ UNCHANGED <<crashed, resumes, taken, repeats>>
  BY DEF FinishRound, life
<1>5. QED
  BY <1>1, <1>2, <1>3, <1>4, VettedFrom DEF VettedInv, ConfirmTypes, PCs, Awaiting, SecondSave

LEMMA NeedConfirmationVetted == ASSUME VettedInv, NeedConfirmation PROVE VettedInv'
<1>1. batch \in Seq(Ids) /\ batch # <<>> /\ ConfirmTypes
  BY DEF VettedInv, ConfirmTypes, NeedConfirmation
<1>2. PICK c \in Ids : c = Head(batch)
  BY <1>1
<1>3. Arguments(c) \in Argument /\ Check(Arguments(c)) = "confirm"
  <2>1. Decision(c) = "confirm"
    BY <1>2 DEF NeedConfirmation, PrepareCall
  <2>2. QED
    BY <1>1, <2>1, ArgumentsType DEF Decision
<1>4. /\ pending' = [call |-> c, arguments |-> Arguments(c), epoch |-> resumes]
      /\ pending' \in Request /\ pending'.arguments \in Questions
  BY <1>1, <1>2, <1>3 DEF NeedConfirmation, Request, Questions, ConfirmTypes
<1>5. Written /\ NoUnapprovedExecution' /\ UNCHANGED <<setup, executed, approved>>
  BY RecordedKeeps, NothingRuns DEF NeedConfirmation, life, log
<1>6. /\ pc' = "snapshot1" /\ UNCHANGED <<history, batch, gated, remaining, issued, inputs>>
      /\ UNCHANGED <<crashed, resumes, taken, repeats>>
  BY DEF NeedConfirmation, life
<1>7. QED
  BY <1>4, <1>5, <1>6, VettedFrom DEF VettedInv, ConfirmTypes, PCs

LEMMA SaveStepVetted ==
  ASSUME VettedInv, pc \in Awaiting, pc' \in Awaiting, SaveSnapshot \/ SaveRuntime,
         UNCHANGED <<agent, issued, inputs, life, log>>
  PROVE  VettedInv'
<1>1. /\ UNCHANGED <<setup, executed, approved, inputs, history, batch, gated, remaining>>
      /\ UNCHANGED <<issued, crashed, pending, resumes, taken, repeats>>
  BY DEF agent, life, log
<1>2. NoUnapprovedExecution'
  BY <1>1, NothingRuns
<1>3. /\ store \in Timeline /\ cache \in Timeline /\ Questions' = Questions
      /\ HoldsQuestion(store) /\ HoldsQuestion(cache)
      /\ pending \in Request /\ pending.arguments \in Questions
      /\ history \in Seq(Message) /\ remaining \in Seq(Ids)
  BY <1>1, QuestionsKept DEF VettedInv, ConfirmTypes, AsksForConfirmation
<1>4. Written
  <2>1. CASE SaveSnapshot
    BY <1>3, <2>1, SMTT(30), ZenonT(30) DEF SaveSnapshot, Written, Timeline, HoldsQuestion
  <2>2. CASE SaveRuntime
    <3>1. Runtime \in Checkpoint /\ Runtime.pending.arguments \in Questions
      BY <1>3 DEF Runtime, Checkpoint
    <3>2. QED
      BY <1>3, <2>2, <3>1 DEF SaveRuntime, Written, Timeline, HoldsQuestion
  <2>3. QED
    BY <2>1, <2>2
<1>5. pc' \in PCs
  BY DEF Awaiting, SecondSave, PCs
<1>6. QED
  BY <1>1, <1>2, <1>3, <1>4, <1>5, VettedFrom DEF VettedInv, ConfirmTypes

LEMMA BookkeepingVetted == ASSUME VettedInv, Bookkeeping PROVE VettedInv'
<1>1. setup' = setup /\ Dispatch
  BY DEF Bookkeeping, life
<1>2. /\ NoUnapprovedExecution' /\ executed' \in [Ids -> Seq(Argument)]
      /\ history' \in Seq(Message) /\ gated' \in Seq(Ids)
  BY <1>1, DispatchVetted
<1>3. Written
  BY <1>1, RecordedKeeps DEF Bookkeeping
<1>4. remaining' \in Seq(Ids)
  <2>1. batch \in Seq(Ids)
    BY DEF VettedInv, ConfirmTypes
  <2>2. CASE batch = <<>>
    <3>1. Tail(batch) \in Seq(Ids)
      BY <2>1, <2>2
    <3>2. QED
      BY <2>1, <3>1 DEF Bookkeeping, Unfinished
  <2>3. CASE batch # <<>>
    BY <2>1, <2>3 DEF Bookkeeping, Unfinished
  <2>4. QED
    BY <2>2, <2>3
<1>5. /\ pc = "bookkeeping" /\ pc' = "snapshot2"
      /\ UNCHANGED <<batch, pending, issued, inputs, crashed, resumes, taken, repeats>>
  BY DEF Bookkeeping, life
<1>6. QED
  BY <1>1, <1>2, <1>3, <1>4, <1>5, VettedFrom
     DEF VettedInv, ConfirmTypes, AsksForConfirmation, PCs, Awaiting, SecondSave

LEMMA CrashVetted == ASSUME VettedInv, Crash PROVE VettedInv'
<1>1. /\ UNCHANGED <<setup, executed, approved, inputs, history, batch, gated, remaining>>
      /\ UNCHANGED <<issued, pending, store, cache, resumes, taken, repeats>> /\ pc' = "down"
      /\ crashed' \in {"never", "clean", "torn"}
  BY DEF Crash, agent, log
<1>2. NoUnapprovedExecution' /\ Written
  BY <1>1, NothingRuns, RecordedKeeps, SMTT(30), ZenonT(30)
<1>3. QED
  BY <1>1, <1>2, VettedFrom DEF VettedInv, ConfirmTypes, PCs, Awaiting, SecondSave

LEMMA ResumedVetted ==
  ASSUME VettedInv, Resumed, Restore
  PROVE  VettedInv'
<1>1. /\ UNCHANGED <<setup, executed, approved, inputs, issued, crashed, store>>
      /\ pc' = "resolve" /\ cache' \in {store, cache} /\ history' = store.snapshot
      /\ batch' = <<>> /\ gated' = <<>>
      /\ store.snapshot # None /\ store.runtime # None
  BY DEF Resumed, Restorable, log
<1>2. NoUnapprovedExecution'
  BY <1>1, NothingRuns
<1>3. /\ store \in Timeline /\ HoldsQuestion(store) /\ Questions' = Questions
      /\ cache \in Timeline /\ HoldsQuestion(cache)
  BY <1>1, QuestionsKept DEF VettedInv, ConfirmTypes, AsksForConfirmation
<1>4. Written
  BY <1>1, <1>3 DEF Written, HoldsQuestion
<1>5. store.snapshot \in Seq(Message) /\ store.runtime \in Checkpoint
  BY <1>1, <1>3 DEF Timeline
<1>6. /\ pending' \in Request /\ pending'.arguments \in Questions /\ remaining' \in Seq(Ids)
  BY <1>1, <1>3, <1>5 DEF Restore, Checkpoint, HoldsQuestion
<1>7. resumes' \in Nat /\ taken' \in SUBSET Nat /\ repeats' \in [Ids -> Nat]
  <2>1. store.runtime.pending.epoch \in Nat
    BY <1>5 DEF Checkpoint, Request
  <2>2. resumes \in Nat /\ taken \in SUBSET Nat /\ repeats \in [Ids -> Nat]
    BY DEF VettedInv, ConfirmTypes
  <2>3. repeats' \in [Ids -> Nat]
    BY <2>2 DEF Resumed
  <2>4. resumes' = resumes + 1 /\ taken' = taken \cup {store.runtime.pending.epoch}
    BY DEF Resumed
  <2>5. resumes' \in Nat
    BY <2>2, <2>4
  <2>6. taken' \subseteq Nat
    BY <2>1, <2>2, <2>4, Zenon
  <2>7. QED
    BY <2>3, <2>5, <2>6
<1>8. /\ executed \in [Ids -> Seq(Argument)] /\ inputs \in [Ids -> Argument]
      /\ issued \in 0..MaxCalls /\ crashed \in {"never", "clean", "torn"}
      /\ <<>> \in Seq(Ids) /\ "resolve" \in PCs
  BY DEF VettedInv, ConfirmTypes, PCs
<1>9. QED
  BY <1>1, <1>2, <1>4, <1>5, <1>6, <1>7, <1>8, VettedFrom, SMTT(30), ZenonT(30)

LEMMA ResolveVetted ==
  ASSUME VettedInv, NEW verdict \in BOOLEAN, NEW present \in BOOLEAN, Resolve(verdict, present)
  PROVE  VettedInv'
<1>1. /\ pc' = "gate" /\ batch' = Rest /\ remaining' = <<>> /\ pending' = None
      /\ UNCHANGED <<setup, gated, issued, inputs, crashed, resumes, taken, repeats>>
      /\ history' = Append(history, ToolResult(pending.call))
  BY DEF Resolve, life
<1>2. /\ pending \in Request /\ pending.arguments \in Questions /\ pending.call \in Ids
      /\ remaining \in Seq(Ids) /\ history \in Seq(Message) /\ ConfirmTypes
  BY DEF Resolve, VettedInv, ConfirmTypes, AsksForConfirmation, Awaiting, SecondSave, Request
<1>3. batch' \in Seq(Ids) /\ remaining' \in Seq(Ids)
  <2>1. remaining # <<>> => Tail(remaining) \in Seq(Ids)
    BY <1>2
  <2>2. QED
    BY <1>1, <1>2, <2>1 DEF Rest, RestOf, Runtime
<1>4. history' \in Seq(Message)
  <2>1. ToolResult(pending.call) \in Message
    BY <1>2, IdsType, MessageTypes, Zenon
  <2>2. QED
    BY <1>1, <1>2, <2>1
<1>5. Written
  BY <1>1, RecordedKeeps DEF Resolve
<1>6. NoUnapprovedExecution' /\ executed' \in [Ids -> Seq(Argument)]
  <2>1. CASE ~(verdict /\ present)
    <3>1. Ran({}) /\ approved \subseteq approved'
      BY <2>1 DEF Resolve
    <3>2. executed' = executed
      BY <1>2, <3>1 DEF Ran, ConfirmTypes
    <3>3. QED
      BY <1>1, <1>2, <3>1, <3>2, NothingRuns DEF ConfirmTypes
  <2>2. CASE verdict /\ present
    <3>1. Ran({pending}) /\ approved' = approved \cup {pending.call}
      BY <2>2 DEF Resolve
    <3>2. /\ executed' \in [Ids -> Seq(Argument)]
          /\ \A c \in Ids : \/ executed'[c] = executed[c]
                            \/ /\ pending.call = c
                               /\ executed'[c] = Append(executed[c], pending.arguments)
      <4>1. \A r \in {pending} : r.call \in Ids /\ r.arguments \in Argument
        BY <1>2 DEF Request
      <4>2. QED
        BY <1>2, <3>1, <4>1, RanFacts
    <3>3. ASSUME NEW c \in Ids, NEW a \in {executed'[c][k] : k \in DOMAIN executed'[c]}
          PROVE  \/ Check(a) = "allowed" /\ ~Refused(a)
                 \/ Check(a) = "confirm" /\ c \in approved'
      <4>1. CASE a \in {executed[c][k] : k \in DOMAIN executed[c]}
        BY <3>1, <4>1 DEF VettedInv, NoUnapprovedExecution
      <4>2. CASE a \notin {executed[c][k] : k \in DOMAIN executed[c]}
        <5>1. executed[c] \in Seq(Argument) /\ pending.arguments \in Argument
          BY <1>2 DEF ConfirmTypes, Questions
        <5>2. executed'[c] = Append(executed[c], pending.arguments) /\ pending.call = c
          BY <3>2, <3>3, <4>2
        <5>3. a = pending.arguments
          BY <3>3, <4>2, <5>1, <5>2
        <5>4. QED
          BY <1>2, <3>1, <5>2, <5>3 DEF Questions
      <4>3. QED
        BY <4>1, <4>2
    <3>4. \A a : Check(a)' = Check(a)
      BY <1>1, QuestionsKept
    <3>5. NoUnapprovedExecution'
      BY <3>3, <3>4 DEF NoUnapprovedExecution, Refused
    <3>6. QED
      BY <3>2, <3>5
  <2>3. QED
    BY <2>1, <2>2
<1>7. QED
  BY <1>1, <1>3, <1>4, <1>5, <1>6, VettedFrom, SMTT(30), ZenonT(30)
     DEF VettedInv, ConfirmTypes, PCs, Awaiting, SecondSave

LEMMA VettedStep == VettedInv /\ [Next]_vars => VettedInv'
<1>1. ASSUME VettedInv, UNCHANGED vars PROVE VettedInv'
  <2>1. /\ UNCHANGED <<setup, executed, approved, inputs, history, batch, gated, remaining>>
        /\ UNCHANGED <<issued, crashed, pending, store, cache, pc, resumes, taken, repeats>>
    BY <1>1 DEF vars, agent, life, log
  <2>2. NoUnapprovedExecution' /\ Written
    BY <1>1, <2>1, NothingRuns, RecordedKeeps
  <2>3. QED
    BY <1>1, <2>1, <2>2, VettedFrom DEF VettedInv, ConfirmTypes, AsksForConfirmation
<1>2. ASSUME VettedInv, SaveCheckpoint PROVE VettedInv'
  <2>1. CASE Bookkeeping
    BY <1>2, <2>1, BookkeepingVetted
  <2>2. CASE ~Bookkeeping
    BY <1>2, <2>2, SaveStepVetted DEF SaveCheckpoint, SaveStep, Awaiting, SecondSave
  <2>3. QED
    BY <2>1, <2>2
<1>3. ASSUME VettedInv, Resume \/ ResumeAsync PROVE VettedInv'
  BY <1>3, ResumedVetted DEF Resume, ResumeAsync, Restore, RestoreAsync
<1>4. ASSUME VettedInv, NEW verdict \in BOOLEAN, NEW present \in BOOLEAN,
             \/ ResolvePendingConfirmation(verdict, present)
             \/ ResolvePendingConfirmationAsync(verdict, present)
      PROVE  VettedInv'
  BY <1>4, ResolveVetted DEF ResolvePendingConfirmation, ResolvePendingConfirmationAsync
<1>5. ASSUME VettedInv, Next PROVE VettedInv'
  BY <1>2, <1>3, <1>4, <1>5, RequestToolsVetted, AnswerVetted, RunRaisesVetted, RunNextCallVetted,
     GateNextCallVetted, FinishRoundVetted, NeedConfirmationVetted, CrashVetted, ZenonT(30) DEF Next
<1>6. QED
  BY <1>1, <1>5

LEMMA VettedInit == Init => VettedInv
<1> SUFFICES ASSUME Init PROVE VettedInv
  OBVIOUS
<1>1. ConfirmTypes
  <2>1. history \in Seq(Message)
    BY MessageTypes DEF Init
  <2>2. store \in Timeline /\ cache \in Timeline
    BY DEF Init, Empty, Timeline
  <2>3. /\ issued \in 0..MaxCalls /\ inputs \in [Ids -> Argument]
        /\ executed \in [Ids -> Seq(Argument)] /\ resumes \in Nat
        /\ taken \in SUBSET Nat /\ repeats \in [Ids -> Nat]
    BY ConfirmationAssumption DEF Init, Argument
  <2>4. QED
    BY <2>1, <2>2, <2>3 DEF Init, ConfirmTypes, PCs, Awaiting, SecondSave
<1>2. AsksForConfirmation
  BY DEF Init, AsksForConfirmation, HoldsQuestion, Empty, Awaiting, SecondSave
<1>3. NoUnapprovedExecution
  BY DEF Init, NoUnapprovedExecution
<1>4. QED
  BY <1>1, <1>2, <1>3 DEF VettedInv

(***************************************************************************)
(* Whatever the policy, the hooks and the arguments, and wherever the      *)
(* process crashes or resumes: a tool runs only on arguments the policy    *)
(* allows, or on arguments it wants confirmed and that were approved for   *)
(* that very call (agent.py _prepare_call, _resolve_pending_confirmation). *)
(***************************************************************************)
THEOREM OnlyApprovedExecution == Spec => []NoUnapprovedExecution
<1>1. VettedInv => NoUnapprovedExecution
  BY DEF VettedInv
<1>2. QED
  BY <1>1, VettedInit, VettedStep, PTL DEF Spec

-----------------------------------------------------------------------------
(* Rounds that are interrupted *)

LEMMA OpenForElim ==
  ASSUME NEW h \in Seq(Message), NEW s, OpenFor(h, s)
  PROVE  \E ids \in Seq(Nat), r \in Nat :
           /\ RoundOpen(h, ids, r) /\ r + Len(s) = Len(ids)
           /\ \A k \in DOMAIN s : ids[r + k] = s[k]
<1>1. PICK u \in DOMAIN h :
        /\ RoundOpen(h, h[u].ids, Len(h) - u) /\ (Len(h) - u) + Len(s) = Len(h[u].ids)
        /\ \A k \in DOMAIN s : h[u].ids[(Len(h) - u) + k] = s[k]
  BY DEF OpenFor
<1>2. h[u] \in Message
  OBVIOUS
<1>3. h[u].ids \in Seq(Nat) /\ Len(h) - u \in Nat
  BY <1>2 DEF Message
<1>4. QED
  BY <1>1, <1>3, SMTT(30), ZenonT(30)

LEMMA OpenForIntro ==
  ASSUME NEW h \in Seq(Message), NEW s, NEW ids \in Seq(Nat), NEW r \in Nat,
         RoundOpen(h, ids, r), r + Len(s) = Len(ids), \A k \in DOMAIN s : ids[r + k] = s[k]
  PROVE  OpenFor(h, s)
<1>1. PICK u \in DOMAIN h : Len(h) = u + r /\ h[u] = AssistantCalls(ids)
  BY DEF RoundOpen
<1>2. h[u].ids = ids /\ Len(h) - u = r
  BY <1>1 DEF AssistantCalls
<1>3. QED
  BY <1>2, Zenon DEF OpenFor

LEMMA OpenForBegins ==
  ASSUME NEW h \in Seq(Message), NEW ids \in Seq(Nat), ReplayValid(h)
  PROVE  OpenFor(Append(h, AssistantCalls(ids)), ids)
<1>1. RoundOpen(Append(h, AssistantCalls(ids)), ids, 0)
  BY RoundBegins
<1>2. Append(h, AssistantCalls(ids)) \in Seq(Message)
  BY MessageTypes
<1>3. 0 + Len(ids) = Len(ids) /\ \A k \in DOMAIN ids : ids[0 + k] = ids[k]
  OBVIOUS
<1>4. QED
  BY <1>1, <1>2, <1>3, OpenForIntro, ZenonT(30)

LEMMA OpenForEnds ==
  ASSUME NEW h \in Seq(Message), OpenFor(h, <<>>)
  PROVE  ReplayValid(h)
<1>1. PICK ids \in Seq(Nat), r \in Nat : RoundOpen(h, ids, r) /\ r + Len(<<>>) = Len(ids)
  BY OpenForElim
<1>2. r = Len(ids)
  BY <1>1
<1>3. QED
  BY <1>1, <1>2, RoundEnds

\* The results of the first calls leave the round open for the others.
LEMMA OpenForContinues ==
  ASSUME NEW h \in Seq(Message), NEW g \in Seq(Ids), NEW b \in Seq(Ids), OpenFor(h, g \o b)
  PROVE  OpenFor(h \o Results(g), b)
<1>1. PICK ids \in Seq(Nat), r \in Nat :
        /\ RoundOpen(h, ids, r) /\ r + Len(g \o b) = Len(ids)
        /\ \A k \in DOMAIN (g \o b) : ids[r + k] = (g \o b)[k]
  BY OpenForElim, Zenon
<1>2. /\ Results(g) \in Seq(Message) /\ Len(Results(g)) = Len(g)
      /\ \A k \in DOMAIN g : Results(g)[k] = ToolResult(g[k])
  BY ResultsType
<1>3. /\ Len(g) \in Nat /\ Len(b) \in Nat /\ Len(g \o b) = Len(g) + Len(b)
      /\ DOMAIN g = 1..Len(g) /\ DOMAIN b = 1..Len(b) /\ DOMAIN (g \o b) = 1..(Len(g) + Len(b))
      /\ \A k \in 1..Len(g) : (g \o b)[k] = g[k]
      /\ \A k \in 1..Len(b) : (g \o b)[Len(g) + k] = b[k]
  OBVIOUS
<1>4. ASSUME NEW k \in 1..Len(g) PROVE ids[r + k] = g[k]
  <2>1. k \in DOMAIN (g \o b)
    BY <1>3
  <2>2. QED
    BY <1>1, <1>3, <2>1, Zenon
<1>5. ASSUME NEW k \in 1..Len(b) PROVE ids[(r + Len(g)) + k] = b[k]
  <2>1. Len(g) + k \in DOMAIN (g \o b) /\ (r + Len(g)) + k = r + (Len(g) + k)
    BY <1>3
  <2>2. QED
    BY <1>1, <1>3, <2>1, Zenon
<1>6. r + Len(Results(g)) <= Len(ids)
  BY <1>1, <1>2, <1>3
<1>7. \A k \in 1..Len(Results(g)) : Results(g)[k] = ToolResult(ids[r + k])
  BY <1>2, <1>3, <1>4, Zenon
<1>8. RoundOpen(h \o Results(g), ids, r + Len(Results(g)))
  BY <1>1, <1>2, <1>6, <1>7, RoundContinues, Zenon
<1>9. /\ h \o Results(g) \in Seq(Message) /\ r + Len(g) \in Nat
      /\ (r + Len(g)) + Len(b) = Len(ids)
  BY <1>1, <1>2, <1>3
<1>10. QED
  BY <1>2, <1>3, <1>5, <1>8, <1>9, OpenForIntro, ZenonT(30)

LEMMA OpenForOne ==
  ASSUME NEW h \in Seq(Message), NEW c \in Ids, NEW b \in Seq(Ids), OpenFor(h, <<c>> \o b)
  PROVE  OpenFor(Append(h, ToolResult(c)), b)
<1>1. <<c>> \in Seq(Ids) /\ ToolResult(c) \in Message
  BY IdsType, MessageTypes
<1>2. Results(<<c>>) = <<ToolResult(c)>>
  BY DEF Results
<1>3. OpenFor(h \o Results(<<c>>), b)
  BY <1>1, OpenForContinues, Zenon
<1>4. h \o <<ToolResult(c)>> = Append(h, ToolResult(c))
  BY <1>1
<1>5. QED
  BY <1>2, <1>3, <1>4, Zenon

\* Sequences of calls.
LEMMA HeadAndTail ==
  ASSUME NEW b \in Seq(Ids), b # <<>>
  PROVE  /\ Head(b) \in Ids /\ Tail(b) \in Seq(Ids)
         /\ <<Head(b)>> \o Tail(b) = b /\ <<>> \o b = b
         /\ \A g \in Seq(Ids) : Append(g, Head(b)) \o Tail(b) = g \o b
OBVIOUS

LEMMA AscendingSuffix ==
  ASSUME NEW g \in Seq(Ids), NEW b \in Seq(Ids), Ascending(g \o b)
  PROVE  Ascending(b)
<1>1. /\ Len(g) \in Nat /\ Len(b) \in Nat
      /\ DOMAIN b = 1..Len(b) /\ DOMAIN (g \o b) = 1..(Len(g) + Len(b))
      /\ \A k \in 1..Len(b) : (g \o b)[Len(g) + k] = b[k]
  OBVIOUS
<1>2. ASSUME NEW j \in DOMAIN b, NEW k \in DOMAIN b, j < k PROVE b[j] < b[k]
  <2>1. /\ Len(g) + j \in DOMAIN (g \o b) /\ Len(g) + k \in DOMAIN (g \o b)
        /\ Len(g) + j < Len(g) + k
    BY <1>1, <1>2
  <2>2. (g \o b)[Len(g) + j] < (g \o b)[Len(g) + k]
    BY <2>1 DEF Ascending
  <2>3. QED
    BY <1>1, <2>2
<1>3. QED
  BY <1>2 DEF Ascending

LEMMA LeftType ==
  ASSUME NEW rt \in Checkpoint
  PROVE  /\ rt.pending.call \in Ids /\ RestOf(rt) \in Seq(Ids)
         /\ Left(rt) \in Seq(Ids) /\ 1 \in DOMAIN Left(rt) /\ Left(rt)[1] = rt.pending.call
<1>1. rt.pending.call \in Ids /\ rt.remaining \in Seq(Ids)
  BY DEF Checkpoint, Request
<1>2. rt.remaining # <<>> => Tail(rt.remaining) \in Seq(Ids)
  BY <1>1
<1>3. RestOf(rt) \in Seq(Ids)
  BY <1>1, <1>2 DEF RestOf
<1>4. QED
  BY <1>1, <1>3 DEF Left

\* Both ways of remembering an interrupted round, with the pending call and
\* without it, leave the same calls to do.
LEMMA LeftOfBatch ==
  ASSUME NEW b \in Seq(Ids), b # <<>>, Ascending(b), NEW t,
         t.pending.call = Head(b), t.remaining \in {b, Tail(b)}
  PROVE  Left(t) = b
<1>1. /\ Head(b) \in Ids /\ Tail(b) \in Seq(Ids) /\ <<Head(b)>> \o Tail(b) = b
  BY HeadAndTail
<1>2. RestOf(t) = Tail(b)
  <2>1. CASE t.remaining = b
    BY <2>1 DEF RestOf
  <2>2. CASE t.remaining = Tail(b)
    <3>1. Tail(b) # <<>> => Head(Tail(b)) # Head(b)
      <4>1. ASSUME Tail(b) # <<>> PROVE Head(Tail(b)) = b[2] /\ 2 \in DOMAIN b /\ 1 \in DOMAIN b
        BY <4>1
      <4>2. Head(b) = b[1] /\ \A k \in DOMAIN b : b[k] \in Nat
        BY IdsType
      <4>3. QED
        BY <4>1, <4>2 DEF Ascending
    <3>2. QED
      BY <2>2, <3>1 DEF RestOf
  <2>3. QED
    BY <2>1, <2>2
<1>3. QED
  BY <1>1, <1>2 DEF Left

-----------------------------------------------------------------------------
(* Which checkpoints are spent *)

LEMMA SpentWrittenBack ==
  ASSUME VettedInv, SpentInv, Spent(store), taken' = taken,
         Recorded \/ (\E h \in Seq(Message) : RecordedSnapshot(h)) \/ UNCHANGED <<store, cache>>
  PROVE  Spent(store)' /\ Spent(cache)'
<1>1. store'.runtime \in {store.runtime, cache.runtime} /\ cache'.runtime = cache.runtime
  BY WrittenBack DEF VettedInv
<1>2. QED
  BY <1>1 DEF SpentInv, Spent

LEMMA SpentStep == VettedInv /\ VettedInv' /\ SpentInv /\ [Next]_vars => SpentInv'
<1>1. ASSUME SpentInv, UNCHANGED <<store, cache, taken>>, UNCHANGED pc \/ pc' = "down"
      PROVE  SpentInv'
  BY <1>1 DEF SpentInv, Spent
<1>2. ASSUME VettedInv, SpentInv, taken' = taken, pc \in {"llm", "gate", "resolve"},
             Recorded \/ \E h \in Seq(Message) : RecordedSnapshot(h)
      PROVE  SpentInv'
  BY <1>2, SpentWrittenBack DEF SpentInv
<1>3. ASSUME VettedInv, VettedInv', SpentInv, Next PROVE SpentInv'
  <2>1. history \in Seq(Message) /\ history' \in Seq(Message)
    BY <1>3 DEF VettedInv, ConfirmTypes
  <2>2. ASSUME NEW n \in 1..MaxBatch, RequestTools(n) PROVE SpentInv'
    BY <1>2, <1>3, <2>2 DEF RequestTools, life
  <2>3. CASE Answer \/ RunRaises
    BY <1>2, <1>3, <2>1, <2>3 DEF Answer, RunRaises, life
  <2>4. CASE RunNextCall \/ GateNextCall
    BY <1>2, <1>3, <2>4 DEF RunNextCall, GateNextCall, life
  <2>5. CASE FinishRound \/ NeedConfirmation
    BY <1>2, <1>3, <2>1, <2>5 DEF FinishRound, NeedConfirmation, life
  <2>6. CASE SaveCheckpoint
    <3>1. taken' = taken
      BY <2>6 DEF SaveCheckpoint, SaveStep, Bookkeeping, life
    <3>2. CASE Bookkeeping
      <4>1. pc' = "snapshot2" /\ (Recorded \/ UNCHANGED <<store, cache>>)
        BY <3>2 DEF Bookkeeping
      <4>2. cache'.runtime = cache.runtime
        BY <1>3, <4>1, WrittenBack DEF VettedInv
      <4>3. QED
        BY <1>3, <3>1, <4>1, <4>2 DEF SpentInv, Spent
    <3>3. CASE ~Bookkeeping
      <4>1. /\ cache' = cache
            /\ pc' = "runtime1" => pc = "snapshot1" /\ SaveSnapshot
            /\ pc' \in {"runtime1", "bookkeeping", "runtime2", "paused"}
        BY <2>6, <3>3 DEF SaveCheckpoint, SaveStep, SaveSnapshot, SaveRuntime
      <4>2. SaveSnapshot => store'.runtime = store.runtime
        BY <1>3 DEF SaveSnapshot, VettedInv, ConfirmTypes, Timeline
      <4>3. QED
        BY <1>3, <3>1, <4>1, <4>2 DEF SpentInv, Spent
    <3>4. QED
      BY <3>2, <3>3
  <2>7. CASE Crash
    BY <1>1, <1>3, <2>7 DEF Crash
  <2>8. CASE Resume \/ ResumeAsync
    <3>1. /\ store' = store /\ cache' \in {store, cache}
          /\ taken' = taken \cup {store.runtime.pending.epoch}
      BY <2>8 DEF Resume, ResumeAsync, Resumed
    <3>2. QED
      BY <1>3, <3>1 DEF SpentInv, Spent
  <2>9. ASSUME NEW verdict \in BOOLEAN, NEW present \in BOOLEAN, Resolve(verdict, present)
        PROVE  SpentInv'
    BY <1>2, <1>3, <2>9 DEF Resolve, life
  <2>10. QED
    BY <1>3, <2>2, <2>3, <2>4, <2>5, <2>6, <2>7, <2>8, <2>9, ZenonT(30)
       DEF Next, ResolvePendingConfirmation, ResolvePendingConfirmationAsync
<1>4. QED
  BY <1>1, <1>3 DEF vars, life

-----------------------------------------------------------------------------
(* The conversation of a resumed agent *)

\* What has to hold of the round and the history after a step.
Answering ==
  /\ pc = "llm" => ReplayValid(history)
  /\ pc \in Awaiting \cup {"gate"} => Ascending(Todo) /\ OpenFor(history, Todo)

\* A step outside a checkpoint's writes.
LEMMA HistoryFrom ==
  ASSUME VettedInv, HistoryInv, SpentInv', UNCHANGED <<setup, crashed, taken, repeats>>,
         pc \notin CheckpointWindow, pc' \in {"llm", "gate", "snapshot1", "ended"},
         ~setup.recorder => store' = store,
         RoundShape', Trusted => Answering'
  PROVE  HistoryInv'
<1>0. Trusted' <=> Trusted
  BY DEF Trusted, Repeated
<1>1. CheckpointWritten' /\ (pc' = "down" => crashed' # "never")
  BY DEF CheckpointWritten
<1>2. ASSUME Trusted PROVE StoreWhole'
  <2>1. StoreWhole
    BY <1>2 DEF HistoryInv
  <2>2. Spent(store)'
    BY DEF SpentInv
  <2>3. ASSUME ~setup.recorder, Restorable' PROVE Resumable(store'.snapshot, store'.runtime)
    BY <2>1, <2>3 DEF StoreWhole, Restorable
  <2>4. QED
    BY <2>2, <2>3 DEF StoreWhole
<1>3. QED
  BY <1>0, <1>1, <1>2 DEF HistoryInv, Answering

LEMMA RecordedStore ==
  ASSUME Recorded \/ \E h : RecordedSnapshot(h)
  PROVE  ~setup.recorder => store' = store
BY DEF Recorded, RecordedSnapshot

LEMMA RequestToolsHistory ==
  ASSUME VettedInv, HistoryInv, SpentInv', VettedInv', NEW n \in 1..MaxBatch, RequestTools(n)
  PROVE  HistoryInv'
<1>1. /\ UNCHANGED <<setup, crashed, taken, repeats, gated>> /\ pc = "llm" /\ pc' = "gate"
      /\ ~setup.recorder => store' = store
      /\ batch' = [k \in 1..n |-> issued + k]
      /\ history' = Append(history, AssistantCalls(batch'))
  BY RecordedStore DEF RequestTools, life
<1>2. gated' = <<>>
  BY <1>1 DEF HistoryInv, RoundShape
<1>3. RoundShape'
  BY <1>1, <1>2 DEF RoundShape, Awaiting, SecondSave
<1>4. batch' \in Seq(Ids) /\ batch' \in Seq(Nat) /\ history \in Seq(Message)
  BY IdsType DEF VettedInv, ConfirmTypes
<1>5. Todo' = batch'
  BY <1>1, <1>2, <1>4, SMTT(30), ZenonT(30) DEF Todo, SecondSave
<1>6. Ascending(batch')
  BY <1>1, ConfirmationAssumption DEF Ascending, VettedInv, ConfirmTypes
<1>7. ASSUME Trusted PROVE OpenFor(history', batch')
  <2>1. ReplayValid(history)
    BY <1>1, <1>7 DEF HistoryInv
  <2>2. QED
    BY <1>1, <1>4, <2>1, OpenForBegins
<1>8. Trusted => Answering'
  BY <1>1, <1>5, <1>6, <1>7 DEF Answering
<1>9. QED
  BY <1>1, <1>3, <1>8, HistoryFrom DEF CheckpointWindow

LEMMA AnswerHistory == ASSUME VettedInv, HistoryInv, SpentInv', Answer PROVE HistoryInv'
<1>1. /\ UNCHANGED <<setup, crashed, taken, repeats, gated, batch>> /\ pc = "llm" /\ pc' = "ended"
      /\ ~setup.recorder => store' = store
  BY RecordedStore DEF Answer, life
<1>2. RoundShape' /\ Answering'
  BY <1>1 DEF HistoryInv, RoundShape, Answering, Awaiting, SecondSave
<1>3. QED
  BY <1>1, <1>2, HistoryFrom DEF CheckpointWindow

LEMMA RunRaisesHistory == ASSUME VettedInv, HistoryInv, SpentInv', RunRaises PROVE HistoryInv'
<1>1. /\ UNCHANGED <<setup, crashed, taken, repeats, gated, batch>>
      /\ pc \in {"llm", "gate"} /\ pc' = "ended"
      /\ ~setup.recorder => store' = store
  BY RecordedStore DEF RunRaises, agent, life
<1>2. RoundShape' /\ Answering'
  BY <1>1 DEF HistoryInv, RoundShape, Answering, Awaiting, SecondSave
<1>3. QED
  BY <1>1, <1>2, HistoryFrom DEF CheckpointWindow

LEMMA RunNextCallHistory ==
  ASSUME VettedInv, HistoryInv, SpentInv', RunNextCall
  PROVE  HistoryInv'
<1>1. /\ UNCHANGED <<setup, crashed, taken, repeats, gated>> /\ pc = "gate" /\ pc' = "gate"
      /\ ~setup.recorder => store' = store
      /\ batch # <<>> /\ batch' = Tail(batch)
      /\ history' = Append(history, ToolResult(Head(batch)))
  BY RecordedStore DEF RunNextCall, life
<1>2. batch \in Seq(Ids) /\ gated \in Seq(Ids) /\ history \in Seq(Message)
  BY DEF VettedInv, ConfirmTypes
<1>3. gated = <<>>
  <2>1. ~setup.parallel => gated = <<>>
    BY DEF HistoryInv, RoundShape
  <2>2. Len(batch) + Len(gated) = 1 => gated = <<>>
    BY <1>1, <1>2
  <2>3. QED
    BY <2>1, <2>2 DEF RunNextCall, InOrder
<1>4. /\ Head(batch) \in Ids /\ Tail(batch) \in Seq(Ids) /\ <<Head(batch)>> \o Tail(batch) = batch
  BY <1>1, <1>2, HeadAndTail
<1>5. Todo = batch /\ Todo' = Tail(batch)
  BY <1>1, <1>2, <1>3, <1>4 DEF Todo, SecondSave
<1>6. ASSUME Trusted PROVE Ascending(Todo') /\ OpenFor(history', Todo')
  <2>1. Ascending(batch) /\ OpenFor(history, batch)
    BY <1>1, <1>5, <1>6 DEF HistoryInv
  <2>2. Ascending(Tail(batch))
    <3>1. <<Head(batch)>> \in Seq(Ids)
      BY <1>4
    <3>2. QED
      BY <1>4, <2>1, <3>1, AscendingSuffix, Zenon
  <2>3. OpenFor(history', Tail(batch))
    BY <1>1, <1>2, <1>4, <2>1, OpenForOne, Zenon
  <2>4. QED
    BY <1>5, <2>2, <2>3
<1>7. RoundShape' /\ (Trusted => Answering')
  BY <1>1, <1>3, <1>6 DEF RoundShape, Answering, Awaiting, SecondSave
<1>8. QED
  BY <1>1, <1>7, HistoryFrom DEF CheckpointWindow

LEMMA GateNextCallHistory ==
  ASSUME VettedInv, HistoryInv, SpentInv', GateNextCall
  PROVE  HistoryInv'
<1>1. /\ UNCHANGED <<setup, crashed, taken, repeats, history>> /\ pc = "gate" /\ pc' = "gate"
      /\ ~setup.recorder => store' = store
      /\ batch # <<>> /\ batch' = Tail(batch) /\ gated' = Append(gated, Head(batch))
      /\ setup.parallel
  BY RecordedStore DEF GateNextCall, life, InOrder
<1>2. batch \in Seq(Ids) /\ gated \in Seq(Ids)
  BY DEF VettedInv, ConfirmTypes
<1>3. Todo' = Todo
  <2>1. Append(gated, Head(batch)) \o Tail(batch) = gated \o batch
    BY <1>1, <1>2, HeadAndTail
  <2>2. QED
    BY <1>1, <2>1 DEF Todo, SecondSave
<1>4. RoundShape' /\ (Trusted => Answering')
  BY <1>1, <1>3 DEF HistoryInv, RoundShape, Answering, Awaiting, SecondSave
<1>5. QED
  BY <1>1, <1>4, HistoryFrom DEF CheckpointWindow

LEMMA FinishRoundHistory ==
  ASSUME VettedInv, HistoryInv, SpentInv', VettedInv', FinishRound
  PROVE  HistoryInv'
<1>1. /\ UNCHANGED <<setup, crashed, taken, repeats, batch>> /\ pc = "gate" /\ pc' = "llm"
      /\ ~setup.recorder => store' = store
      /\ batch = <<>> /\ gated' = <<>> /\ history' = history \o Results(gated)
  BY RecordedStore DEF FinishRound, life, Dispatch
<1>2. /\ gated \in Seq(Ids) /\ history \in Seq(Message) /\ history' \in Seq(Message)
      /\ <<>> \in Seq(Ids)
  BY DEF VettedInv, ConfirmTypes
<1>3. ASSUME Trusted PROVE ReplayValid(history')
  <2>1. OpenFor(history, gated \o <<>>)
    BY <1>1, <1>3 DEF HistoryInv, Todo, SecondSave
  <2>2. OpenFor(history', <<>>)
    BY <1>1, <1>2, <2>1, OpenForContinues, Zenon
  <2>3. QED
    BY <1>2, <2>2, OpenForEnds
<1>4. RoundShape' /\ (Trusted => Answering')
  BY <1>1, <1>3 DEF RoundShape, Answering, Awaiting, SecondSave
<1>5. QED
  BY <1>1, <1>4, HistoryFrom DEF CheckpointWindow

LEMMA NeedConfirmationHistory ==
  ASSUME VettedInv, HistoryInv, SpentInv', NeedConfirmation
  PROVE  HistoryInv'
<1>1. /\ UNCHANGED <<setup, crashed, taken, repeats, history, batch, gated>>
      /\ pc = "gate" /\ pc' = "snapshot1"
      /\ ~setup.recorder => store' = store
      /\ batch # <<>> /\ pending'.call = Head(batch)
  BY RecordedStore DEF NeedConfirmation, life
<1>2. Todo' = Todo
  BY <1>1 DEF Todo, SecondSave
<1>3. RoundShape' /\ (Trusted => Answering')
  BY <1>1, <1>2 DEF HistoryInv, RoundShape, Answering, Awaiting, SecondSave
<1>4. QED
  BY <1>1, <1>3, HistoryFrom DEF CheckpointWindow

\* The writes of a checkpoint: it is whole again with the last one.
LEMMA SaveStepHistory ==
  ASSUME VettedInv, HistoryInv, SaveCheckpoint, ~Bookkeeping
  PROVE  HistoryInv'
<1>1. /\ UNCHANGED <<setup, crashed, taken, repeats, history, batch, gated>>
      /\ UNCHANGED <<pending, remaining>>
      /\ \/ pc = "snapshot1" /\ pc' = "runtime1" /\ SaveSnapshot
         \/ pc = "runtime1" /\ pc' = "bookkeeping" /\ SaveRuntime
         \/ pc = "snapshot2" /\ pc' = "runtime2" /\ SaveSnapshot
         \/ pc = "runtime2" /\ pc' = "paused" /\ SaveRuntime
  BY DEF SaveCheckpoint, SaveStep, agent, life
<1>2. /\ pc \in Awaiting /\ pc' \in Awaiting /\ (pc' \in SecondSave <=> pc \in SecondSave)
      /\ pc' # "down" /\ (pc' \notin CheckpointWindow => pc' = "paused")
  BY <1>1 DEF Awaiting, SecondSave, CheckpointWindow
<1>3. Runtime' = Runtime
  BY <1>1 DEF Runtime
<1>4. Todo' = Todo
  BY <1>1, <1>2, <1>3 DEF Todo
<1>5. RoundShape'
  BY <1>1, <1>2 DEF HistoryInv, RoundShape, Awaiting, SecondSave
<1>6. CheckpointWritten'
  <2>1. store \in Timeline
    BY DEF VettedInv, ConfirmTypes
  <2>2. pc' = "runtime2" => store'.snapshot = history
    BY <1>1, <2>1 DEF SaveSnapshot, Timeline
  <2>3. pc' = "paused" => store'.snapshot = history /\ store'.runtime = Runtime
    BY <1>1, <2>1 DEF SaveRuntime, Timeline, HistoryInv, CheckpointWritten
  <2>4. QED
    BY <1>1, <1>3, <2>2, <2>3 DEF CheckpointWritten
<1>7. ASSUME Trusted
      PROVE  StoreWhole' /\ Ascending(Todo') /\ OpenFor(history', Todo')
  <2>1. StoreWhole /\ Ascending(Todo) /\ OpenFor(history, Todo)
    BY <1>2, <1>7 DEF HistoryInv
  <2>2. ASSUME pc' = "paused" PROVE Resumable(store'.snapshot, store'.runtime)
    <3>1. store'.snapshot = history /\ store'.runtime = Runtime
      BY <1>1, <1>3, <1>6, <2>2 DEF CheckpointWritten
    <3>2. Todo = Left(Runtime)
      BY <1>1, <2>2 DEF Todo, SecondSave
    <3>3. QED
      BY <2>1, <3>1, <3>2 DEF Resumable
  <2>3. StoreWhole'
    BY <1>1, <1>2, <2>1, <2>2 DEF StoreWhole
  <2>4. QED
    BY <1>1, <1>4, <2>1, <2>3
<1>8. Trusted' <=> Trusted
  BY <1>1 DEF Trusted, Repeated
<1>9. QED
  BY <1>1, <1>2, <1>5, <1>6, <1>7, <1>8, SMTT(30), ZenonT(30) DEF HistoryInv, Awaiting, SecondSave

\* The gated calls get their results, the others are remembered.
LEMMA BookkeepingHistory ==
  ASSUME VettedInv, HistoryInv, Bookkeeping
  PROVE  HistoryInv'
<1>1. /\ UNCHANGED <<setup, crashed, taken, repeats, batch, pending>>
      /\ pc = "bookkeeping" /\ pc' = "snapshot2"
      /\ gated' = <<>> /\ history' = history \o Results(gated) /\ remaining' = Unfinished
  BY DEF Bookkeeping, life, Dispatch
<1>2. /\ batch \in Seq(Ids) /\ gated \in Seq(Ids) /\ history \in Seq(Message)
  BY DEF VettedInv, ConfirmTypes
<1>3. batch # <<>> /\ pending.call = Head(batch)
  BY <1>1 DEF HistoryInv, RoundShape, Awaiting, SecondSave
<1>4. RoundShape' /\ CheckpointWritten'
  BY <1>1 DEF RoundShape, CheckpointWritten, Awaiting, SecondSave
<1>5. ASSUME Trusted
      PROVE  StoreWhole' /\ Ascending(Todo') /\ OpenFor(history', Todo')
  <2>1. StoreWhole /\ Ascending(gated \o batch) /\ OpenFor(history, gated \o batch)
    BY <1>1, <1>5 DEF HistoryInv, Todo, Awaiting, SecondSave
  <2>2. Ascending(batch) /\ OpenFor(history', batch)
    BY <1>1, <1>2, <2>1, AscendingSuffix, OpenForContinues
  <2>3. Runtime'.pending.call = Head(batch) /\ Runtime'.remaining \in {batch, Tail(batch)}
    BY <1>1, <1>3 DEF Runtime, Unfinished
  <2>4. Left(Runtime') = batch
    BY <1>2, <1>3, <2>2, <2>3, LeftOfBatch
  <2>5. Todo' = batch
    BY <1>1, <2>4 DEF Todo, SecondSave
  <2>6. StoreWhole'
    BY <1>1, <2>1 DEF StoreWhole, CheckpointWindow
  <2>7. QED
    BY <2>2, <2>5, <2>6
<1>6. Trusted' <=> Trusted
  BY <1>1 DEF Trusted, Repeated
<1>7. QED
  BY <1>1, <1>4, <1>5, <1>6 DEF HistoryInv

\* An agent that crashes outside the writes leaves a whole checkpoint.
LEMMA CrashHistory == ASSUME VettedInv, HistoryInv, Crash PROVE HistoryInv'
<1>1. /\ UNCHANGED <<setup, store, gated, batch, taken, repeats>> /\ pc' = "down"
      /\ crashed' = IF pc \in CheckpointWindow \/ crashed = "torn" THEN "torn" ELSE "clean"
  BY DEF Crash, agent
<1>2. RoundShape' /\ CheckpointWritten' /\ crashed' # "never"
  BY <1>1 DEF HistoryInv, RoundShape, CheckpointWritten, Awaiting, SecondSave
<1>3. ASSUME Trusted' PROVE StoreWhole'
  <2>1. Trusted /\ pc \notin CheckpointWindow
    BY <1>1, <1>3 DEF Trusted, Repeated
  <2>2. QED
    BY <1>1, <2>1 DEF HistoryInv, StoreWhole, Restorable, Spent
<1>4. QED
  BY <1>1, <1>2, <1>3 DEF HistoryInv, Awaiting, SecondSave

\* Resuming a spent checkpoint is counted, so what is trusted afterwards was not
\* spent, or no recorder has touched it.
LEMMA ResumedTrusted ==
  ASSUME VettedInv, Resumed, Trusted'
  PROVE  Trusted /\ ~(setup.recorder /\ Spent(store))
<1>1. /\ UNCHANGED <<setup, crashed, store>> /\ Restorable
      /\ repeats' = [c \in Ids |-> repeats[c] + IF c \in Again(store.runtime) THEN 1 ELSE 0]
  BY DEF Resumed
<1>2. store.runtime \in Checkpoint /\ store.runtime # None /\ repeats \in [Ids -> Nat]
  BY <1>1 DEF VettedInv, ConfirmTypes, Timeline, Restorable
<1>3. Repeated => Repeated'
  <2>1. ASSUME NEW c \in Ids, repeats[c] > 0 PROVE repeats'[c] > 0
    BY <1>1, <1>2, <2>1
  <2>2. QED
    BY <2>1 DEF Repeated
<1>4. ASSUME Spent(store) PROVE Repeated'
  <2> DEFINE rt == store.runtime
  <2>1. rt.pending.epoch \in taken
    BY <1>2, <1>4 DEF Spent
  <2>2. rt.pending.call \in Ids
    BY <1>2, LeftType
  <2>3. 1 \in DOMAIN Left(rt) /\ Left(rt)[1] = rt.pending.call
    BY <1>2, LeftType
  <2>4. rt.pending.call \in Again(rt)
    BY <2>1, <2>3 DEF Again
  <2>5. repeats'[rt.pending.call] = repeats[rt.pending.call] + 1
    BY <1>1, <2>2, <2>4
  <2>6. repeats'[rt.pending.call] > 0
    BY <1>2, <2>2, <2>5
  <2>7. QED
    BY <2>2, <2>6 DEF Repeated
<1>5. QED
  BY <1>1, <1>3, <1>4 DEF Trusted

\* The new agent has the history and the round of the checkpoint.
LEMMA ResumedHistory ==
  ASSUME VettedInv, HistoryInv, Resumed, Restore
  PROVE  HistoryInv'
<1>1. /\ UNCHANGED <<setup, crashed, store>> /\ pc \in {"paused", "ended", "down"}
      /\ pc' = "resolve" /\ taken' = taken \cup {store.runtime.pending.epoch}
      /\ batch' = <<>> /\ gated' = <<>> /\ history' = store.snapshot /\ Restorable
      /\ pending' = store.runtime.pending /\ remaining' = store.runtime.remaining
  BY DEF Resumed, Restore
<1>2. store.runtime \in Checkpoint
  BY <1>1 DEF VettedInv, ConfirmTypes, Timeline, Restorable
<1>3. Runtime' = store.runtime
  BY <1>1, <1>2 DEF Runtime, Checkpoint
<1>4. Todo' = Left(store.runtime)
  BY <1>1, <1>3 DEF Todo, SecondSave
<1>5. ASSUME Trusted' PROVE Resumable(store.snapshot, store.runtime)
  <2>1. Trusted /\ ~(setup.recorder /\ Spent(store))
    BY <1>5, ResumedTrusted
  <2>2. CASE pc = "paused"
    <3>1. store.snapshot = history /\ store.runtime = Runtime /\ Todo = Left(Runtime)
      BY <2>2 DEF HistoryInv, CheckpointWritten, Todo, SecondSave
    <3>2. Ascending(Todo) /\ OpenFor(history, Todo)
      BY <2>1, <2>2 DEF HistoryInv, Awaiting, SecondSave
    <3>3. QED
      BY <3>1, <3>2 DEF Resumable
  <2>3. CASE pc \in {"ended", "down"}
    BY <1>1, <2>1, <2>3 DEF HistoryInv, StoreWhole, CheckpointWindow
  <2>4. QED
    BY <1>1, <2>2, <2>3
<1>6. RoundShape' /\ CheckpointWritten'
  BY <1>1 DEF RoundShape, CheckpointWritten, Awaiting, SecondSave
<1>7. ASSUME Trusted' PROVE StoreWhole' /\ Ascending(Todo') /\ OpenFor(history', Todo')
  <2>1. Resumable(store.snapshot, store.runtime)
    BY <1>5, <1>7
  <2>2. StoreWhole'
    BY <1>1, <2>1 DEF StoreWhole
  <2>3. QED
    BY <1>1, <1>4, <2>1, <2>2 DEF Resumable
<1>8. QED
  BY <1>1, <1>6, <1>7 DEF HistoryInv

LEMMA ResolveHistory ==
  ASSUME VettedInv, HistoryInv, SpentInv', NEW verdict, NEW present, Resolve(verdict, present)
  PROVE  HistoryInv'
<1>1. /\ UNCHANGED <<setup, crashed, taken, repeats, gated>>
      /\ pc = "resolve" /\ pc' = "gate" /\ batch' = Rest
      /\ ~setup.recorder => store' = store
      /\ history' = Append(history, ToolResult(pending.call))
  BY RecordedStore DEF Resolve, life
<1>2. /\ pending.call \in Ids /\ remaining \in Seq(Ids) /\ history \in Seq(Message)
  BY <1>1 DEF VettedInv, ConfirmTypes, Awaiting, SecondSave, Request
<1>3. Rest \in Seq(Ids) /\ gated = <<>>
  <2>1. remaining # <<>> => Tail(remaining) \in Seq(Ids)
    BY <1>2
  <2>2. QED
    BY <1>1, <1>2, <2>1 DEF Rest, RestOf, Runtime, HistoryInv, RoundShape, SecondSave
<1>4. Todo = <<pending.call>> \o Rest /\ Todo' = Rest
  <2>1. RestOf(Runtime) = Rest /\ Runtime.pending = pending
    BY DEF RestOf, Runtime, Rest
  <2>2. QED
    BY <1>1, <1>3, <2>1 DEF Todo, Left, SecondSave
<1>5. ASSUME Trusted PROVE Ascending(Rest) /\ OpenFor(history', Rest)
  <2>1. Ascending(<<pending.call>> \o Rest) /\ OpenFor(history, <<pending.call>> \o Rest)
    BY <1>1, <1>4, <1>5 DEF HistoryInv, Awaiting, SecondSave
  <2>2. <<pending.call>> \in Seq(Ids)
    BY <1>2
  <2>3. QED
    BY <1>1, <1>2, <1>3, <2>1, <2>2, AscendingSuffix, OpenForOne, ZenonT(30)
<1>6. RoundShape' /\ (Trusted => Answering')
  BY <1>1, <1>3, <1>4, <1>5 DEF RoundShape, Answering, Awaiting, SecondSave
<1>7. QED
  BY <1>1, <1>6, HistoryFrom DEF CheckpointWindow

LEMMA HistoryStep ==
  VettedInv /\ VettedInv' /\ HistoryInv /\ SpentInv' /\ [Next]_vars => HistoryInv'
<1>1. ASSUME HistoryInv, UNCHANGED vars PROVE HistoryInv'
  <2>1. /\ UNCHANGED <<setup, pc, crashed, history, batch, gated, pending, remaining, store>>
        /\ UNCHANGED <<taken, repeats>>
    BY <1>1 DEF vars, agent, life
  <2>2. Runtime' = Runtime /\ Todo' = Todo
    BY <2>1 DEF Runtime, Todo
  <2>3. /\ RoundShape' <=> RoundShape
        /\ CheckpointWritten' <=> CheckpointWritten
        /\ StoreWhole' <=> StoreWhole
        /\ Trusted' <=> Trusted
    BY <2>1, <2>2 DEF RoundShape, CheckpointWritten, StoreWhole, Restorable, Spent, Trusted,
                          Repeated
  <2>4. QED
    BY <1>1, <2>1, <2>2, <2>3 DEF HistoryInv
<1>2. ASSUME VettedInv, VettedInv', HistoryInv, SpentInv', Next PROVE HistoryInv'
  <2>1. CASE SaveCheckpoint
    BY <1>2, <2>1, SaveStepHistory, BookkeepingHistory
  <2>2. CASE Resume \/ ResumeAsync
    BY <1>2, <2>2, ResumedHistory DEF Resume, ResumeAsync, Restore, RestoreAsync
  <2>3. ASSUME NEW verdict \in BOOLEAN, NEW present \in BOOLEAN,
               \/ ResolvePendingConfirmation(verdict, present)
               \/ ResolvePendingConfirmationAsync(verdict, present)
        PROVE  HistoryInv'
    BY <1>2, <2>3, ResolveHistory DEF ResolvePendingConfirmation, ResolvePendingConfirmationAsync
  <2>4. QED
    BY <1>2, <2>1, <2>2, <2>3, RequestToolsHistory, AnswerHistory, RunRaisesHistory,
       RunNextCallHistory, GateNextCallHistory, FinishRoundHistory, NeedConfirmationHistory,
       CrashHistory, ZenonT(30) DEF Next
<1>3. QED
  BY <1>1, <1>2

LEMMA HistoryInit == Init => HistoryInv /\ SpentInv
<1> SUFFICES ASSUME Init PROVE HistoryInv /\ SpentInv
  OBVIOUS
<1>1. RoundShape /\ CheckpointWritten /\ StoreWhole
  BY DEF Init, RoundShape, CheckpointWritten, StoreWhole, Restorable, Empty, Awaiting, SecondSave
<1>2. ReplayValid(history)
  <2>1. UserTurn(0) \in Message /\ ~HasToolContent(UserTurn(0))
    BY MessageTypes DEF UserTurn, HasToolContent
  <2>2. history = Append(<<>>, UserTurn(0)) /\ <<>> \in Seq(Message)
    BY <2>1 DEF Init
  <2>3. QED
    BY <2>1, <2>2, EmptyHistory, PlainKeepsPairing, ZenonT(30)
<1>3. SpentInv
  BY DEF Init, SpentInv, Spent, Empty
<1>4. QED
  BY <1>1, <1>2, <1>3 DEF Init, HistoryInv, Awaiting, SecondSave

(***************************************************************************)
(* However often an agent is interrupted and resumed, sequential or        *)
(* parallel, sync or async, with or without a recorder on its store, every *)
(* request it makes has each tool_use answered exactly once and in order.  *)
(* It may crash between any two steps and be resumed twice from one        *)
(* checkpoint.  Excepted are a checkpoint torn by a crash between its      *)
(* writes, and a second resumption where a recorder has written the store  *)
(* in between (agent.py _prepare_call, _execute_tool_calls,                *)
(* _resolve_pending_confirmation, replay/checkpoint.py save and resume).   *)
(***************************************************************************)
THEOREM ResumedHistoriesValid == Spec => []ResumedHistoryValid
<1>1. Init => VettedInv /\ SpentInv /\ HistoryInv
  BY VettedInit, HistoryInit
<1>2. VettedInv /\ SpentInv /\ HistoryInv /\ [Next]_vars
        => VettedInv' /\ SpentInv' /\ HistoryInv'
  BY VettedStep, SpentStep, HistoryStep, SMTT(30), ZenonT(30)
<1>3. HistoryInv => ResumedHistoryValid
  BY DEF HistoryInv, Trusted, ResumedHistoryValid
<1>4. QED
  BY <1>1, <1>2, <1>3, PTL DEF Spec

-----------------------------------------------------------------------------
(* Nothing runs twice *)

\* Only calls of g run in this step, each at most once.
RunsOnly(g) ==
  \A c \in Ids :
    \/ executed'[c] = executed[c]
    \/ /\ \E k \in DOMAIN g : g[k] = c
       /\ \E a \in Argument : executed'[c] = Append(executed[c], a)

\* The first calls of a round run; the others are as fresh as before.
LEMMA OnceRuns ==
  ASSUME ConfirmTypes, OnceInv, crashed = "never", UNCHANGED <<issued, repeats>>,
         NEW g \in Seq(Ids), NEW b \in Seq(Ids), Ascending(g \o b), Fresh(g \o b), RunsOnly(g)
  PROVE  /\ \A c \in Ids : Len(executed'[c]) <= 1 + repeats'[c]
         /\ \A c \in Ids : c > issued' => executed'[c] = <<>>
         /\ Ascending(b)
         /\ \A k \in DOMAIN b : b[k] <= issued' /\ Len(executed'[b[k]]) <= repeats'[b[k]]
<1>1. /\ Len(g) \in Nat /\ Len(b) \in Nat /\ DOMAIN g = 1..Len(g)
      /\ DOMAIN b = 1..Len(b) /\ DOMAIN (g \o b) = 1..(Len(g) + Len(b))
      /\ \A k \in 1..Len(g) : (g \o b)[k] = g[k]
      /\ \A k \in 1..Len(b) : (g \o b)[Len(g) + k] = b[k]
      /\ \A k \in 1..Len(b) : b[k] \in Ids
      /\ \A k \in 1..Len(g) : g[k] \in Ids
  OBVIOUS
<1>2. /\ \A c \in Ids : /\ executed[c] \in Seq(Argument) /\ repeats[c] \in Nat
                        /\ Len(executed[c]) <= 1 + repeats[c]
      /\ \A c \in Ids : c > issued => executed[c] = <<>>
  BY DEF OnceInv, ExecutedAtMostOnce, ConfirmTypes
<1>3. ASSUME NEW k \in 1..Len(g) PROVE Len(executed[g[k]]) <= repeats[g[k]] /\ g[k] <= issued
  <2>1. k \in DOMAIN (g \o b) /\ (g \o b)[k] = g[k]
    BY <1>1
  <2>2. QED
    BY <2>1 DEF Fresh
<1>4. ASSUME NEW c \in Ids PROVE Len(executed'[c]) <= 1 + repeats[c]
  <2>1. CASE executed'[c] = executed[c]
    BY <1>2, <2>1
  <2>2. CASE executed'[c] # executed[c]
    <3>1. PICK k \in 1..Len(g) : g[k] = c
      BY <1>1, <2>2, SMTT(30), ZenonT(30) DEF RunsOnly
    <3>2. Len(executed[c]) <= repeats[c]
      BY <1>3, <3>1
    <3>3. PICK a \in Argument : executed'[c] = Append(executed[c], a)
      BY <2>2, SMTT(30), ZenonT(30) DEF RunsOnly
    <3>4. Len(executed'[c]) = Len(executed[c]) + 1 /\ Len(executed[c]) \in Nat
      BY <1>2, <3>3
    <3>5. QED
      BY <1>2, <3>2, <3>4
  <2>3. QED
    BY <2>1, <2>2
<1>5. ASSUME NEW c \in Ids, c > issued PROVE executed'[c] = <<>>
  <2>1. ~\E k \in DOMAIN g : g[k] = c
    <3>1. issued \in Nat /\ \A k \in DOMAIN g : g[k] \in Nat
      BY <1>1, IdsType, ConfirmationAssumption, SMTT(30), ZenonT(30) DEF ConfirmTypes
    <3>2. QED
      BY <1>1, <1>3, <1>5, <3>1, SMTT(30), ZenonT(30)
  <2>2. QED
    BY <1>2, <1>5, <2>1, SMTT(30), ZenonT(30) DEF RunsOnly
<1>6. ASSUME NEW k \in DOMAIN b PROVE b[k] <= issued /\ Len(executed'[b[k]]) <= repeats[b[k]]
  <2>1. Len(g) + k \in DOMAIN (g \o b) /\ (g \o b)[Len(g) + k] = b[k]
    BY <1>1, SMTT(30), ZenonT(30)
  <2>2. b[k] <= issued /\ Len(executed[b[k]]) <= repeats[b[k]]
    BY <2>1 DEF Fresh
  <2>3. ASSUME NEW j \in DOMAIN g PROVE g[j] # b[k]
    <3>1. j \in DOMAIN (g \o b) /\ j < Len(g) + k /\ (g \o b)[j] = g[j]
      BY <1>1
    <3>2. g[j] < b[k] /\ g[j] \in Nat /\ b[k] \in Nat
      BY <1>1, <2>1, <3>1, IdsType, SMTT(30), ZenonT(30) DEF Ascending
    <3>3. QED
      BY <3>2
  <2>4. executed'[b[k]] = executed[b[k]]
    BY <1>1, <2>3, SMTT(30), ZenonT(30) DEF RunsOnly
  <2>5. QED
    BY <2>2, <2>4
<1>7. Ascending(b)
  BY AscendingSuffix
<1>8. QED
  BY <1>4, <1>5, <1>6, <1>7, SMTT(30), ZenonT(30)

LEMMA ExecuteRunsOnly ==
  ASSUME ConfirmTypes, NEW s \in Seq(Ids), Execute(s)
  PROVE  RunsOnly(s)
BY ExecuteFacts, ArgumentsType, SMTT(30), ZenonT(30) DEF RunsOnly

LEMMA OnceFrom ==
  ASSUME crashed' = "never" =>
           /\ \A c \in Ids : Len(executed'[c]) <= 1 + repeats'[c]
           /\ \A c \in Ids : c > issued' => executed'[c] = <<>>
           /\ pc' \notin {"ended", "down"} =>
                /\ Ascending(Todo')
                /\ \A k \in DOMAIN Todo' :
                     Todo'[k] <= issued' /\ Len(executed'[Todo'[k]]) <= repeats'[Todo'[k]]
  PROVE  OnceInv'
BY SMTT(30), ZenonT(30) DEF OnceInv, ExecutedAtMostOnce, Fresh, Ascending

LEMMA RequestToolsOnce ==
  ASSUME VettedInv, VettedInv', HistoryInv, OnceInv, NEW n \in 1..MaxBatch, RequestTools(n)
  PROVE  OnceInv'
<1>1. /\ pc = "llm" /\ pc' = "gate" /\ UNCHANGED <<crashed, executed, repeats, gated>>
      /\ batch' = [k \in 1..n |-> issued + k] /\ issued' = issued + n
  BY DEF RequestTools, life, log
<1>2. gated = <<>> /\ batch' \in Seq(Ids)
  BY <1>1 DEF HistoryInv, RoundShape, VettedInv, ConfirmTypes
<1>3. Todo' = batch'
  BY <1>1, <1>2, SMTT(30), ZenonT(30) DEF Todo, SecondSave
<1>4. issued \in Nat /\ n \in Nat
  BY ConfirmationAssumption DEF VettedInv, ConfirmTypes
<1>5. ASSUME NEW k \in DOMAIN batch'
      PROVE  batch'[k] \in Ids /\ batch'[k] > issued /\ batch'[k] <= issued'
  <2>1. k \in 1..n /\ batch'[k] = issued + k
    BY <1>1
  <2>2. batch'[k] \in Ids
    BY <1>2
  <2>3. QED
    BY <1>1, <1>4, <2>1, <2>2
<1>6. \A c \in Ids : c \in Nat /\ (c > issued' => c > issued)
  BY <1>1, <1>4, IdsType, SMTT(30), ZenonT(30)
<1>7. Ascending(batch')
  BY <1>1, <1>4 DEF Ascending
<1>8. ASSUME crashed = "never", NEW k \in DOMAIN batch'
      PROVE  Len(executed'[batch'[k]]) <= repeats'[batch'[k]]
  <2>1. executed[batch'[k]] = <<>> /\ repeats[batch'[k]] \in Nat
    BY <1>5, <1>8 DEF OnceInv, VettedInv, ConfirmTypes
  <2>2. QED
    BY <1>1, <2>1
<1>9. QED
  BY <1>1, <1>3, <1>5, <1>6, <1>7, <1>8, OnceFrom, SMTT(30), ZenonT(30)
     DEF OnceInv, ExecutedAtMostOnce

\* Steps that run nothing and leave what is to do.
LEMMA NothingRunsOnce ==
  ASSUME OnceInv, UNCHANGED <<executed, issued, repeats>>,
         crashed' = "never" => crashed = "never",
         pc' \notin {"ended", "down"} /\ crashed' = "never"
           => Todo' = Todo /\ pc \notin {"ended", "down"}
  PROVE  OnceInv'
BY OnceFrom, SMTT(30), ZenonT(30) DEF OnceInv, ExecutedAtMostOnce, Fresh

LEMMA RunNextCallOnce ==
  ASSUME VettedInv, HistoryInv, OnceInv, RunNextCall
  PROVE  OnceInv'
<1>1. /\ pc = "gate" /\ pc' = "gate" /\ UNCHANGED <<crashed, issued, repeats, gated>>
      /\ batch # <<>> /\ batch' = Tail(batch) /\ Execute(<<Head(batch)>>)
  BY DEF RunNextCall, life
<1>2. batch \in Seq(Ids) /\ gated \in Seq(Ids) /\ ConfirmTypes
  BY DEF VettedInv, ConfirmTypes
<1>3. gated = <<>>
  <2>1. ~setup.parallel => gated = <<>>
    BY DEF HistoryInv, RoundShape
  <2>2. Len(batch) + Len(gated) = 1 => gated = <<>>
    BY <1>1, <1>2
  <2>3. QED
    BY <2>1, <2>2 DEF RunNextCall, InOrder
<1>4. /\ Head(batch) \in Ids /\ Tail(batch) \in Seq(Ids) /\ <<Head(batch)>> \o Tail(batch) = batch
      /\ <<Head(batch)>> \in Seq(Ids)
  BY <1>1, <1>2, HeadAndTail
<1>5. Todo = batch /\ Todo' = Tail(batch)
  BY <1>1, <1>2, <1>3, <1>4, SMTT(30), ZenonT(30) DEF Todo, SecondSave
<1>6. ASSUME crashed = "never" PROVE Ascending(batch) /\ Fresh(batch)
  BY <1>1, <1>5, <1>6 DEF OnceInv
<1>7. RunsOnly(<<Head(batch)>>)
  BY <1>1, <1>2, <1>4, ExecuteRunsOnly, Zenon
<1>8. ASSUME crashed = "never"
      PROVE  /\ \A c \in Ids : Len(executed'[c]) <= 1 + repeats'[c]
             /\ \A c \in Ids : c > issued' => executed'[c] = <<>>
             /\ Ascending(Tail(batch))
             /\ \A k \in DOMAIN Tail(batch) :
                  /\ Tail(batch)[k] <= issued'
                  /\ Len(executed'[Tail(batch)[k]]) <= repeats'[Tail(batch)[k]]
  BY <1>1, <1>2, <1>4, <1>6, <1>7, <1>8, OnceRuns, ZenonT(30)
<1>9. QED
  BY <1>1, <1>5, <1>8, OnceFrom, SMTT(30), ZenonT(30)

\* The dispatch of the gated calls.
LEMMA DispatchOnce ==
  ASSUME VettedInv, HistoryInv, OnceInv, Dispatch, UNCHANGED <<crashed, issued, repeats, batch>>,
         pc \in {"gate", "bookkeeping"}, Todo' = batch
  PROVE  OnceInv'
<1>1. batch \in Seq(Ids) /\ gated \in Seq(Ids) /\ ConfirmTypes
  BY DEF VettedInv, ConfirmTypes
<1>2. Todo = gated \o batch
  BY DEF Todo, SecondSave
<1>3. RunsOnly(gated)
  BY <1>1, ExecuteRunsOnly DEF Dispatch
<1>4. ASSUME crashed = "never"
      PROVE  /\ \A c \in Ids : Len(executed'[c]) <= 1 + repeats'[c]
             /\ \A c \in Ids : c > issued' => executed'[c] = <<>>
             /\ Ascending(batch)
             /\ \A k \in DOMAIN batch :
                  batch[k] <= issued' /\ Len(executed'[batch[k]]) <= repeats'[batch[k]]
  <2>1. Ascending(gated \o batch) /\ Fresh(gated \o batch)
    BY <1>2, <1>4 DEF OnceInv
  <2>2. QED
    BY <1>1, <1>3, <1>4, <2>1, OnceRuns, SMTT(30), ZenonT(30)
<1>5. QED
  BY <1>4, OnceFrom

LEMMA FinishRoundOnce ==
  ASSUME VettedInv, HistoryInv, OnceInv, FinishRound
  PROVE  OnceInv'
<1>1. /\ Dispatch /\ UNCHANGED <<crashed, issued, repeats, batch>> /\ pc = "gate" /\ pc' = "llm"
      /\ batch = <<>> /\ gated' = <<>>
  BY DEF FinishRound, life, Dispatch
<1>2. Todo' = batch
  BY <1>1 DEF Todo, SecondSave
<1>3. QED
  BY <1>1, <1>2, DispatchOnce

LEMMA BookkeepingOnce ==
  ASSUME VettedInv, HistoryInv, OnceInv, Bookkeeping
  PROVE  OnceInv'
<1>1. /\ Dispatch /\ UNCHANGED <<crashed, issued, repeats, batch, pending>>
      /\ pc = "bookkeeping" /\ pc' = "snapshot2" /\ remaining' = Unfinished
  BY DEF Bookkeeping, life
<1>2. batch \in Seq(Ids) /\ gated \in Seq(Ids)
  BY DEF VettedInv, ConfirmTypes
<1>3. CASE crashed # "never"
  BY <1>1, <1>3, OnceFrom
<1>4. CASE crashed = "never"
  <2>1. Ascending(gated \o batch) /\ batch # <<>> /\ pending.call = Head(batch)
    BY <1>1, <1>4 DEF OnceInv, HistoryInv, RoundShape, Todo, Awaiting, SecondSave
  <2>2. Ascending(batch)
    BY <1>2, <2>1, AscendingSuffix, SMTT(30), ZenonT(30)
  <2>3. Runtime'.pending.call = Head(batch) /\ Runtime'.remaining \in {batch, Tail(batch)}
    BY <1>1, <2>1 DEF Runtime, Unfinished
  <2>4. Left(Runtime') = batch
    BY <1>2, <2>1, <2>2, <2>3, LeftOfBatch, SMTT(30), ZenonT(30)
  <2>5. Todo' = batch
    BY <1>1, <2>4 DEF Todo, SecondSave
  <2>6. QED
    BY <1>1, <2>5, DispatchOnce, SMTT(30), ZenonT(30)
<1>5. QED
  BY <1>3, <1>4

\* The calls of the checkpoint wait in the agent as they are, or they are counted
\* once more.
LEMMA ResumedOnce ==
  ASSUME VettedInv, VettedInv', SpentInv, HistoryInv, OnceInv, KnownInv, Resumed, Restore
  PROVE  OnceInv'
<1> DEFINE rt == store.runtime
           s  == Left(rt)
<1>1. /\ UNCHANGED <<crashed, issued, executed>> /\ pc \in {"paused", "ended", "down"}
      /\ pc' = "resolve" /\ pending' = rt.pending /\ remaining' = rt.remaining
      /\ Restorable
      /\ repeats' = [c \in Ids |-> repeats[c] + IF c \in Again(rt) THEN 1 ELSE 0]
  BY DEF Resumed, Restore, log
<1>2. rt \in Checkpoint /\ rt # None /\ repeats \in [Ids -> Nat]
  BY <1>1 DEF VettedInv, ConfirmTypes, Timeline, Restorable
<1>3. Todo' = s
  <2>1. Runtime' = rt
    BY <1>1, <1>2 DEF Runtime, Checkpoint
  <2>2. QED
    BY <1>1, <2>1 DEF Todo, SecondSave
<1>4. \A c \in Ids : /\ repeats[c] \in Nat /\ repeats'[c] \in Nat /\ repeats[c] <= repeats'[c]
                     /\ c \in Again(rt) => repeats'[c] = repeats[c] + 1
  BY <1>1, <1>2
<1>5. s \in Seq(Ids)
  BY <1>2, LeftType
<1>6. \A c \in Ids : executed[c] \in Seq(Argument)
  BY DEF VettedInv, ConfirmTypes
<1> HIDE DEF rt, s
<1> DEFINE Runs(c) == Len(executed[c])
<1>7. ASSUME crashed = "never"
      PROVE  /\ \A c \in Ids : Len(executed[c]) <= 1 + repeats'[c]
             /\ Ascending(s)
             /\ \A k \in DOMAIN s : s[k] <= issued /\ Len(executed[s[k]]) <= repeats'[s[k]]
  <2>1. /\ \A c \in Ids : Len(executed[c]) <= 1 + repeats[c] /\ Len(executed[c]) \in Nat
        /\ Ascending(s) /\ \A k \in DOMAIN s : s[k] <= issued
        /\ pc # "down"
    BY <1>2, <1>6, <1>7 DEF OnceInv, ExecutedAtMostOnce, KnownInv, Known, HistoryInv, rt, s
  <2>2. \A c \in Ids : Runs(c) \in Nat /\ Runs(c) <= 1 + repeats[c]
    BY <2>1
  <2>3. ASSUME NEW c \in Ids, rt.pending.epoch \notin taken, \E k \in DOMAIN s : s[k] = c
        PROVE  Runs(c) <= repeats[c]
    <3>1. pc = "paused"
      BY <1>1, <1>2, <2>1, <2>3 DEF SpentInv, Spent, rt
    <3>2. Todo = s
      BY <3>1 DEF HistoryInv, CheckpointWritten, Todo, SecondSave, rt, s
    <3>3. QED
      BY <1>7, <2>3, <3>1, <3>2 DEF OnceInv, Fresh
  <2>4. ASSUME NEW c \in Ids, rt.pending.epoch \in taken, \E k \in DOMAIN s : s[k] = c
        PROVE  c \in Again(rt)
    BY <2>4 DEF Again, s
  <2> HIDE DEF Runs
  <2>5. ASSUME NEW c \in Ids
        PROVE  /\ Runs(c) <= 1 + repeats'[c]
               /\ (\E k \in DOMAIN s : s[k] = c) => Runs(c) <= repeats'[c]
    <3>1. /\ Runs(c) \in Nat /\ Runs(c) <= 1 + repeats[c]
          /\ repeats[c] \in Nat /\ repeats'[c] \in Nat /\ repeats[c] <= repeats'[c]
          /\ c \in Again(rt) => repeats'[c] = repeats[c] + 1
      BY <1>4, <2>2
    <3>2. CASE c \in Again(rt)
      BY <3>1, <3>2
    <3>3. CASE c \notin Again(rt)
      BY <2>3, <2>4, <3>1, <3>3
    <3>4. QED
      BY <3>2, <3>3
  <2>6. \A k \in DOMAIN s : Runs(s[k]) <= repeats'[s[k]]
    BY <1>5, <2>5
  <2>7. QED
    BY <2>1, <2>5, <2>6 DEF Runs
<1>8. \A c \in Ids : crashed = "never" /\ c > issued => executed[c] = <<>>
  BY DEF OnceInv
<1>9. QED
  BY <1>1, <1>3, <1>7, <1>8, OnceFrom, SMTT(30), ZenonT(30)

\* The verdict runs the pending call, which has not run.
LEMMA ResolveOnce ==
  ASSUME VettedInv, HistoryInv, OnceInv, NEW verdict, NEW present, Resolve(verdict, present)
  PROVE  OnceInv'
<1>1. /\ UNCHANGED <<crashed, gated, issued, repeats>>
      /\ pc = "resolve" /\ pc' = "gate" /\ batch' = Rest
      /\ Ran(IF verdict /\ present THEN {pending} ELSE {})
  BY DEF Resolve, life
<1>2. pending \in Request /\ pending.call \in Ids /\ remaining \in Seq(Ids) /\ ConfirmTypes
  BY <1>1 DEF VettedInv, ConfirmTypes, Awaiting, SecondSave, Request
<1>3. Rest \in Seq(Ids) /\ gated = <<>> /\ <<pending.call>> \in Seq(Ids)
  <2>1. remaining # <<>> => Tail(remaining) \in Seq(Ids)
    BY <1>2
  <2>2. QED
    BY <1>1, <1>2, <2>1 DEF Rest, RestOf, Runtime, HistoryInv, RoundShape, SecondSave
<1>4. Todo = <<pending.call>> \o Rest /\ Todo' = Rest
  <2>1. RestOf(Runtime) = Rest /\ Runtime.pending = pending
    BY DEF RestOf, Runtime, Rest
  <2>2. QED
    BY <1>1, <1>3, <2>1 DEF Todo, Left, SecondSave
<1>5. RunsOnly(<<pending.call>>)
  <2>1. PICK runs : runs = (IF verdict /\ present THEN {pending} ELSE {}) /\ Ran(runs)
    BY <1>1
  <2>2. \A r \in runs : r = pending /\ r.call \in Ids /\ r.arguments \in Argument
    BY <1>2, <2>1, SMTT(30), ZenonT(30) DEF Request
  <2>3. \A c \in Ids : \/ executed'[c] = executed[c]
                      \/ \E r \in runs : /\ r.call = c
                                         /\ executed'[c] = Append(executed[c], r.arguments)
    BY <1>2, <2>1, <2>2, RanFacts
  <2>4. pending.arguments \in Argument
    BY <1>2 DEF Request
  <2>5. 1 \in DOMAIN <<pending.call>> /\ <<pending.call>>[1] = pending.call
    OBVIOUS
  <2>6. QED
    BY <2>2, <2>3, <2>4, <2>5, ZenonT(30) DEF RunsOnly
<1>6. ASSUME crashed = "never"
      PROVE  /\ \A c \in Ids : Len(executed'[c]) <= 1 + repeats'[c]
             /\ \A c \in Ids : c > issued' => executed'[c] = <<>>
             /\ Ascending(Rest)
             /\ \A k \in DOMAIN Rest :
                  Rest[k] <= issued' /\ Len(executed'[Rest[k]]) <= repeats'[Rest[k]]
  <2>1. Ascending(<<pending.call>> \o Rest) /\ Fresh(<<pending.call>> \o Rest)
    BY <1>1, <1>4, <1>6 DEF OnceInv
  <2>2. QED
    BY <1>1, <1>2, <1>3, <1>5, <1>6, <2>1, OnceRuns, ZenonT(30)
<1>7. QED
  BY <1>1, <1>4, <1>6, OnceFrom

LEMMA OnceStep ==
  /\ VettedInv /\ VettedInv' /\ SpentInv /\ HistoryInv /\ OnceInv /\ KnownInv
  /\ [Next]_vars
  => OnceInv'
<1>1. ASSUME OnceInv, UNCHANGED vars PROVE OnceInv'
  <2>1. Todo' = Todo /\ UNCHANGED <<pc, executed, issued, crashed, repeats>>
    BY <1>1 DEF vars, agent, life, log, Todo, Runtime
  <2>2. QED
    BY <1>1, <2>1, NothingRunsOnce, SMTT(30), ZenonT(30)
<1>2. ASSUME VettedInv, VettedInv', SpentInv, HistoryInv, OnceInv, KnownInv, Next PROVE OnceInv'
  <2>1. CASE SaveCheckpoint
    <3>1. CASE Bookkeeping
      BY <1>2, <3>1, BookkeepingOnce
    <3>2. CASE ~Bookkeeping
      <4>1. /\ UNCHANGED <<pending, remaining, gated, batch, executed, issued, crashed, repeats>>
            /\ \/ pc = "snapshot1" /\ pc' = "runtime1"
               \/ pc = "runtime1" /\ pc' = "bookkeeping"
               \/ pc = "snapshot2" /\ pc' = "runtime2"
               \/ pc = "runtime2" /\ pc' = "paused"
        BY <2>1, <3>2 DEF SaveCheckpoint, SaveStep, agent, life, log
      <4>2. Todo' = Todo /\ pc \notin {"ended", "down"}
        BY <4>1 DEF Todo, Runtime, SecondSave
      <4>3. QED
        BY <1>2, <4>1, <4>2, NothingRunsOnce, SMTT(30), ZenonT(30)
    <3>3. QED
      BY <3>1, <3>2
  <2>2. CASE Resume \/ ResumeAsync
    BY <1>2, <2>2, ResumedOnce DEF Resume, ResumeAsync, Restore, RestoreAsync
  <2>3. ASSUME NEW verdict \in BOOLEAN, NEW present \in BOOLEAN,
               \/ ResolvePendingConfirmation(verdict, present)
               \/ ResolvePendingConfirmationAsync(verdict, present)
        PROVE  OnceInv'
    BY <1>2, <2>3, ResolveOnce DEF ResolvePendingConfirmation, ResolvePendingConfirmationAsync
  <2>4. CASE Answer \/ RunRaises
    BY <1>2, <2>4, NothingRunsOnce, SMTT(30), ZenonT(30) DEF Answer, RunRaises, life, log
  <2>5. CASE Crash
    BY <1>2, <2>5, OnceFrom DEF Crash
  <2>6. CASE NeedConfirmation
    <3>1. /\ UNCHANGED <<gated, batch, executed, issued, crashed, repeats>>
          /\ pc = "gate" /\ pc' = "snapshot1"
      BY <2>6 DEF NeedConfirmation, life, log
    <3>2. Todo' = Todo
      BY <3>1 DEF Todo, SecondSave
    <3>3. QED
      BY <1>2, <3>1, <3>2, NothingRunsOnce, SMTT(30), ZenonT(30)
  <2>7. CASE GateNextCall
    <3>1. /\ UNCHANGED <<executed, issued, crashed, repeats>> /\ pc = "gate" /\ pc' = "gate"
          /\ batch # <<>> /\ batch' = Tail(batch) /\ gated' = Append(gated, Head(batch))
      BY <2>7 DEF GateNextCall, life, log
    <3>2. Append(gated, Head(batch)) \o Tail(batch) = gated \o batch
      BY <1>2, <3>1, HeadAndTail, ZenonT(30) DEF VettedInv, ConfirmTypes
    <3>3. Todo' = Todo
      BY <3>1, <3>2, SMTT(30), ZenonT(30) DEF Todo, SecondSave
    <3>4. QED
      BY <1>2, <3>1, <3>3, NothingRunsOnce
  <2>8. QED
    BY <1>2, <2>1, <2>2, <2>3, <2>4, <2>5, <2>6, <2>7, RequestToolsOnce, RunNextCallOnce,
       FinishRoundOnce, ZenonT(30) DEF Next
<1>3. QED
  BY <1>1, <1>2

\* What is written to the store lists calls that were requested, in their order.
LEMMA KnownStep ==
  VettedInv /\ VettedInv' /\ HistoryInv /\ OnceInv /\ KnownInv /\ [Next]_vars => KnownInv'
<1>1. ASSUME VettedInv, VettedInv', KnownInv, crashed' = crashed, issued <= issued',
             crashed = "never" /\ pc' \notin SecondSave => remaining' = <<>>,
             {store'.runtime, cache'.runtime} \subseteq {store.runtime, cache.runtime}
      PROVE  KnownInv'
  <2>1. issued \in Nat /\ issued' \in Nat
    BY <1>1, ConfirmationAssumption DEF VettedInv, ConfirmTypes
  <2>2. ASSUME NEW rt \in {store.runtime, cache.runtime}, rt # None, crashed = "never"
        PROVE  Ascending(Left(rt)) /\ \A k \in DOMAIN Left(rt) : Left(rt)[k] <= issued'
    <3>1. Ascending(Left(rt)) /\ \A k \in DOMAIN Left(rt) : Left(rt)[k] <= issued
      BY <1>1, <2>2 DEF KnownInv, Known
    <3>2. rt \in Checkpoint
      BY <1>1, <2>2 DEF VettedInv, ConfirmTypes, Timeline
    <3>3. \A k \in DOMAIN Left(rt) : Left(rt)[k] \in Nat
      <4>1. Left(rt) \in Seq(Ids)
        BY <3>2, LeftType
      <4>2. QED
        BY <4>1, IdsType
    <3>4. QED
      BY <1>1, <2>1, <3>1, <3>3
  <2>3. QED
    BY <1>1, <2>2 DEF KnownInv, Known
<1>2. ASSUME VettedInv, VettedInv', KnownInv, crashed' = crashed, issued <= issued',
             crashed = "never" /\ pc' \notin SecondSave => remaining' = <<>>,
             Recorded \/ (\E h \in Seq(Message) : RecordedSnapshot(h)) \/ UNCHANGED <<store, cache>>
      PROVE  KnownInv'
  <2>1. store'.runtime \in {store.runtime, cache.runtime} /\ cache'.runtime = cache.runtime
    BY <1>2, WrittenBack DEF VettedInv
  <2>2. QED
    BY <1>1, <1>2, <2>1
<1>3. ASSUME VettedInv, VettedInv', HistoryInv, OnceInv, KnownInv, Next PROVE KnownInv'
  <2>0. /\ history' \in Seq(Message) /\ issued \in Nat /\ issued <= issued
        /\ crashed = "never" /\ pc \in {"llm", "gate"} => remaining = <<>>
    BY <1>3, ConfirmationAssumption DEF VettedInv, ConfirmTypes, KnownInv, SecondSave
  <2>1. ASSUME NEW n \in 1..MaxBatch, RequestTools(n) PROVE KnownInv'
    <3>1. issued <= issued'
      BY <2>0, <2>1 DEF RequestTools
    <3>2. QED
      BY <1>2, <1>3, <2>0, <2>1, <3>1 DEF RequestTools, life
  <2>2. CASE Answer \/ RunRaises
    BY <1>2, <1>3, <2>0, <2>2 DEF Answer, RunRaises, agent, life
  <2>3. CASE RunNextCall \/ GateNextCall
    BY <1>2, <1>3, <2>0, <2>3 DEF RunNextCall, GateNextCall, life
  <2>4. CASE FinishRound \/ NeedConfirmation
    BY <1>2, <1>3, <2>0, <2>4 DEF FinishRound, NeedConfirmation, life
  <2>5. CASE Bookkeeping
    BY <1>2, <1>3, <2>0, <2>5 DEF Bookkeeping, life, SecondSave
  <2>6. CASE SaveCheckpoint /\ ~Bookkeeping
    <3>1. /\ UNCHANGED <<crashed, issued, remaining, cache>>
          /\ pc' \in SecondSave <=> pc \in SecondSave
          /\ \/ SaveSnapshot
             \/ pc \in {"runtime1", "runtime2"} /\ SaveRuntime
      BY <2>6 DEF SaveCheckpoint, SaveStep, SaveSnapshot, SaveRuntime, agent, life, SecondSave
    <3>2. crashed = "never" /\ pc' \notin SecondSave => remaining' = <<>>
      BY <1>3, <3>1 DEF KnownInv
    <3>3. CASE SaveSnapshot
      <4>1. store'.runtime = store.runtime
        BY <1>3, <3>3 DEF SaveSnapshot, VettedInv, ConfirmTypes, Timeline
      <4>2. QED
        BY <1>1, <1>3, <2>0, <3>1, <3>2, <4>1
    <3>4. CASE pc \in {"runtime1", "runtime2"} /\ SaveRuntime
      <4>1. store'.runtime = Runtime
        BY <1>3, <3>4 DEF SaveRuntime, VettedInv, ConfirmTypes, Timeline
      <4>2. ASSUME crashed = "never"
            PROVE  Ascending(Left(Runtime)) /\ \A k \in DOMAIN Left(Runtime) : Left(Runtime)[k] <= issued
        <5>1. Ascending(Todo) /\ Fresh(Todo)
          BY <1>3, <3>4, <4>2 DEF OnceInv
        <5>2. CASE pc = "runtime2"
          BY <5>1, <5>2 DEF Todo, SecondSave, Fresh
        <5>3. CASE pc = "runtime1"
          <6>1. /\ remaining = <<>> /\ Todo = gated \o batch /\ batch # <<>>
                /\ pending.call = Head(batch)
            BY <1>3, <4>2, <5>3 DEF KnownInv, Todo, HistoryInv, RoundShape, Awaiting, SecondSave
          <6>2. batch \in Seq(Ids) /\ gated \in Seq(Ids)
            BY <1>3 DEF VettedInv, ConfirmTypes
          <6>3. Len(gated) + 1 \in DOMAIN Todo /\ Todo[Len(gated) + 1] = pending.call
            BY <6>1, <6>2
          <6>4. pending.call <= issued
            BY <5>1, <6>3 DEF Fresh
          <6>5. Left(Runtime) = <<pending.call>>
            <7>1. Runtime.remaining = <<>> /\ Runtime.pending.call = pending.call
              BY <6>1 DEF Runtime
            <7>2. RestOf(Runtime) = <<>>
              BY <7>1 DEF RestOf
            <7>3. QED
              BY <7>1, <7>2 DEF Left
          <6>6. QED
            BY <6>4, <6>5 DEF Ascending
        <5>4. QED
          BY <3>4, <5>2, <5>3
      <4>3. QED
        BY <1>3, <3>1, <3>2, <4>1, <4>2 DEF KnownInv, Known
    <3>5. QED
      BY <3>1, <3>3, <3>4
  <2>7. CASE Crash
    BY <2>7 DEF Crash, KnownInv
  <2>8. CASE Resume \/ ResumeAsync
    <3>1. /\ UNCHANGED <<store, crashed, issued>> /\ cache' \in {store, cache}
          /\ pc' \in SecondSave
      BY <2>8 DEF Resume, ResumeAsync, Resumed, SecondSave
    <3>2. QED
      BY <1>1, <1>3, <2>0, <3>1
  <2>9. ASSUME NEW verdict \in BOOLEAN, NEW present \in BOOLEAN, Resolve(verdict, present)
        PROVE  KnownInv'
    BY <1>2, <1>3, <2>0, <2>9 DEF Resolve, life
  <2>10. QED
    BY <1>3, <2>1, <2>2, <2>3, <2>4, <2>5, <2>6, <2>7, <2>8, <2>9, ZenonT(30)
       DEF Next, ResolvePendingConfirmation, ResolvePendingConfirmationAsync
<1>4. ASSUME VettedInv, VettedInv', KnownInv, UNCHANGED vars PROVE KnownInv'
  <2>1. issued <= issued' /\ UNCHANGED <<crashed, pc, remaining, store, cache>>
    BY <1>4, ConfirmationAssumption DEF vars, agent, life, VettedInv, ConfirmTypes
  <2>2. QED
    BY <1>1, <1>4, <2>1 DEF KnownInv
<1>5. QED
  BY <1>3, <1>4

(***************************************************************************)
(* Without a crash no call is executed twice, however often the run is     *)
(* paused and resumed and whichever calls of the round had passed the gate *)
(* before the pause, a recorder that shares the store included; except     *)
(* that resuming a checkpoint again, which the code does not prevent, may  *)
(* run the calls it lists as not done once more (agent.py                  *)
(* _resolve_pending_confirmation, "never emit a duplicate tool result").   *)
(***************************************************************************)
THEOREM NothingExecutedTwice == Spec => []ExecutedAtMostOnce
<1>1. Init => OnceInv /\ KnownInv
  <2> SUFFICES ASSUME Init PROVE OnceInv /\ KnownInv
    OBVIOUS
  <2>1. /\ Todo = <<>> /\ \A c \in Ids : executed[c] = <<>> /\ repeats[c] = 0
    BY DEF Init, Todo, SecondSave
  <2>2. OnceInv
    BY <2>1 DEF OnceInv, ExecutedAtMostOnce, Ascending, Fresh
  <2>3. KnownInv
    BY DEF Init, KnownInv, Known, Empty
  <2>4. QED
    BY <2>2, <2>3
<1>2. Init => VettedInv /\ SpentInv /\ HistoryInv /\ OnceInv /\ KnownInv
  BY <1>1, VettedInit, HistoryInit
<1>3. VettedInv /\ SpentInv /\ HistoryInv /\ OnceInv /\ KnownInv /\ [Next]_vars
        => VettedInv' /\ SpentInv' /\ HistoryInv' /\ OnceInv' /\ KnownInv'
  BY VettedStep, SpentStep, HistoryStep, OnceStep, KnownStep, SMTT(30), ZenonT(30)
<1>4. OnceInv => ExecutedAtMostOnce
  BY DEF OnceInv, ExecutedAtMostOnce
<1>5. QED
  BY <1>2, <1>3, <1>4, PTL DEF Spec
=============================================================================
