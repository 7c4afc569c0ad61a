---------------------------- MODULE EventProofs -----------------------------
(***************************************************************************)
(* Theorems about runs that share a memory, an event bus and a tracer: the *)
(* memory file and the spans of EventStream, for any number of runs, turns *)
(* and calls and any subscribers.                                          *)
(***************************************************************************)
EXTENDS EventStream, TLAPS

-----------------------------------------------------------------------------
(***************************************************************************)
(* The memory file                                                         *)
(***************************************************************************)
CallShape(c) ==
  c = [op |-> c.op, phase |-> c.phase, payload |-> c.payload, alone |-> c.alone, failed |-> c.failed]

\* A call nobody overlapped is the only one, and what it is about to write or to
\* remove is what the memory holds.
MemoryInv ==
  /\ DOMAIN call = Runners /\ call = [a \in Runners |-> call[a]]
  /\ \A a \in Runners :
       /\ CallShape(call[a])
       /\ ~Free(a) /\ call[a].alone =>
            /\ \A b \in Runners \ {a} : Free(b)
            /\ call[a].phase = "unlink" => entries = {}
            /\ call[a].phase \in {"collect", "replace"} => entries # {}
            /\ call[a].phase = "replace" => call[a].payload = entries

\* A call that ends leaves the other calls alone.
LEMMA CallEnds ==
  ASSUME MemoryInv, NEW a \in Runners, NEW c \in {Idle, Failed}, call' = [call EXCEPT ![a] = c],
         UNCHANGED entries
  PROVE  MemoryInv'
BY DEF MemoryInv, CallShape, Free, Idle, Failed

\* A call that goes on.
LEMMA CallMoves ==
  ASSUME MemoryInv, NEW a \in Runners, CheckEmpty(a) \/ Collect(a)
  PROVE  MemoryInv'
<1>1. CASE CheckEmpty(a)
  BY <1>1 DEF MemoryInv, CallShape, CheckEmpty, Free
<1>2. CASE Collect(a)
  <2>1. call'[a] = [call[a] EXCEPT !.phase = "replace", !.payload = entries]
    BY <1>2 DEF MemoryInv, CallShape, Collect
  <2>2. /\ call'[a] = [op |-> call[a].op, phase |-> "replace", payload |-> entries,
                       alone |-> call[a].alone, failed |-> call[a].failed]
        /\ call[a].phase = "collect" /\ UNCHANGED entries
    BY <1>2, <2>1, Zenon DEF MemoryInv, CallShape, Collect
  <2>3. DOMAIN call' = Runners /\ \A b \in Runners \ {a} : call'[b] = call[b]
    BY <1>2 DEF MemoryInv, CallShape, Collect
  <2>4. call' = [b \in Runners |-> call'[b]]
    BY <1>2 DEF MemoryInv, CallShape, Collect
  <2>5. QED
    BY <2>2, <2>3, <2>4 DEF MemoryInv, CallShape, Free
<1>3. QED
  BY <1>1, <1>2

\* What a call adds is there.
LEMMA AddsSomething ==
  ASSUME NEW a, NEW op, BeginCall(a, op), Adds(op)
  PROVE  entries' # {}
BY Zenon DEF BeginCall, Adds, Changes

\* Another call that begins takes a call's being alone from it, and nothing else.
LEMMA Overlapped ==
  ASSUME NEW c, CallShape(c)
  PROVE  LET d == [c EXCEPT !.alone = FALSE]
         IN  CallShape(d) /\ d.phase = c.phase /\ d.alone = FALSE
<1> DEFINE d == [op |-> c.op, phase |-> c.phase, payload |-> c.payload, alone |-> FALSE, failed |-> c.failed]
<1>1. [c EXCEPT !.alone = FALSE] = d
  <2>1. PICK o, p, y, u, f : c = [op |-> o, phase |-> p, payload |-> y, alone |-> u, failed |-> f]
    BY Zenon DEF CallShape
  <2>2. \A w : [c EXCEPT !.alone = w]
                = [op |-> o, phase |-> p, payload |-> y, alone |-> w, failed |-> f]
    BY <2>1
  <2>3. o = c.op /\ p = c.phase /\ y = c.payload /\ f = c.failed
    BY <2>1
  <2>4. QED
    BY <2>2, <2>3, Zenon
<1>2. QED
  BY <1>1 DEF CallShape

\* A call that begins is alone if no other is under way, and takes that from the others.
LEMMA CallBegins ==
  ASSUME MemoryInv, NEW a \in Runners, NEW op, Free(a), BeginCall(a, op)
  PROVE  MemoryInv'
<1> DEFINE mine == [op |-> op, phase |-> IF Adds(op) THEN "collect" ELSE "check", payload |-> {},
                    alone |-> \A b \in Runners \ {a} : Free(b), failed |-> FALSE]
<1>1. call' = [b \in Runners |-> IF b = a THEN IF Writes(op) THEN mine ELSE Idle
                                ELSE IF Free(b) THEN call[b] ELSE [call[b] EXCEPT !.alone = FALSE]]
  BY Zenon DEF BeginCall
<1>2. call'[a] = mine \/ call'[a] = Idle
  BY <1>1
<1>3. \A b \in Runners \ {a} :
        IF Free(b) THEN call'[b] = call[b] ELSE call'[b] = [call[b] EXCEPT !.alone = FALSE]
  BY <1>1
<1>4. \A b \in Runners \ {a} : CallShape(call'[b]) /\ (Free(b)' <=> Free(b))
  <2> SUFFICES ASSUME NEW b \in Runners \ {a}
               PROVE  CallShape(call'[b]) /\ (Free(b)' <=> Free(b))
    OBVIOUS
  <2>1. CallShape(call[b])
    BY DEF MemoryInv
  <2>2. CASE Free(b)
    BY <1>3, <2>1, <2>2, Zenon DEF Free
  <2>3. CASE ~Free(b)
    BY <1>3, <2>1, <2>3, Overlapped, Zenon DEF Free
  <2>4. QED
    BY <2>2, <2>3
<1>5. \A b \in Runners \ {a} : ~Free(b) => ~call'[b].alone
  <2> SUFFICES ASSUME NEW b \in Runners \ {a}, ~Free(b)
               PROVE  ~call'[b].alone
    OBVIOUS
  <2>1. CallShape(call[b])
    BY DEF MemoryInv
  <2>2. QED
    BY <1>3, <2>1, Overlapped, ZenonT(30)
<1>6. \A b \in Runners : CallShape(call'[b])
  BY <1>2, <1>4, Zenon DEF CallShape, Idle
<1>7. ASSUME call'[a] = mine
      PROVE  /\ call'[a].alone => \A b \in Runners \ {a} : Free(b)'
             /\ call'[a].phase = "collect" => entries' # {}
             /\ call'[a].phase \in {"collect", "check"}
  <2>1. call'[a].alone = (\A b \in Runners \ {a} : Free(b))
    BY <1>7
  <2>2. call'[a].phase = IF Adds(op) THEN "collect" ELSE "check"
    BY <1>7
  <2>3. QED
    BY <1>4, <2>1, <2>2, AddsSomething
<1>8. ASSUME NEW b \in Runners, ~Free(b)', call'[b].alone
      PROVE  /\ \A c \in Runners \ {b} : Free(c)'
             /\ call'[b].phase = "unlink" => entries' = {}
             /\ call'[b].phase \in {"collect", "replace"} => entries' # {}
             /\ call'[b].phase = "replace" => call'[b].payload = entries'
  <2>1. b = a
    BY <1>4, <1>5, <1>8
  <2>2. call'[a] = mine
    BY <1>2, <1>8, <2>1 DEF Free, Idle
  <2>3. QED
    BY <1>7, <1>8, <2>1, <2>2
<1>9. DOMAIN call' = Runners /\ call' = [b \in Runners |-> call'[b]]
  BY <1>1
<1>10. QED
  BY <1>6, <1>8, <1>9 DEF MemoryInv

\* Where memory is concerned, a step begins a call, goes on with one, or does neither.
LEMMA MemoryMoves ==
  ASSUME [EventsNext]_eventVars
  PROVE  \/ UNCHANGED <<entries, call>>
         \/ \E a \in Runners : \E op : Free(a) /\ BeginCall(a, op)
         \/ \E a \in Runners : MemoryStep(a)
<1>1. CASE UNCHANGED eventVars
  BY <1>1 DEF eventVars, memory
<1>2. CASE TimePasses
  BY <1>2 DEF TimePasses
<1>3. CASE \E s \in Subscribers : Subscribe(s) \/ Unsubscribe(s)
  BY <1>3 DEF Subscribe, Unsubscribe, memory
<1>4. ASSUME NEW a \in Runners, Deliver(a) PROVE UNCHANGED <<entries, call>>
  BY <1>4 DEF Deliver, memory
<1>5. ASSUME NEW a \in Runners, Run(a)
      PROVE  UNCHANGED <<entries, call>> \/ \E op : Free(a) /\ BeginCall(a, op)
  <2>1. CASE Recall(a) \/ BeginRun(a) \/ StartTurn(a) \/ HitCap(a) \/ Compact(a) \/ Respond(a) \/ RunFails(a)
    BY <2>1 DEF Recall, BeginRun, StartTurn, HitCap, Compact, Respond, RunFails, Emit, memory
  <2>2. CASE StartCall(a) \/ Retry(a) \/ FinishCall(a) \/ SaveState(a) \/ FinishRun(a) \/ Remembered(a) \/ CleanupFailed(a)
    BY <2>2 DEF StartCall, Retry, FinishCall, SaveState, FinishRun, Remembered, CleanupFailed, Emit, memory
  <2>3. CASE ExecuteCall(a) \/ ExecuteAgain(a) \/ Remember(a) \/ Cleanup(a)
    BY <2>3, Zenon DEF ExecuteCall, ExecuteAgain, Remember, Cleanup, Ready
  <2>4. QED
    BY <1>5, <2>1, <2>2, <2>3, Zenon DEF Run
<1>6. QED
  BY <1>1, <1>2, <1>3, <1>4, <1>5, Zenon DEF EventsNext

LEMMA MemoryStepKeeps ==
  ASSUME MemoryInv, NEW a \in Runners, MemoryStep(a)
  PROVE  MemoryInv'
<1>1. CASE CheckEmpty(a) \/ Collect(a)
  BY <1>1, CallMoves
<1>2. CASE Replace(a)
  <2>1. PICK c \in {Idle, Failed} : call' = [call EXCEPT ![a] = c] /\ UNCHANGED entries
    BY <1>2 DEF Replace
  <2>2. QED
    BY <2>1, CallEnds, Zenon
<1>3. CASE Unlink(a)
  BY <1>3, CallEnds, Zenon DEF Unlink
<1>4. QED
  BY <1>1, <1>2, <1>3 DEF MemoryStep

LEMMA MemoryKeeps == MemoryInv /\ [EventsNext]_eventVars => MemoryInv'
<1> SUFFICES ASSUME MemoryInv, [EventsNext]_eventVars PROVE MemoryInv'
  OBVIOUS
<1>1. CASE UNCHANGED <<entries, call>>
  BY <1>1 DEF MemoryInv, Free
<1>2. QED
  BY <1>1, MemoryMoves, CallBegins, MemoryStepKeeps

(***************************************************************************)
(* A memory call no other overlapped leaves the file equal to the memory,  *)
(* for any number of runs that share it, whatever overlapping calls and    *)
(* failed writes had left in the file before (memory/json_file.py _persist,*)
(* _persist_or_remove_if_empty).                                           *)
(***************************************************************************)
THEOREM SoloCallsAlwaysSaved == EventsSpec => SoloCallsAreSaved
<1> DEFINE Saved == \A a \in Runners :
             ~Free(a) /\ call'[a] = Idle /\ call[a].alone =>
               file'.entries = entries' /\ (entries' = {} => ~file'.exists)
<1>1. EventsInit => MemoryInv
  BY DEF EventsInit, MemoryInv, CallShape, Idle, Free
<1>2. ASSUME MemoryInv, [EventsNext]_eventVars, NEW a \in Runners, ~Free(a), call'[a] = Idle,
             call[a].alone
      PROVE  file'.entries = entries' /\ (entries' = {} => ~file'.exists)
  <2>1. call'[a] # call[a]
    BY <1>2 DEF Free, Idle
  <2>2. ASSUME NEW b \in Runners, NEW op, Free(b), BeginCall(b, op)
        PROVE  FALSE
    <3>1. a # b /\ call'[a] = [call[a] EXCEPT !.alone = FALSE]
      BY <1>2, <2>2, Zenon DEF BeginCall
    <3>2. QED
      BY <1>2, <3>1, Overlapped DEF MemoryInv, Free, Idle
  <2>3. PICK b \in Runners : MemoryStep(b)
    BY <1>2, <2>1, <2>2, MemoryMoves, Zenon
  <2>4. b = a
    BY <1>2, <2>1, <2>3 DEF MemoryStep, MemoryInv, CheckEmpty, Collect, Replace, Unlink
  <2>5. CASE CheckEmpty(a) \/ Collect(a)
    BY <1>2, <2>5 DEF CheckEmpty, Collect, MemoryInv, CallShape, Idle
  <2>6. CASE Replace(a)
    <3>1. file' = [exists |-> TRUE, entries |-> call[a].payload] /\ UNCHANGED entries
      BY <1>2, <2>6 DEF Replace, MemoryInv, Idle, Failed
    <3>2. QED
      BY <1>2, <2>6, <3>1 DEF Replace, MemoryInv, Free
  <2>7. CASE Unlink(a)
    BY <1>2, <2>7 DEF Unlink, MemoryInv, Free, NoFile
  <2>8. QED
    BY <2>3, <2>4, <2>5, <2>6, <2>7 DEF MemoryStep
<1>3. MemoryInv /\ [EventsNext]_eventVars => [Saved]_eventVars
  BY <1>2, Zenon
<1>4. QED
  BY <1>1, <1>3, MemoryKeeps, PTL DEF EventsSpec, SoloCallsAreSaved

-----------------------------------------------------------------------------
(***************************************************************************)
(* The tracer's record of a run                                            *)
(***************************************************************************)
SpanKinds == {"run", "turn", "tool_call", "retry", "compaction"}
Span == [kind : SpanKinds, parent : Nat, open : BOOLEAN]

TraceShape(t) ==
  /\ t = [spans |-> t.spans, turn |-> t.turn, tools |-> t.tools, retries |-> t.retries]
  /\ t.spans \in Seq(Span) /\ t.turn \in Nat
  /\ \A id \in DOMAIN t.tools : t.tools[id] \in Nat
  /\ \A id \in DOMAIN t.retries : t.retries[id] \in Nat

IsOpen(t, i, kind) == i \in 2..Len(t.spans) /\ t.spans[i].kind = kind /\ t.spans[i].open

\* Whatever is open has its place in the tracer's tables, below something open.
Placed(t, i) ==
  \/ t.spans[i].kind = "turn" /\ i = t.turn /\ t.spans[i].parent = 1
  \/ /\ t.spans[i].kind = "tool_call" /\ t.spans[i].parent = Enclosing(t)
     /\ \E id \in DOMAIN t.tools : t.tools[id] = i
  \/ /\ t.spans[i].kind = "retry"
     /\ \E id \in DOMAIN t.retries : t.retries[id] = i /\ t.spans[i].parent = t.tools[id]

WellNested(t) ==
  /\ TraceShape(t)
  /\ t.spans # <<>> => t.spans[1].kind = "run"
  /\ \A i \in DOMAIN t.spans : t.spans[i].open => t.spans[1].open
  /\ \A i \in 2..Len(t.spans) : t.spans[i].open => Placed(t, i)
  /\ t.turn # 0 => IsOpen(t, t.turn, "turn")
  /\ \A id \in DOMAIN t.tools : IsOpen(t, t.tools[id], "tool_call")
  /\ \A x, y \in DOMAIN t.tools : t.tools[x] = t.tools[y] => x = y
  /\ DOMAIN t.retries \subseteq DOMAIN t.tools
  /\ \A id \in DOMAIN t.retries : IsOpen(t, t.retries[id], "retry")
  /\ \A x, y \in DOMAIN t.retries : t.retries[x] = t.retries[y] => x = y

Behind(a) == "tracer" \in Range(out[a].left)

\* The calls of the turn that were announced and have not finished.
Outstanding(a) ==
  LET k == at[a].k
      par == config.parallel
  IN  CASE stage[a] = "gate" -> IF par THEN 1..(k - 1) ELSE {}
        [] stage[a] = "execute" -> IF par THEN 1..at[a].batch ELSE {k}
        [] stage[a] \in {"result", "again"} -> IF par THEN k..at[a].batch ELSE {k}
        [] OTHER -> {}

Announced(a) == {(at[a].turn - 1) * config.batch + j : j \in Outstanding(a)}

MidRun == {"turn", "context", "model", "gate", "execute", "result", "again", "saved", "answered"}

\* The calls the tracer may have an open span for.
Told(a) ==
  IF Behind(a) /\ out[a].event.type = "tool_call_started" THEN Announced(a) \ {out[a].event.id}
  ELSE IF Behind(a) /\ out[a].event.type = "tool_call_finished" THEN Announced(a) \cup {out[a].event.id}
  ELSE Announced(a)

InStep(a) ==
  LET e == out[a].event
      t == trace[a]
  IN  /\ WellNested(t)
      /\ \/ Behind(a) /\ e.type \in {"run_started", "run_finished", "error"}
         \/ DOMAIN t.tools \subseteq Told(a)
      /\ stage[a] \in MidRun =>
           \/ Behind(a) /\ e.type = "run_started"
           \/ t.spans = <<>> \/ t.spans[1].open
      /\ Behind(a) => /\ e.type = "turn_started" => stage[a] = "context"
                      /\ e.type = "tool_call_started" => stage[a] \in {"gate", "execute"} /\ e.id \in Announced(a)
                      /\ e.type \in {"run_finished", "error"} => stage[a] \notin MidRun

SteadyBus == "tracer" \in Range(bus) \/ \A a \in Runners : trace[a] = NoTrace /\ ~Behind(a)

RunShape ==
  /\ config \in Configs
  /\ bus \in Seq(Subscribers) /\ IsInjective(bus)
  /\ DOMAIN stage = Runners /\ DOMAIN out = Runners /\ DOMAIN trace = Runners /\ DOMAIN seen = Runners
  /\ at \in [Runners -> [turn : Nat, batch : Nat, k : Nat, retried : BOOLEAN]]
  /\ \A a \in Runners :
       /\ out[a] = [event |-> out[a].event, left |-> out[a].left]
       /\ out[a].left \in Seq(Subscribers) /\ IsInjective(out[a].left)
       /\ TraceShape(trace[a])
       /\ stage[a] \in {"context", "model"} => at[a].k = 1
       /\ stage[a] \in {"gate", "execute", "result", "again"} => at[a].k \in 1..at[a].batch

SpanInv ==
  /\ RunShape
  /\ \A a \in Runners : seen[a] \in {"run_finished", "error"} =>
       \A i \in DOMAIN trace[a].spans : ~trace[a].spans[i].open
  /\ "tracer" \notin config.toggles => SteadyBus /\ \A a \in Runners : InStep(a)

\* list.remove of a list without repetitions.
LEMMA WithoutIs ==
  ASSUME NEW T, NEW s \in Seq(T), IsInjective(s), NEW x
  PROVE  LET w == Without(s, x)
         IN  w \in Seq(T) /\ IsInjective(w) /\ Range(w) = Range(s) \ {x}
<1>1. CASE x \notin Range(s)
  BY <1>1 DEF Without
<1>2. CASE x \in Range(s)
  <2> DEFINE i == CHOOSE j \in DOMAIN s : s[j] = x
             n == Len(s)
             w == SubSeq(s, 1, i - 1) \o SubSeq(s, i + 1, n)
  <2>1. i \in DOMAIN s /\ s[i] = x
    BY <1>2 DEF Range
  <2>2. Without(s, x) = w
    BY <1>2, Zenon DEF Without
  <2> HIDE DEF i
  <2>3. i \in 1..n /\ n \in Nat
    BY <2>1
  <2> DEFINE b == SubSeq(s, 1, i - 1)
             c == SubSeq(s, i + 1, n)
  <2>4. /\ b \in Seq(T) /\ Len(b) = i - 1
        /\ \A j \in 1..(i - 1) : b[j] = s[j]
    BY <2>3
  <2>5. /\ c \in Seq(T) /\ Len(c) = n - i
        /\ \A j \in 1..(n - i) : c[j] = s[j + i]
    BY <2>3
  <2> HIDE DEF b, c
  <2>6. w = b \o c
    BY DEF b, c
  <2> HIDE DEF w
  <2>7. /\ w \in Seq(T) /\ Len(w) = n - 1
        /\ \A j \in 1..(n - 1) : w[j] = IF j < i THEN s[j] ELSE s[j + 1]
    <3>1. w \in Seq(T) /\ Len(w) = n - 1
      <4>0. \A p, q \in Seq(T) : p \o q \in Seq(T) /\ Len(p \o q) = Len(p) + Len(q)
        OBVIOUS
      <4>1. w \in Seq(T) /\ Len(w) = Len(b) + Len(c)
        BY <2>4, <2>5, <2>6, <4>0, Zenon
      <4>2. QED
        BY <2>3, <2>4, <2>5, <4>1
    <3>2. ASSUME NEW j \in 1..(n - 1), j < i PROVE w[j] = s[j]
      BY <2>3, <2>4, <2>5, <2>6, <3>2
    <3>3. ASSUME NEW j \in 1..(n - 1), ~(j < i) PROVE w[j] = s[j + 1]
      <4>1. w[j] = c[j - (i - 1)] /\ j - (i - 1) \in 1..(n - i)
        BY <2>3, <2>4, <2>5, <2>6, <3>3
      <4>2. c[j - (i - 1)] = s[(j - (i - 1)) + i] /\ (j - (i - 1)) + i = j + 1
        BY <2>3, <2>5, <4>1
      <4>3. QED
        BY <4>1, <4>2
    <3>4. QED
      BY <3>1, <3>2, <3>3
  <2>8. DOMAIN w = 1..(n - 1) /\ DOMAIN s = 1..n
    BY <2>3, <2>7
  <2>9. \A j, k \in 1..n : s[j] = s[k] => j = k
    BY <2>8 DEF IsInjective
  <2>10. IsInjective(w)
    <3> SUFFICES ASSUME NEW j \in 1..(n - 1), NEW k \in 1..(n - 1), w[j] = w[k] PROVE j = k
      BY <2>8 DEF IsInjective
    <3>1. QED
      BY <2>3, <2>7, <2>9
  <2>11. ASSUME NEW y \in Range(w) PROVE y \in Range(s) \ {x}
    <3>1. PICK j \in 1..(n - 1) : y = w[j]
      BY <2>8 DEF Range
    <3>2. PICK k \in 1..n : y = s[k] /\ k # i
      BY <2>3, <2>7, <3>1
    <3>3. QED
      BY <2>1, <2>3, <2>8, <2>9, <3>2 DEF Range
  <2>12. ASSUME NEW y \in Range(s) \ {x} PROVE y \in Range(w)
    <3>1. PICK k \in 1..n : y = s[k]
      BY <2>8 DEF Range
    <3>2. k # i
      BY <2>1, <3>1
    <3>3. PICK j \in 1..(n - 1) : y = w[j]
      <4>1. CASE k < i
        BY <2>3, <2>7, <3>1, <4>1
      <4>2. CASE ~(k < i)
        <5>1. k - 1 \in 1..(n - 1) /\ ~(k - 1 < i) /\ (k - 1) + 1 = k
          BY <2>3, <3>2, <4>2
        <5>2. w[k - 1] = s[k]
          BY <2>7, <5>1
        <5>3. QED
          BY <3>1, <5>1, <5>2
      <4>3. QED
        BY <4>1, <4>2
    <3>4. QED
      BY <2>8, <3>3 DEF Range
  <2>13. QED
    BY <2>2, <2>7, <2>10, <2>11, <2>12
<1>3. QED
  BY <1>1, <1>2

\* The subscribers to go after the first.
LEMMA TailIs ==
  ASSUME NEW T, NEW s \in Seq(T), IsInjective(s), s # <<>>
  PROVE  /\ Tail(s) \in Seq(T) /\ IsInjective(Tail(s)) /\ Range(Tail(s)) = Range(s) \ {Head(s)}
         /\ Head(s) \in Range(s)
<1> DEFINE n == Len(s)
           w == Tail(s)
<1>1. /\ w \in Seq(T) /\ Len(w) = n - 1 /\ n \in Nat \ {0}
      /\ \A j \in 1..(n - 1) : w[j] = s[j + 1]
  OBVIOUS
<1>2. DOMAIN w = 1..(n - 1) /\ DOMAIN s = 1..n /\ Head(s) = s[1] /\ 1 \in 1..n
  BY <1>1
<1> HIDE DEF w
<1>3. \A j, k \in 1..n : s[j] = s[k] => j = k
  BY <1>2 DEF IsInjective
<1>4. IsInjective(w)
  <2> SUFFICES ASSUME NEW j \in 1..(n - 1), NEW k \in 1..(n - 1), w[j] = w[k] PROVE j = k
    BY <1>2 DEF IsInjective
  <2>1. QED
    BY <1>1, <1>3
<1>5. ASSUME NEW y \in Range(w) PROVE y \in Range(s) \ {Head(s)}
  <2>1. PICK j \in 1..(n - 1) : y = w[j]
    BY <1>2 DEF Range
  <2>2. y = s[j + 1] /\ j + 1 \in 1..n /\ j + 1 # 1
    BY <1>1, <2>1
  <2>3. QED
    BY <1>2, <1>3, <2>2 DEF Range
<1>6. ASSUME NEW y \in Range(s) \ {Head(s)} PROVE y \in Range(w)
  <2>1. PICK k \in 1..n : y = s[k]
    BY <1>2 DEF Range
  <2>2. k # 1
    BY <1>2, <2>1
  <2>3. k - 1 \in 1..(n - 1) /\ w[k - 1] = s[k]
    <3>1. k - 1 \in 1..(n - 1) /\ (k - 1) + 1 = k
      BY <1>1, <2>2
    <3>2. QED
      BY <1>1, <3>1
  <2>4. QED
    BY <1>2, <2>1, <2>3 DEF Range
<1>7. Head(s) \in Range(s)
  BY <1>2 DEF Range
<1>8. QED
  BY <1>1, <1>4, <1>5, <1>6, <1>7 DEF w

\* One more subscriber.
LEMMA AppendIs ==
  ASSUME NEW T, NEW s \in Seq(T), IsInjective(s), NEW x \in T, x \notin Range(s)
  PROVE  LET w == Append(s, x)
         IN  w \in Seq(T) /\ IsInjective(w) /\ Range(w) = Range(s) \cup {x}
<1> DEFINE n == Len(s)
           w == Append(s, x)
<1>1. /\ w \in Seq(T) /\ Len(w) = n + 1 /\ n \in Nat
      /\ \A j \in 1..n : w[j] = s[j]
      /\ w[n + 1] = x
  OBVIOUS
<1>2. DOMAIN w = 1..(n + 1) /\ DOMAIN s = 1..n
  BY <1>1
<1> HIDE DEF w
<1>3. /\ \A j, k \in 1..n : s[j] = s[k] => j = k
      /\ \A j \in 1..n : s[j] # x
  BY <1>2 DEF IsInjective, Range
<1>4. IsInjective(w)
  <2> SUFFICES ASSUME NEW j \in 1..(n + 1), NEW k \in 1..(n + 1), w[j] = w[k] PROVE j = k
    BY <1>2 DEF IsInjective
  <2>1. QED
    BY <1>1, <1>3
<1>5. Range(w) = Range(s) \cup {x}
  <2>1. \A j \in 1..(n + 1) : w[j] \in Range(s) \cup {x}
    BY <1>1, <1>2 DEF Range
  <2>2. \A j \in 1..n : s[j] \in Range(w)
    BY <1>1, <1>2 DEF Range
  <2>3. x \in Range(w)
    BY <1>1, <1>2 DEF Range
  <2>4. QED
    BY <1>2, <2>1, <2>2, <2>3 DEF Range
<1>6. QED
  BY <1>1, <1>4, <1>5 DEF w

\* The same spans, of which those in S are closed.
ClosedIn(u, t, S) ==
  /\ TraceShape(u) /\ Len(u.spans) = Len(t.spans)
  /\ \A j \in 1..Len(t.spans) : /\ u.spans[j].kind = t.spans[j].kind
                                /\ u.spans[j].parent = t.spans[j].parent
                                /\ u.spans[j].open <=> t.spans[j].open /\ j \notin S

\* _close changes one span.
LEMMA CloseSpanIs ==
  ASSUME NEW t, TraceShape(t), NEW i \in Nat
  PROVE  LET u == CloseSpan(t, i)
         IN  /\ ClosedIn(u, t, {i})
             /\ u.turn = t.turn /\ u.tools = t.tools /\ u.retries = t.retries
<1> DEFINE u == CloseSpan(t, i)
<1>1. CASE i \notin 1..Len(t.spans)
  <2>1. u = t
    <3>1. CASE i = 0
      BY <3>1 DEF CloseSpan
    <3>2. CASE i # 0
      <4>1. i \notin DOMAIN t.spans
        BY <1>1 DEF TraceShape
      <4>2. [t.spans EXCEPT ![i].open = FALSE] = t.spans
        BY <4>1 DEF TraceShape
      <4>3. u = [t EXCEPT !.spans = [t.spans EXCEPT ![i].open = FALSE]]
        BY <3>2, Zenon DEF CloseSpan
      <4>4. QED
        BY <4>2, <4>3 DEF TraceShape
    <3>3. QED
      BY <3>1, <3>2
  <2>2. QED
    BY <1>1, <2>1 DEF ClosedIn, TraceShape
<1>2. CASE i \in 1..Len(t.spans)
  <2> DEFINE s == t.spans[i]
             c == [kind |-> s.kind, parent |-> s.parent, open |-> FALSE]
             spans == [t.spans EXCEPT ![i] = c]
  <2>1. s \in Span
    BY <1>2 DEF TraceShape
  <2>2. \A w : [s EXCEPT !.open = w] = [kind |-> s.kind, parent |-> s.parent, open |-> w]
    BY <2>1 DEF Span
  <2>3. [s EXCEPT !.open = FALSE] = c
    BY <2>2, Zenon
  <2>4. u = [t EXCEPT !.spans = spans]
    <3>1. i # 0
      BY <1>2
    <3>2. u = [t EXCEPT !.spans = [t.spans EXCEPT ![i] = [s EXCEPT !.open = FALSE]]]
      BY <3>1, Zenon DEF CloseSpan
    <3>3. QED
      BY <2>3, <3>2, Zenon
  <2>5. u = [spans |-> spans, turn |-> t.turn, tools |-> t.tools, retries |-> t.retries]
    <3> HIDE DEF spans
    <3>1. PICK x, y, z, w : t = [spans |-> x, turn |-> y, tools |-> z, retries |-> w]
      BY Zenon DEF TraceShape
    <3>2. QED
      BY <2>4, <3>1
  <2>6. c \in Span
    BY <2>1 DEF Span
  <2>7. spans \in Seq(Span) /\ Len(spans) = Len(t.spans)
    BY <1>2, <2>6 DEF TraceShape
  <2>8. \A j \in 1..Len(t.spans) : spans[j] = IF j = i THEN c ELSE t.spans[j]
    BY <1>2 DEF TraceShape
  <2>9. TraceShape(u)
    <3> HIDE DEF spans
    <3>1. QED
      BY <2>5, <2>7 DEF TraceShape
  <2>10. QED
    <3> HIDE DEF spans
    <3>1. u.spans = spans
      BY <2>5
    <3>2. \A j \in 1..Len(t.spans) : t.spans[j].open \in BOOLEAN
      <4>1. \A j \in 1..Len(t.spans) : t.spans[j] \in Span
        BY DEF TraceShape
      <4>2. QED
        BY <4>1 DEF Span
    <3>3. QED
      BY <2>5, <2>7, <2>8, <2>9, <3>1, <3>2 DEF ClosedIn
<1>3. QED
  BY <1>1, <1>2

\* The same spans and a new one.
LEMMA AppendSpanIs ==
  ASSUME NEW t, TraceShape(t), NEW kind \in SpanKinds, NEW owner \in Nat
  PROVE  LET u == AppendSpan(t, kind, owner)
         IN  /\ TraceShape(u) /\ Len(u.spans) = Len(t.spans) + 1
             /\ \A j \in 1..Len(t.spans) : u.spans[j] = t.spans[j]
             /\ u.spans[Len(t.spans) + 1] = [kind |-> kind, parent |-> owner, open |-> TRUE]
             /\ u.turn = t.turn /\ u.tools = t.tools /\ u.retries = t.retries
<1> DEFINE n == [kind |-> kind, parent |-> owner, open |-> TRUE]
           spans == Append(t.spans, n)
           u == AppendSpan(t, kind, owner)
<1>1. n \in Span
  BY DEF Span
<1>2. t.spans \in Seq(Span)
  BY DEF TraceShape
<1>3. /\ spans \in Seq(Span) /\ Len(spans) = Len(t.spans) + 1
      /\ \A j \in 1..Len(t.spans) : spans[j] = t.spans[j]
      /\ spans[Len(t.spans) + 1] = n
  <2> HIDE DEF n
  <2>1. QED
    BY <1>1, <1>2
<1> HIDE DEF spans
<1>4. u = [spans |-> spans, turn |-> t.turn, tools |-> t.tools, retries |-> t.retries]
  <2>1. PICK x, y, z, w : t = [spans |-> x, turn |-> y, tools |-> z, retries |-> w]
    BY Zenon DEF TraceShape
  <2>2. u = [t EXCEPT !.spans = spans]
    BY DEF AppendSpan, spans
  <2>3. QED
    BY <2>1, <2>2
<1>5. TraceShape(u)
  BY <1>3, <1>4 DEF TraceShape
<1>6. QED
  BY <1>3, <1>4, <1>5

\* A record of a run with another turn or other tables.
LEMMA FieldsReplaced ==
  ASSUME NEW t, TraceShape(t)
  PROVE  /\ \A v : [t EXCEPT !.turn = v]
                     = [spans |-> t.spans, turn |-> v, tools |-> t.tools, retries |-> t.retries]
         /\ \A v : [t EXCEPT !.tools = v]
                     = [spans |-> t.spans, turn |-> t.turn, tools |-> v, retries |-> t.retries]
         /\ \A v : [t EXCEPT !.retries = v]
                     = [spans |-> t.spans, turn |-> t.turn, tools |-> t.tools, retries |-> v]
         /\ \A v, w : [t EXCEPT !.retries = v, !.tools = w]
                     = [spans |-> t.spans, turn |-> t.turn, tools |-> w, retries |-> v]
<1>1. PICK x, y, z, w : t = [spans |-> x, turn |-> y, tools |-> z, retries |-> w]
  BY Zenon DEF TraceShape
<1>2. x = t.spans /\ y = t.turn /\ z = t.tools /\ w = t.retries
  BY <1>1
<1>3. \A v : [t EXCEPT !.turn = v] = [spans |-> x, turn |-> v, tools |-> z, retries |-> w]
  BY <1>1
<1>4. \A v : [t EXCEPT !.tools = v] = [spans |-> x, turn |-> y, tools |-> v, retries |-> w]
  BY <1>1
<1>5. \A v : [t EXCEPT !.retries = v] = [spans |-> x, turn |-> y, tools |-> z, retries |-> v]
  BY <1>1
<1>6. \A u, v : [t EXCEPT !.retries = u, !.tools = v]
                  = [spans |-> x, turn |-> y, tools |-> v, retries |-> u]
  <2> TAKE u, v
  <2>1. [t EXCEPT !.retries = u, !.tools = v] = [[t EXCEPT !.retries = u] EXCEPT !.tools = v]
    BY Zenon
  <2>2. [[spans |-> x, turn |-> y, tools |-> z, retries |-> u] EXCEPT !.tools = v]
          = [spans |-> x, turn |-> y, tools |-> v, retries |-> u]
    OBVIOUS
  <2>3. QED
    BY <1>5, <2>1, <2>2, Zenon
<1>7. \A v : [t EXCEPT !.turn = v]
               = [spans |-> t.spans, turn |-> v, tools |-> t.tools, retries |-> t.retries]
  BY <1>2, <1>3, Zenon
<1>8. \A v : [t EXCEPT !.tools = v]
               = [spans |-> t.spans, turn |-> t.turn, tools |-> v, retries |-> t.retries]
  BY <1>2, <1>4, Zenon
<1>9. \A v : [t EXCEPT !.retries = v]
               = [spans |-> t.spans, turn |-> t.turn, tools |-> t.tools, retries |-> v]
  BY <1>2, <1>5, Zenon
<1>10. \A u, v : [t EXCEPT !.retries = u, !.tools = v]
                   = [spans |-> t.spans, turn |-> t.turn, tools |-> v, retries |-> u]
  BY <1>2, <1>6, Zenon
<1>11. QED
  BY <1>7, <1>8, <1>9, <1>10, Zenon

\* Nothing was told yet.
LEMMA NoTraceIs ==
  /\ WellNested(NoTrace) /\ NoTrace.spans = <<>> /\ NoTrace.turn = 0
  /\ DOMAIN NoTrace.tools = {} /\ DOMAIN NoTrace.retries = {}
<1>1. /\ TraceShape(NoTrace) /\ NoTrace.spans = <<>> /\ NoTrace.turn = 0
      /\ DOMAIN NoTrace.tools = {} /\ DOMAIN NoTrace.retries = {}
  BY DEF NoTrace, TraceShape
<1>2. QED
  BY <1>1 DEF WellNested

\* run_started begins a trace with one open span.
LEMMA RunNests ==
  ASSUME NEW t
  PROVE  LET u == TraceRun(t)
         IN  WellNested(u) /\ DOMAIN u.tools = {} /\ u.spans # <<>> /\ u.spans[1].open
<1> DEFINE u == TraceRun(t)
<1>1. TraceShape(NoTrace)
  BY NoTraceIs DEF WellNested
<1>2. /\ TraceShape(u) /\ Len(u.spans) = 1 /\ u.turn = 0
      /\ u.spans[1] = [kind |-> "run", parent |-> 0, open |-> TRUE]
      /\ DOMAIN u.tools = {} /\ DOMAIN u.retries = {}
  <2>1. u = AppendSpan(NoTrace, "run", 0) /\ "run" \in SpanKinds
    BY DEF TraceRun, SpanKinds
  <2>2. /\ TraceShape(u) /\ Len(u.spans) = Len(NoTrace.spans) + 1
        /\ u.spans[Len(NoTrace.spans) + 1] = [kind |-> "run", parent |-> 0, open |-> TRUE]
        /\ u.turn = NoTrace.turn /\ u.tools = NoTrace.tools /\ u.retries = NoTrace.retries
    BY <1>1, <2>1, AppendSpanIs
  <2>3. Len(NoTrace.spans) = 0
    BY NoTraceIs
  <2>4. QED
    BY <2>2, <2>3, NoTraceIs
<1>3. u.spans[1].open /\ u.spans[1].kind = "run" /\ u.spans # <<>>
  BY <1>2
<1>4. QED
  BY <1>2, <1>3 DEF WellNested

\* turn_started, once the calls of the turn before have ended.
LEMMA TurnNests ==
  ASSUME NEW t, WellNested(t), DOMAIN t.tools = {}, t.spans = <<>> \/ t.spans[1].open
  PROVE  LET u == TraceTurn(t)
         IN  WellNested(u) /\ DOMAIN u.tools = {} /\ (u.spans = <<>> \/ u.spans[1].open)
<1>1. CASE t.spans = <<>>
  BY <1>1, SMTT(30), ZenonT(30) DEF TraceTurn
<1>2. CASE t.spans # <<>>
  <2> DEFINE c == CloseSpan(t, t.turn)
             p == AppendSpan(c, "turn", 1)
             u == [p EXCEPT !.turn = Len(t.spans) + 1]
             n == Len(t.spans)
  <2>1. TraceTurn(t) = u
    BY <1>2, Zenon DEF TraceTurn
  <2>2. TraceShape(t) /\ t.turn \in Nat /\ n \in Nat \ {0}
    BY <1>2 DEF WellNested, TraceShape
  <2>3. /\ ClosedIn(c, t, {t.turn}) /\ TraceShape(c)
        /\ c.turn = t.turn /\ c.tools = t.tools /\ c.retries = t.retries
    <3>1. /\ ClosedIn(c, t, {t.turn})
          /\ c.turn = t.turn /\ c.tools = t.tools /\ c.retries = t.retries
      BY <2>2, CloseSpanIs, Zenon
    <3>2. QED
      BY <3>1 DEF ClosedIn
  <2> HIDE DEF c
  <2>4. /\ TraceShape(p) /\ Len(p.spans) = n + 1
        /\ \A j \in 1..n : p.spans[j] = c.spans[j]
        /\ p.spans[n + 1] = [kind |-> "turn", parent |-> 1, open |-> TRUE]
        /\ p.tools = t.tools /\ p.retries = t.retries
    BY <2>3, AppendSpanIs DEF SpanKinds, ClosedIn
  <2> HIDE DEF p
  <2>5. u = [spans |-> p.spans, turn |-> n + 1, tools |-> p.tools, retries |-> p.retries]
    BY <2>4, FieldsReplaced, Zenon
  <2>6. TraceShape(u) /\ u.spans = p.spans /\ u.turn = n + 1 /\ u.tools = t.tools /\ u.retries = t.retries
    BY <2>2, <2>4, <2>5 DEF TraceShape
  <2> HIDE DEF u
  <2>7. ASSUME NEW j \in 2..n PROVE ~u.spans[j].open
    <3>1. u.spans[j].open <=> t.spans[j].open /\ j # t.turn
      BY <2>3, <2>4, <2>6 DEF ClosedIn
    <3>2. t.spans[j].open => Placed(t, j) /\ DOMAIN t.retries = {}
      BY DEF WellNested
    <3>3. QED
      BY <3>1, <3>2 DEF Placed
  <2>8. u.spans[1].open /\ u.spans[1].kind = "run"
    <3>1. t.turn # 1
      BY DEF WellNested, IsOpen
    <3>2. u.spans[1] = c.spans[1] /\ 1 \in 1..n
      BY <2>2, <2>4, <2>6
    <3>3. QED
      BY <1>2, <2>2, <2>3, <3>1, <3>2 DEF ClosedIn, WellNested
  <2>9. u.spans[n + 1].open /\ u.spans[n + 1].kind = "turn" /\ u.spans[n + 1].parent = 1
    BY <2>4, <2>6
  <2>10. QED
    BY <2>1, <2>2, <2>4, <2>6, <2>7, <2>8, <2>9 DEF WellNested, Placed, IsOpen
<1>3. QED
  BY <1>1, <1>2

\* tool_call_started, for a call that has no open span yet.
LEMMA ToolNests ==
  ASSUME NEW t, WellNested(t), NEW id, id \notin DOMAIN t.tools, t.spans = <<>> \/ t.spans[1].open
  PROVE  LET u == TraceTool(t, id)
         IN  /\ WellNested(u) /\ DOMAIN u.tools \subseteq DOMAIN t.tools \cup {id}
             /\ u.spans = <<>> \/ u.spans[1].open
<1>1. CASE t.spans = <<>>
  BY <1>1, SMTT(30), ZenonT(30) DEF TraceTool
<1>2. CASE t.spans # <<>>
  <2> DEFINE n == Len(t.spans)
             p == AppendSpan(t, "tool_call", Enclosing(t))
             tools == Put(t.tools, id, n + 1)
             u == [p EXCEPT !.tools = Put(@, id, n + 1)]
  <2>1. TraceTool(t, id) = u
    BY <1>2, Zenon DEF TraceTool
  <2>2. TraceShape(t) /\ n \in Nat \ {0} /\ Enclosing(t) \in Nat
    BY <1>2 DEF WellNested, TraceShape, Enclosing
  <2>3. /\ TraceShape(p) /\ Len(p.spans) = n + 1
        /\ \A j \in 1..n : p.spans[j] = t.spans[j]
        /\ p.spans[n + 1] = [kind |-> "tool_call", parent |-> Enclosing(t), open |-> TRUE]
        /\ p.turn = t.turn /\ p.tools = t.tools /\ p.retries = t.retries
    BY <2>2, AppendSpanIs DEF SpanKinds
  <2> HIDE DEF p
  <2>4. u = [p EXCEPT !.tools = tools]
    BY <2>3, Zenon
  <2>5. u = [spans |-> p.spans, turn |-> p.turn, tools |-> tools, retries |-> p.retries]
    BY <2>3, <2>4, FieldsReplaced, ZenonT(30)
  <2>6. /\ DOMAIN tools = DOMAIN t.tools \cup {id} /\ tools[id] = n + 1
        /\ \A x \in DOMAIN t.tools : tools[x] = t.tools[x]
    BY DEF Put
  <2> HIDE DEF tools
  <2>7. u.spans = p.spans /\ u.turn = t.turn /\ u.tools = tools /\ u.retries = t.retries
    BY <2>3, <2>5
  <2>8. TraceShape(u)
    BY <2>2, <2>3, <2>5, <2>6 DEF TraceShape
  <2> HIDE DEF u
  <2>9. u.spans[1].open /\ u.spans[1].kind = "run" /\ Enclosing(u) = Enclosing(t)
    BY <1>2, <2>2, <2>3, <2>7 DEF WellNested, Enclosing
  <2>10. ASSUME NEW j \in 2..(n + 1), u.spans[j].open PROVE Placed(u, j)
    <3>1. CASE j = n + 1
      BY <2>3, <2>6, <2>7, <2>9, <3>1 DEF Placed
    <3>2. CASE j # n + 1
      <4>1. Placed(t, j) /\ u.spans[j] = t.spans[j]
        BY <2>2, <2>3, <2>7, <2>10, <3>2 DEF WellNested
      <4>2. QED
        BY <2>6, <2>7, <2>9, <4>1 DEF Placed, WellNested
    <3>3. QED
      BY <3>1, <3>2
  <2>11. /\ u.turn # 0 => IsOpen(u, u.turn, "turn")
         /\ \A x \in DOMAIN u.retries : IsOpen(u, u.retries[x], "retry")
    <3>1. ASSUME NEW i, NEW kind, IsOpen(t, i, kind) PROVE IsOpen(u, i, kind)
      BY <2>2, <2>3, <2>7, <3>1 DEF IsOpen
    <3>2. QED
      BY <2>7, <3>1 DEF WellNested
  <2>12. \A x \in DOMAIN u.tools : IsOpen(u, u.tools[x], "tool_call")
    <3> SUFFICES ASSUME NEW x \in DOMAIN u.tools PROVE IsOpen(u, u.tools[x], "tool_call")
      OBVIOUS
    <3>1. CASE x = id
      BY <2>2, <2>3, <2>6, <2>7, <3>1 DEF IsOpen
    <3>2. CASE x # id
      <4>1. x \in DOMAIN t.tools /\ u.tools[x] = t.tools[x] /\ IsOpen(t, t.tools[x], "tool_call")
        BY <2>6, <2>7, <3>2 DEF WellNested
      <4>2. QED
        BY <2>2, <2>3, <2>7, <4>1 DEF IsOpen
    <3>3. QED
      BY <3>1, <3>2
  <2>13. \A x, y \in DOMAIN u.tools : u.tools[x] = u.tools[y] => x = y
    BY <2>2, <2>6, <2>7 DEF WellNested, IsOpen
  <2>14. QED
    BY <2>1, <2>2, <2>3, <2>6, <2>7, <2>8, <2>9, <2>10, <2>11, <2>12, <2>13 DEF WellNested
<1>3. QED
  BY <1>1, <1>2

\* A compaction's span is closed at once.
LEMMA CompactionNests ==
  ASSUME NEW t, WellNested(t)
  PROVE  LET u == TraceCompaction(t)
         IN  /\ WellNested(u) /\ u.tools = t.tools
             /\ u.spans # <<>> /\ t.spans[1].open => u.spans[1].open
             /\ t.spans = <<>> => u.spans = <<>>
<1>1. CASE t.spans = <<>>
  BY <1>1, SMTT(30), ZenonT(30) DEF TraceCompaction
<1>2. CASE t.spans # <<>>
  <2> DEFINE n == Len(t.spans)
             p == AppendSpan(t, "compaction", Enclosing(t))
             u == CloseSpan(p, n + 1)
  <2>1. TraceCompaction(t) = u
    BY <1>2, Zenon DEF TraceCompaction
  <2>2. TraceShape(t) /\ n \in Nat \ {0} /\ Enclosing(t) \in Nat
    BY <1>2 DEF WellNested, TraceShape, Enclosing
  <2>3. /\ TraceShape(p) /\ Len(p.spans) = n + 1
        /\ \A j \in 1..n : p.spans[j] = t.spans[j]
        /\ p.turn = t.turn /\ p.tools = t.tools /\ p.retries = t.retries
    BY <2>2, AppendSpanIs, ZenonT(30) DEF SpanKinds
  <2> HIDE DEF p
  <2>4. /\ ClosedIn(u, p, {n + 1})
        /\ u.turn = t.turn /\ u.tools = t.tools /\ u.retries = t.retries
    <3>1. n + 1 \in Nat
      BY <2>2
    <3>2. /\ ClosedIn(u, p, {n + 1})
          /\ u.turn = p.turn /\ u.tools = p.tools /\ u.retries = p.retries
      BY <2>3, <3>1, CloseSpanIs, Zenon
    <3>3. QED
      BY <2>3, <3>2
  <2> HIDE DEF u
  <2>5. /\ TraceShape(u) /\ Len(u.spans) = n + 1 /\ ~u.spans[n + 1].open
        /\ \A j \in 1..n : /\ u.spans[j].kind = t.spans[j].kind
                           /\ u.spans[j].parent = t.spans[j].parent
                           /\ u.spans[j].open <=> t.spans[j].open
    BY <2>2, <2>3, <2>4, SMTT(30), ZenonT(30) DEF ClosedIn
  <2>6. ASSUME NEW j \in 2..(n + 1), u.spans[j].open PROVE Placed(u, j)
    <3>1. j \in 2..n
      BY <2>2, <2>5, <2>6
    <3>2. Placed(t, j)
      BY <2>2, <2>5, <2>6, <3>1 DEF WellNested
    <3>3. QED
      BY <2>4, <2>5, <3>1, <3>2 DEF Placed, Enclosing
  <2>7. /\ u.turn # 0 => IsOpen(u, u.turn, "turn")
        /\ \A x \in DOMAIN u.retries : IsOpen(u, u.retries[x], "retry")
        /\ \A x \in DOMAIN u.tools : IsOpen(u, u.tools[x], "tool_call")
    <3>1. ASSUME NEW i, NEW kind, IsOpen(t, i, kind) PROVE IsOpen(u, i, kind)
      BY <2>2, <2>5, <3>1 DEF IsOpen
    <3>2. QED
      BY <2>4, <3>1 DEF WellNested
  <2>8. u.spans[1].kind = "run" /\ (u.spans[1].open <=> t.spans[1].open)
    BY <1>2, <2>2, <2>5 DEF WellNested
  <2>9. \A j \in DOMAIN u.spans : u.spans[j].open => u.spans[1].open
    <3>1. \A j \in 1..n : t.spans[j].open => t.spans[1].open
      BY <2>2 DEF WellNested, TraceShape
    <3>2. DOMAIN u.spans = 1..(n + 1)
      BY <2>5 DEF TraceShape
    <3>3. QED
      BY <2>2, <2>5, <2>8, <3>1, <3>2
  <2>10. QED
    BY <2>1, <2>2, <2>4, <2>5, <2>6, <2>7, <2>8, <2>9 DEF WellNested
<1>3. QED
  BY <1>1, <1>2

\* The spans a table names are natural numbers; 0 stands for none.
LEMMA Looked ==
  ASSUME NEW dict, \A x \in DOMAIN dict : dict[x] \in Nat, NEW id
  PROVE  /\ Lookup(dict, id) \in Nat
         /\ id \in DOMAIN dict => Lookup(dict, id) = dict[id]
         /\ id \notin DOMAIN dict => Lookup(dict, id) = 0
BY DEF Lookup

\* A retry closes the attempt before it.
LEMMA RetryNests ==
  ASSUME NEW t, WellNested(t), NEW id
  PROVE  LET u == TraceRetry(t, id)
         IN  /\ WellNested(u) /\ u.tools = t.tools
             /\ u.spans # <<>> /\ t.spans[1].open => u.spans[1].open
             /\ t.spans = <<>> => u.spans = <<>>
<1>1. CASE id \notin DOMAIN t.tools
  BY <1>1 DEF TraceRetry
<1>2. CASE id \in DOMAIN t.tools
  <2> DEFINE n == Len(t.spans)
             r == Lookup(t.retries, id)
             c == CloseSpan(t, r)
             p == AppendSpan(c, "retry", t.tools[id])
             retries == Put(t.retries, id, n + 1)
             u == [p EXCEPT !.retries = Put(@, id, n + 1)]
  <2>1. TraceRetry(t, id) = u
    BY <1>2, Zenon DEF TraceRetry
  <2>2. TraceShape(t) /\ t.tools[id] \in 2..n /\ n \in Nat /\ t.spans[1].open
    <3>1. IsOpen(t, t.tools[id], "tool_call") /\ TraceShape(t)
      BY <1>2 DEF WellNested
    <3>2. t.tools[id] \in 2..n /\ n \in Nat
      BY <3>1 DEF IsOpen, TraceShape
    <3>3. t.tools[id] \in DOMAIN t.spans
      BY <3>1, <3>2 DEF TraceShape
    <3>4. QED
      BY <3>1, <3>2, <3>3 DEF WellNested, IsOpen
  <2>3. /\ r \in Nat
        /\ id \in DOMAIN t.retries => r = t.retries[id]
        /\ id \notin DOMAIN t.retries => r = 0
    BY <2>2, Looked, Zenon DEF TraceShape
  <2>4. r = 0 \/ IsOpen(t, r, "retry")
    BY <2>3 DEF WellNested
  <2> HIDE DEF r
  <2>5. /\ ClosedIn(c, t, {r}) /\ TraceShape(c)
        /\ c.turn = t.turn /\ c.tools = t.tools /\ c.retries = t.retries
    <3>1. /\ ClosedIn(c, t, {r})
          /\ c.turn = t.turn /\ c.tools = t.tools /\ c.retries = t.retries
      BY <2>2, <2>3, CloseSpanIs, Zenon
    <3>2. QED
      BY <3>1 DEF ClosedIn
  <2> HIDE DEF c
  <2>6. /\ TraceShape(p) /\ Len(p.spans) = n + 1
        /\ \A j \in 1..n : p.spans[j] = c.spans[j]
        /\ p.spans[n + 1] = [kind |-> "retry", parent |-> t.tools[id], open |-> TRUE]
        /\ p.turn = t.turn /\ p.tools = t.tools /\ p.retries = t.retries
    <3>1. Len(c.spans) = n /\ t.tools[id] \in Nat /\ "retry" \in SpanKinds
      BY <2>2, <2>5 DEF ClosedIn, SpanKinds
    <3>2. /\ TraceShape(p) /\ Len(p.spans) = Len(c.spans) + 1
          /\ \A j \in 1..Len(c.spans) : p.spans[j] = c.spans[j]
          /\ p.spans[Len(c.spans) + 1] = [kind |-> "retry", parent |-> t.tools[id], open |-> TRUE]
          /\ p.turn = c.turn /\ p.tools = c.tools /\ p.retries = c.retries
      BY <2>5, <3>1, AppendSpanIs, Zenon
    <3>3. QED
      BY <2>5, <3>1, <3>2
  <2> HIDE DEF p
  <2>7. u = [p EXCEPT !.retries = retries]
    BY <2>6, Zenon
  <2>8. u = [spans |-> p.spans, turn |-> p.turn, tools |-> p.tools, retries |-> retries]
    BY <2>6, <2>7, FieldsReplaced, Zenon
  <2>9. /\ DOMAIN retries = DOMAIN t.retries \cup {id} /\ retries[id] = n + 1
        /\ \A x \in DOMAIN t.retries : x # id => retries[x] = t.retries[x]
    BY DEF Put
  <2> HIDE DEF retries
  <2>10. u.spans = p.spans /\ u.turn = t.turn /\ u.tools = t.tools /\ u.retries = retries
    BY <2>6, <2>8
  <2>11. TraceShape(u)
    <3>1. \A x \in DOMAIN retries : retries[x] \in Nat
      BY <2>2, <2>9 DEF TraceShape
    <3>2. /\ p.spans \in Seq(Span) /\ p.turn \in Nat
          /\ \A x \in DOMAIN p.tools : p.tools[x] \in Nat
      BY <2>6 DEF TraceShape
    <3> HIDE DEF u
    <3>3. u.tools = p.tools
      BY <2>8
    <3>4. QED
      BY <2>8, <2>10, <3>1, <3>2, <3>3, <2>6, Zenon DEF TraceShape
  <2> HIDE DEF u
  <2>12. /\ Len(u.spans) = n + 1
         /\ \A j \in 1..n : /\ u.spans[j].kind = t.spans[j].kind
                            /\ u.spans[j].parent = t.spans[j].parent
                            /\ u.spans[j].open <=> t.spans[j].open /\ j # r
         /\ u.spans[n + 1].kind = "retry" /\ u.spans[n + 1].open
         /\ u.spans[n + 1].parent = t.tools[id]
    BY <2>5, <2>6, <2>10 DEF ClosedIn
  <2>13. ASSUME NEW i, NEW kind, IsOpen(t, i, kind), i # r PROVE IsOpen(u, i, kind)
    BY <2>2, <2>12, <2>13, SMTT(30), ZenonT(30) DEF IsOpen
  <2>14. ASSUME NEW j \in 2..(n + 1), u.spans[j].open PROVE Placed(u, j)
    <3>1. CASE j = n + 1
      BY <2>9, <2>10, <2>12, <3>1 DEF Placed
    <3>2. CASE j # n + 1
      <4>1. Placed(t, j) /\ j \in 2..n /\ j # r
        BY <2>2, <2>12, <2>14, <3>2 DEF WellNested
      <4>2. CASE t.spans[j].kind = "retry"
        <5>1. PICK x \in DOMAIN t.retries : t.retries[x] = j /\ t.spans[j].parent = t.tools[x]
          BY <4>1, <4>2 DEF Placed
        <5>2. x # id
          BY <2>3, <4>1, <5>1
        <5>3. x \in DOMAIN retries /\ retries[x] = j
          BY <2>9, <5>1, <5>2
        <5>4. u.spans[j].kind = "retry" /\ u.spans[j].parent = u.tools[x]
          BY <2>10, <2>12, <4>1, <4>2, <5>1
        <5>5. QED
          BY <2>10, <5>3, <5>4 DEF Placed
      <4>3. CASE t.spans[j].kind # "retry"
        BY <2>10, <2>12, <4>1, <4>3 DEF Placed, Enclosing
      <4>4. QED
        BY <4>2, <4>3, SMTT(30), ZenonT(30)
    <3>3. QED
      BY <3>1, <3>2
  <2>15. /\ u.turn # 0 => IsOpen(u, u.turn, "turn")
         /\ \A x \in DOMAIN u.tools : IsOpen(u, u.tools[x], "tool_call")
    <3>1. ASSUME NEW i, NEW kind \in {"turn", "tool_call"}, IsOpen(t, i, kind) PROVE IsOpen(u, i, kind)
      BY <2>4, <2>13, <3>1 DEF IsOpen
    <3>2. QED
      BY <2>10, <3>1 DEF WellNested
  <2>16. \A x \in DOMAIN u.retries : IsOpen(u, u.retries[x], "retry")
    <3> SUFFICES ASSUME NEW x \in DOMAIN u.retries PROVE IsOpen(u, u.retries[x], "retry")
      OBVIOUS
    <3>1. CASE x = id
      BY <2>2, <2>9, <2>10, <2>12, <3>1 DEF IsOpen
    <3>2. CASE x # id
      <4>1. x \in DOMAIN t.retries /\ u.retries[x] = t.retries[x] /\ IsOpen(t, t.retries[x], "retry")
        BY <2>9, <2>10, <3>2 DEF WellNested
      <4>2. t.retries[x] # r
        <5>1. CASE id \notin DOMAIN t.retries
          BY <2>3, <4>1, <5>1 DEF IsOpen
        <5>2. CASE id \in DOMAIN t.retries
          BY <2>3, <3>2, <4>1, <5>2 DEF WellNested
        <5>3. QED
          BY <5>1, <5>2
      <4>3. QED
        BY <2>13, <4>1, <4>2
    <3>3. QED
      BY <3>1, <3>2
  <2>17. \A x, y \in DOMAIN u.retries : u.retries[x] = u.retries[y] => x = y
    <3>1. \A x \in DOMAIN t.retries : t.retries[x] \in 2..n
      BY DEF WellNested, IsOpen
    <3>2. QED
      BY <2>2, <2>9, <2>10, <3>1 DEF WellNested
  <2>18. u.spans # <<>> /\ u.spans[1].kind = "run" /\ u.spans[1].open
    <3>1. r # 1 /\ 1 \in 1..n
      BY <2>2, <2>4 DEF IsOpen
    <3>2. t.spans # <<>>
      BY <2>2, SMTT(30), ZenonT(30)
    <3>3. QED
      BY <2>2, <2>12, <3>1, <3>2 DEF WellNested
  <2>19. WellNested(u)
    BY <1>2, <2>2, <2>9, <2>10, <2>11, <2>12, <2>14, <2>15, <2>16, <2>17, <2>18, SMTT(30), ZenonT(30) DEF WellNested
  <2>20. QED
    BY <2>1, <2>2, <2>10, <2>18, <2>19
<1>3. QED
  BY <1>1, <1>2

\* tool_call_finished closes the call and its last attempt.
LEMMA ToolEndNests ==
  ASSUME NEW t, WellNested(t), NEW id
  PROVE  LET u == TraceToolEnd(t, id)
         IN  /\ WellNested(u) /\ DOMAIN u.tools = DOMAIN t.tools \ {id}
             /\ t.spans # <<>> /\ t.spans[1].open => u.spans[1].open
             /\ t.spans = <<>> => u.spans = <<>>
<1> DEFINE n == Len(t.spans)
           r == Lookup(t.retries, id)
           i == Lookup(t.tools, id)
           c == CloseSpan(t, r)
           d == CloseSpan(c, i)
           retries == Popped(t.retries, id)
           tools == Popped(t.tools, id)
           u == [d EXCEPT !.retries = Popped(@, id), !.tools = Popped(@, id)]
<1>1. TraceToolEnd(t, id) = u
  BY Zenon DEF TraceToolEnd
<1>2. TraceShape(t) /\ n \in Nat
  BY DEF WellNested, TraceShape
<1>3. /\ r \in Nat /\ i \in Nat
      /\ id \in DOMAIN t.retries => r = t.retries[id]
      /\ id \in DOMAIN t.tools => i = t.tools[id]
      /\ id \notin DOMAIN t.retries => r = 0
      /\ id \notin DOMAIN t.tools => i = 0
  BY <1>2, Looked, Zenon DEF TraceShape
<1>4. (r = 0 \/ IsOpen(t, r, "retry")) /\ (i = 0 \/ IsOpen(t, i, "tool_call"))
  BY <1>3 DEF WellNested
<1> HIDE DEF r, i
<1>5. /\ ClosedIn(c, t, {r}) /\ TraceShape(c)
      /\ c.turn = t.turn /\ c.tools = t.tools /\ c.retries = t.retries
  <2>1. /\ ClosedIn(c, t, {r})
        /\ c.turn = t.turn /\ c.tools = t.tools /\ c.retries = t.retries
    BY <1>2, <1>3, CloseSpanIs
  <2>2. QED
    BY <2>1 DEF ClosedIn
<1> HIDE DEF c
<1>6. /\ ClosedIn(d, c, {i}) /\ TraceShape(d)
      /\ d.turn = t.turn /\ d.tools = t.tools /\ d.retries = t.retries
  <2>1. /\ ClosedIn(d, c, {i})
        /\ d.turn = c.turn /\ d.tools = c.tools /\ d.retries = c.retries
    BY <1>3, <1>5, CloseSpanIs
  <2>2. QED
    BY <1>5, <2>1 DEF ClosedIn
<1> HIDE DEF d
<1>7. u = [d EXCEPT !.retries = retries, !.tools = tools]
  BY <1>6, Zenon
<1>8. u = [spans |-> d.spans, turn |-> d.turn, tools |-> tools, retries |-> retries]
  <2>1. \A v, w : [d EXCEPT !.retries = v, !.tools = w]
                    = [spans |-> d.spans, turn |-> d.turn, tools |-> w, retries |-> v]
    BY <1>6, FieldsReplaced, Zenon
  <2>2. QED
    BY <1>7, <2>1, Zenon
<1>9. /\ DOMAIN retries = DOMAIN t.retries \ {id} /\ DOMAIN tools = DOMAIN t.tools \ {id}
      /\ \A x \in DOMAIN retries : retries[x] = t.retries[x]
      /\ \A x \in DOMAIN tools : tools[x] = t.tools[x]
  BY DEF Popped
<1> HIDE DEF retries, tools
<1>10. u.spans = d.spans /\ u.turn = t.turn /\ u.tools = tools /\ u.retries = retries
  BY <1>6, <1>8, Zenon
<1>11. TraceShape(u)
  <2>1. /\ \A x \in DOMAIN retries : retries[x] \in Nat
        /\ \A x \in DOMAIN tools : tools[x] \in Nat
    BY <1>2, <1>9 DEF TraceShape
  <2>2. d.spans \in Seq(Span) /\ d.turn \in Nat
    BY <1>6 DEF TraceShape
  <2> HIDE DEF u
  <2>3. QED
    BY <1>6, <1>8, <1>10, <2>1, <2>2, Zenon DEF TraceShape
<1> HIDE DEF u
<1>12. /\ Len(u.spans) = n
       /\ \A j \in 1..n : /\ u.spans[j].kind = t.spans[j].kind
                          /\ u.spans[j].parent = t.spans[j].parent
                          /\ u.spans[j].open <=> t.spans[j].open /\ j # r /\ j # i
  BY <1>5, <1>6, <1>10 DEF ClosedIn
<1>13. ASSUME NEW j, NEW kind, IsOpen(t, j, kind), j # r, j # i PROVE IsOpen(u, j, kind)
  BY <1>2, <1>12, <1>13 DEF IsOpen
<1>14. /\ u.turn # 0 => IsOpen(u, u.turn, "turn")
       /\ Enclosing(u) = Enclosing(t)
  <2>1. ASSUME IsOpen(t, t.turn, "turn") PROVE t.turn # r /\ t.turn # i
    BY <1>4, <2>1 DEF IsOpen
  <2>2. QED
    BY <1>10, <1>13, <2>1 DEF WellNested, Enclosing
<1>15. \A x \in DOMAIN u.tools : IsOpen(u, u.tools[x], "tool_call")
  <2> SUFFICES ASSUME NEW x \in DOMAIN u.tools PROVE IsOpen(u, u.tools[x], "tool_call")
    OBVIOUS
  <2>1. /\ x \in DOMAIN t.tools /\ x # id /\ u.tools[x] = t.tools[x]
        /\ IsOpen(t, t.tools[x], "tool_call")
    BY <1>9, <1>10 DEF WellNested
  <2>2. t.tools[x] # r /\ t.tools[x] # 0
    BY <1>4, <2>1 DEF IsOpen
  <2>3. t.tools[x] # i
    BY <1>3, <2>1, <2>2 DEF WellNested
  <2>4. QED
    BY <1>13, <2>1, <2>2, <2>3
<1>16. \A x \in DOMAIN u.retries : IsOpen(u, u.retries[x], "retry")
  <2> SUFFICES ASSUME NEW x \in DOMAIN u.retries PROVE IsOpen(u, u.retries[x], "retry")
    OBVIOUS
  <2>1. /\ x \in DOMAIN t.retries /\ x # id /\ u.retries[x] = t.retries[x]
        /\ IsOpen(t, t.retries[x], "retry")
    BY <1>9, <1>10 DEF WellNested
  <2>2. t.retries[x] # i /\ t.retries[x] # 0
    BY <1>4, <2>1 DEF IsOpen
  <2>3. t.retries[x] # r
    BY <1>3, <2>1, <2>2, SMTT(30), ZenonT(30) DEF WellNested
  <2>4. QED
    BY <1>13, <2>1, <2>2, <2>3
<1>17. ASSUME NEW j \in 2..n, u.spans[j].open PROVE Placed(u, j)
  <2>1. Placed(t, j) /\ j # r /\ j # i
    BY <1>2, <1>12, <1>17 DEF WellNested
  <2>2. /\ u.spans[j].kind = t.spans[j].kind /\ u.spans[j].parent = t.spans[j].parent
    BY <1>2, <1>12
  <2>3. CASE t.spans[j].kind = "turn"
    BY <1>10, <2>1, <2>2, <2>3 DEF Placed
  <2>4. CASE t.spans[j].kind = "tool_call"
    <3>1. PICK x \in DOMAIN t.tools : t.tools[x] = j /\ t.spans[j].parent = Enclosing(t)
      BY <2>1, <2>4 DEF Placed
    <3>2. x \in DOMAIN u.tools /\ u.tools[x] = j
      BY <1>3, <1>9, <1>10, <2>1, <3>1
    <3>3. QED
      BY <1>14, <2>2, <2>4, <3>1, <3>2 DEF Placed
  <2>5. CASE t.spans[j].kind = "retry"
    <3>1. PICK x \in DOMAIN t.retries : t.retries[x] = j /\ t.spans[j].parent = t.tools[x]
      BY <2>1, <2>5 DEF Placed
    <3>2. x # id /\ x \in DOMAIN t.tools
      BY <1>3, <2>1, <3>1 DEF WellNested
    <3>3. x \in DOMAIN u.retries /\ u.retries[x] = j /\ u.tools[x] = t.tools[x]
      BY <1>9, <1>10, <3>1, <3>2, SMTT(30), ZenonT(30)
    <3>4. QED
      BY <2>2, <2>5, <3>1, <3>3 DEF Placed
  <2>6. QED
    BY <2>1, <2>3, <2>4, <2>5, SMTT(30), ZenonT(30) DEF Placed
<1>18. /\ u.spans # <<>> => t.spans # <<>> /\ u.spans[1].kind = "run" /\ (u.spans[1].open <=> t.spans[1].open)
       /\ t.spans = <<>> => u.spans = <<>>
       /\ t.spans # <<>> => u.spans # <<>>
  <2>1. r # 1 /\ i # 1
    BY <1>4 DEF IsOpen
  <2>2. t.spans # <<>> <=> n # 0
    BY <1>2 DEF TraceShape
  <2>3. u.spans # <<>> <=> n # 0
    BY <1>11, <1>12 DEF TraceShape
  <2>4. n # 0 => 1 \in 1..n
    BY <1>2
  <2>5. QED
    BY <1>12, <2>1, <2>2, <2>3, <2>4 DEF WellNested
<1>19. \A j \in DOMAIN u.spans : u.spans[j].open => u.spans[1].open
  <2>1. DOMAIN u.spans = 1..n /\ DOMAIN t.spans = 1..n
    BY <1>2, <1>11, <1>12, SMTT(30), ZenonT(30) DEF TraceShape
  <2>2. QED
    BY <1>12, <1>18, <2>1 DEF WellNested
<1>20. WellNested(u)
  <2>1. /\ \A x, y \in DOMAIN u.tools : u.tools[x] = u.tools[y] => x = y
        /\ \A x, y \in DOMAIN u.retries : u.retries[x] = u.retries[y] => x = y
        /\ DOMAIN u.retries \subseteq DOMAIN u.tools
    BY <1>9, <1>10 DEF WellNested
  <2>2. QED
    BY <1>11, <1>12, <1>14, <1>15, <1>16, <1>17, <1>18, <1>19, <2>1, SMTT(30), ZenonT(30) DEF WellNested
<1>21. QED
  BY <1>1, <1>9, <1>10, <1>18, <1>20

\* The run's last event closes everything.
LEMMA EndNests ==
  ASSUME NEW t, TraceShape(t)
  PROVE  LET u == TraceEnd(t)
         IN  /\ TraceShape(u) /\ DOMAIN u.tools = {}
             /\ \A i \in DOMAIN u.spans : ~u.spans[i].open
             /\ WellNested(t) => WellNested(u)
<1> DEFINE closed == [i \in DOMAIN t.spans |-> [t.spans[i] EXCEPT !.open = FALSE]]
           u == TraceEnd(t)
<1>1. ASSUME NEW i \in DOMAIN t.spans
      PROVE  /\ closed[i] \in Span /\ closed[i].kind = t.spans[i].kind
             /\ ~closed[i].open
  <2> DEFINE s == t.spans[i]
             c == [kind |-> s.kind, parent |-> s.parent, open |-> FALSE]
  <2>1. s \in Span
    BY DEF TraceShape
  <2>2. \A w : [s EXCEPT !.open = w] = [kind |-> s.kind, parent |-> s.parent, open |-> w]
    BY <2>1 DEF Span
  <2>3. closed[i] = c
    BY <2>2, Zenon
  <2>4. c \in Span /\ c.kind = s.kind /\ ~c.open
    BY <2>1 DEF Span
  <2>5. QED
    BY <2>3, <2>4, Zenon
<1>2. closed \in Seq(Span) /\ Len(closed) = Len(t.spans) /\ DOMAIN closed = DOMAIN t.spans
  <2>1. DOMAIN t.spans = 1..Len(t.spans) /\ Len(t.spans) \in Nat
    BY DEF TraceShape
  <2>2. closed \in [1..Len(t.spans) -> Span]
    BY <1>1, <2>1, Zenon
  <2> HIDE DEF closed
  <2>3. closed \in Seq(Span)
    BY <2>1, <2>2
  <2>4. QED
    BY <2>1, <2>2, <2>3
<1> HIDE DEF closed
<1>3. u = [spans |-> closed, turn |-> 0, tools |-> <<>>, retries |-> <<>>]
  <2>1. \A v : [NoTrace EXCEPT !.spans = v] = [spans |-> v, turn |-> 0, tools |-> <<>>, retries |-> <<>>]
    BY DEF NoTrace
  <2>2. u = [NoTrace EXCEPT !.spans = closed]
    BY Zenon DEF TraceEnd, closed
  <2>3. QED
    BY <2>1, <2>2
<1>4. /\ TraceShape(u) /\ u.spans = closed /\ u.turn = 0
      /\ DOMAIN u.tools = {} /\ DOMAIN u.retries = {}
  BY <1>2, <1>3 DEF TraceShape
<1> HIDE DEF u
<1>5. ASSUME WellNested(t) PROVE u.spans # <<>> => u.spans[1].kind = "run"
  <2>1. ASSUME u.spans # <<>> PROVE t.spans # <<>> /\ 1 \in DOMAIN t.spans
    BY <1>2, <1>4, <2>1, SMTT(30), ZenonT(30) DEF TraceShape
  <2>2. QED
    BY <1>1, <1>4, <1>5, <2>1 DEF WellNested
<1>6. WellNested(t) => WellNested(u)
  <2>1. \A i \in DOMAIN u.spans : ~u.spans[i].open
    BY <1>1, <1>2, <1>4
  <2>2. \A i \in 2..Len(u.spans) : ~u.spans[i].open
    BY <1>2, <1>4, <2>1
  <2>3. QED
    BY <1>4, <1>5, <2>1, <2>2 DEF WellNested
<1>7. QED
  BY <1>1, <1>2, <1>4, <1>6 DEF u

Table(d) == \A x \in DOMAIN d : d[x] \in Nat

\* Other tables of natural numbers keep the form.
LEMMA Reshaped ==
  ASSUME NEW t, TraceShape(t), NEW v \in Nat, NEW d, Table(d), NEW f, Table(f)
  PROVE  /\ TraceShape([t EXCEPT !.turn = v])
         /\ TraceShape([t EXCEPT !.tools = d])
         /\ TraceShape([t EXCEPT !.retries = d])
         /\ TraceShape([t EXCEPT !.retries = d, !.tools = f])
<1>1. /\ t.spans \in Seq(Span) /\ t.turn \in Nat /\ Table(t.tools) /\ Table(t.retries)
  BY DEF TraceShape, Table
<1>2. ASSUME NEW s \in Seq(Span), NEW k \in Nat, NEW g, Table(g), NEW h, Table(h)
      PROVE  TraceShape([spans |-> s, turn |-> k, tools |-> g, retries |-> h])
  BY <1>2 DEF TraceShape, Table
<1>3. TraceShape([t EXCEPT !.turn = v])
  <2>1. [t EXCEPT !.turn = v] = [spans |-> t.spans, turn |-> v, tools |-> t.tools, retries |-> t.retries]
    BY FieldsReplaced, Zenon
  <2>2. QED
    BY <1>1, <1>2, <2>1
<1>4. TraceShape([t EXCEPT !.tools = d])
  <2>1. [t EXCEPT !.tools = d] = [spans |-> t.spans, turn |-> t.turn, tools |-> d, retries |-> t.retries]
    BY FieldsReplaced, Zenon
  <2>2. QED
    BY <1>1, <1>2, <2>1
<1>5. TraceShape([t EXCEPT !.retries = d])
  <2>1. [t EXCEPT !.retries = d] = [spans |-> t.spans, turn |-> t.turn, tools |-> t.tools, retries |-> d]
    BY FieldsReplaced, Zenon
  <2>2. QED
    BY <1>1, <1>2, <2>1
<1>6. TraceShape([t EXCEPT !.retries = d, !.tools = f])
  <2>1. [t EXCEPT !.retries = d, !.tools = f]
          = [spans |-> t.spans, turn |-> t.turn, tools |-> f, retries |-> d]
    <3>1. \A v1, w : [t EXCEPT !.retries = v1, !.tools = w]
                    = [spans |-> t.spans, turn |-> t.turn, tools |-> w, retries |-> v1]
      BY FieldsReplaced, Zenon
    <3>2. QED
      BY <3>1, Zenon
  <2>2. QED
    BY <1>1, <1>2, <2>1, SMTT(30), ZenonT(30)
<1>7. QED
  BY <1>3, <1>4, <1>5, <1>6, Zenon

\* Changes of a table.
LEMMA Tables ==
  ASSUME NEW d, Table(d), NEW id
  PROVE  /\ \A n \in Nat : Table(Put(d, id, n))
         /\ Table(Popped(d, id))
         /\ Lookup(d, id) \in Nat
BY DEF Table, Put, Popped, Lookup

\* Whatever the tracer is given and whatever it missed, its record keeps its form.
LEMMA TracedShape ==
  ASSUME NEW t, TraceShape(t), NEW e
  PROVE  TraceShape(Traced(t, e))
<1>1. /\ t.spans \in Seq(Span) /\ t.turn \in Nat /\ Table(t.tools) /\ Table(t.retries)
      /\ Len(t.spans) + 1 \in Nat /\ Enclosing(t) \in Nat
  BY DEF TraceShape, Table, Enclosing
<1>2. ASSUME NEW u, TraceShape(u), NEW i \in Nat
      PROVE  /\ TraceShape(CloseSpan(u, i)) /\ CloseSpan(u, i).tools = u.tools
             /\ CloseSpan(u, i).retries = u.retries
  BY <1>2, CloseSpanIs DEF ClosedIn
<1>3. ASSUME NEW u, TraceShape(u), NEW kind \in SpanKinds, NEW owner \in Nat
      PROVE  /\ TraceShape(AppendSpan(u, kind, owner)) /\ AppendSpan(u, kind, owner).tools = u.tools
             /\ AppendSpan(u, kind, owner).retries = u.retries
  BY <1>3, AppendSpanIs, Zenon
<1>4. "turn" \in SpanKinds /\ "tool_call" \in SpanKinds /\ "retry" \in SpanKinds /\ "compaction" \in SpanKinds
  BY DEF SpanKinds
<1>5. TraceShape(TraceRun(t))
  BY RunNests DEF WellNested
<1>6. TraceShape(TraceTurn(t))
  <2> DEFINE p == AppendSpan(CloseSpan(t, t.turn), "turn", 1)
  <2>1. TraceShape(p)
    BY <1>1, <1>2, <1>3, <1>4, Zenon
  <2> HIDE DEF p
  <2>2. TraceShape([p EXCEPT !.turn = Len(t.spans) + 1])
    BY <1>1, <2>1, Reshaped, Zenon
  <2>3. QED
    BY <2>2, Zenon DEF TraceTurn, p
<1>7. TraceShape(TraceTool(t, e.id))
  <2> DEFINE p == AppendSpan(t, "tool_call", Enclosing(t))
             d == Put(t.tools, e.id, Len(t.spans) + 1)
  <2>1. TraceShape(p) /\ p.tools = t.tools
    BY <1>1, <1>3, <1>4, Zenon
  <2>2. Table(d)
    BY <1>1, Tables, Zenon
  <2> HIDE DEF p
  <2>3. [p EXCEPT !.tools = Put(@, e.id, Len(t.spans) + 1)] = [p EXCEPT !.tools = d]
    BY <2>1, Zenon
  <2> HIDE DEF d
  <2>4. TraceShape([p EXCEPT !.tools = d])
    BY <2>1, <2>2, Reshaped, Zenon
  <2>5. QED
    BY <2>3, <2>4, Zenon DEF TraceTool, p
<1>8. TraceShape(TraceRetry(t, e.id))
  <2>1. CASE e.id \notin DOMAIN t.tools
    BY <2>1 DEF TraceRetry
  <2>2. CASE e.id \in DOMAIN t.tools
    <3> DEFINE c == CloseSpan(t, Lookup(t.retries, e.id))
               p == AppendSpan(c, "retry", t.tools[e.id])
               d == Put(t.retries, e.id, Len(t.spans) + 1)
    <3>1. TraceShape(c) /\ c.retries = t.retries
      BY <1>1, <1>2, Tables, Zenon
    <3> HIDE DEF c
    <3>2. TraceShape(p) /\ p.retries = t.retries
      BY <1>1, <1>3, <1>4, <2>2, <3>1, Zenon DEF Table
    <3>3. Table(d)
      BY <1>1, Tables, Zenon
    <3> HIDE DEF p
    <3>4. [p EXCEPT !.retries = Put(@, e.id, Len(t.spans) + 1)] = [p EXCEPT !.retries = d]
      BY <3>2, Zenon
    <3> HIDE DEF d
    <3>5. TraceShape([p EXCEPT !.retries = d])
      BY <3>2, <3>3, Reshaped, Zenon
    <3>6. QED
      BY <2>2, <3>4, <3>5, Zenon DEF TraceRetry, p, c
  <2>3. QED
    BY <2>1, <2>2
<1>9. TraceShape(TraceToolEnd(t, e.id))
  <2> DEFINE c == CloseSpan(t, Lookup(t.retries, e.id))
             p == CloseSpan(c, Lookup(t.tools, e.id))
             d == Popped(t.retries, e.id)
             f == Popped(t.tools, e.id)
  <2>1. TraceShape(c) /\ c.retries = t.retries /\ c.tools = t.tools
    BY <1>1, <1>2, Tables, Zenon
  <2> HIDE DEF c
  <2>2. TraceShape(p) /\ p.retries = t.retries /\ p.tools = t.tools
    BY <1>1, <1>2, <2>1, Tables, Zenon
  <2>3. Table(d) /\ Table(f)
    BY <1>1, Tables
  <2> HIDE DEF p
  <2>4. [p EXCEPT !.retries = Popped(@, e.id), !.tools = Popped(@, e.id)] = [p EXCEPT !.retries = d, !.tools = f]
    BY <2>2, ZenonT(30)
  <2> HIDE DEF d, f
  <2>5. TraceShape([p EXCEPT !.retries = d, !.tools = f])
    BY <2>2, <2>3, Reshaped, Zenon
  <2>6. QED
    BY <2>4, <2>5, Zenon DEF TraceToolEnd, p, c
<1>10. TraceShape(TraceCompaction(t))
  <2>1. TraceShape(AppendSpan(t, "compaction", Enclosing(t)))
    BY <1>1, <1>3, <1>4
  <2>2. QED
    BY <1>1, <1>2, <2>1, ZenonT(30) DEF TraceCompaction
<1>11. TraceShape(TraceEnd(t))
  BY EndNests
<1>12. QED
  BY <1>5, <1>6, <1>7, <1>8, <1>9, <1>10, <1>11 DEF Traced

-----------------------------------------------------------------------------
(***************************************************************************)
(* The record and the run                                                  *)
(***************************************************************************)
\* Of a run nothing changed that the tracer's record of it depends on.
Still(b) ==
  /\ config' = config /\ stage'[b] = stage[b] /\ at'[b] = at[b] /\ out'[b] = out[b]
  /\ trace'[b] = trace[b]

\* Such a run stays as it was.
LEMMA StillInStep ==
  ASSUME NEW b, Still(b), InStep(b)
  PROVE  InStep(b)'
<1>1. Outstanding(b)' = Outstanding(b)
  BY DEF Still, Outstanding
<1>2. Announced(b)' = Announced(b)
  BY <1>1 DEF Still, Announced
<1>3. Behind(b)' <=> Behind(b)
  BY DEF Still, Behind
<1>4. Told(b)' = Told(b)
  BY <1>2, <1>3 DEF Still, Told
<1>5. QED
  BY <1>2, <1>3, <1>4 DEF Still, InStep

\* What a step of a run may publish, seen from the tracer.
Fits(a, e) ==
  /\ \/ e.type \in {"run_started", "run_finished", "error"}
     \/ Announced(a) \subseteq
          CASE e.type = "tool_call_started" -> Announced(a)' \ {e.id}
            [] e.type = "tool_call_finished" -> Announced(a)' \cup {e.id}
            [] OTHER -> Announced(a)'
  /\ stage'[a] \in MidRun => e.type = "run_started" \/ stage[a] \in MidRun
  /\ e.type = "turn_started" => stage'[a] = "context"
  /\ e.type = "tool_call_started" => stage'[a] \in {"gate", "execute"} /\ e.id \in Announced(a)'
  /\ e.type \in {"run_finished", "error"} => stage'[a] \notin MidRun

Goes(a) ==
  /\ out[a].left = <<>>
  /\ UNCHANGED <<config, bus, trace, seen>>
  /\ \A b \in Runners \ {a} : stage'[b] = stage[b] /\ at'[b] = at[b]
  /\ DOMAIN stage' = Runners /\ at' \in [Runners -> [turn : Nat, batch : Nat, k : Nat, retried : BOOLEAN]]
  /\ stage'[a] \in {"context", "model"} => at'[a].k = 1
  /\ stage'[a] \in {"gate", "execute", "result", "again"} => at'[a].k \in 1..at'[a].batch
  /\ \/ UNCHANGED out /\ (stage'[a] \in MidRun => stage[a] \in MidRun) /\ Announced(a) \subseteq Announced(a)'
     \/ \E type, id : Publish(a, Event(type, id)) /\ Fits(a, Event(type, id))

\* What publish leaves to deliver.
LEMMA Published ==
  ASSUME RunShape, NEW a \in Runners, NEW e, Publish(a, e)
  PROVE  /\ DOMAIN out' = Runners /\ \A b \in Runners \ {a} : out'[b] = out[b]
         /\ out'[a] = [event |-> out'[a].event, left |-> out'[a].left]
         /\ out'[a].left \in Seq(Subscribers) /\ IsInjective(out'[a].left)
         /\ Behind(a)' <=> "tracer" \in Range(bus)
         /\ Behind(a)' => out'[a].event = e
<1> DEFINE g == Gather
<1>1. g \in Seq(Subscribers) /\ IsInjective(g) /\ ("tracer" \in Range(g) <=> "tracer" \in Range(bus))
  <2>1. bus \in Seq(Subscribers) /\ IsInjective(bus)
    BY DEF RunShape
  <2>2. LET w == Without(bus, "coroutine")
        IN  w \in Seq(Subscribers) /\ IsInjective(w) /\ Range(w) = Range(bus) \ {"coroutine"}
    BY <2>1, WithoutIs
  <2>3. QED
    BY <2>1, <2>2 DEF Gather
<1> HIDE DEF g
<1>2. /\ DOMAIN out' = Runners /\ \A b \in Runners \ {a} : out'[b] = out[b]
      /\ out'[a] = IF g = <<>> THEN Quiet ELSE [event |-> e, left |-> g]
  BY DEF RunShape, Publish, g
<1>3. CASE g = <<>>
  <2>1. out'[a] = Quiet /\ Quiet.left = <<>>
    BY <1>2, <1>3 DEF Quiet
  <2>2. Range(<<>>) = {} /\ IsInjective(<<>>) /\ <<>> \in Seq(Subscribers)
    BY DEF Range, IsInjective
  <2>3. Quiet = [event |-> Quiet.event, left |-> Quiet.left]
    BY DEF Quiet
  <2>4. QED
    BY <1>1, <1>2, <1>3, <2>1, <2>2, <2>3, Zenon DEF Behind
<1>4. CASE g # <<>>
  BY <1>1, <1>2, <1>4 DEF Behind
<1>5. QED
  BY <1>3, <1>4

LEMMA GoesShape ==
  ASSUME RunShape, NEW a \in Runners, Goes(a)
  PROVE  RunShape'
<1>1. /\ DOMAIN out' = Runners
      /\ \A b \in Runners : /\ out'[b] = [event |-> out'[b].event, left |-> out'[b].left]
                            /\ out'[b].left \in Seq(Subscribers) /\ IsInjective(out'[b].left)
  <2>1. CASE UNCHANGED out
    BY <2>1, SMTT(30), ZenonT(30) DEF RunShape
  <2>2. CASE \E type, id : Publish(a, Event(type, id))
    <3>1. PICK e : Publish(a, e)
      BY <2>2
    <3>2. \A b \in Runners \ {a} : out'[b] = out[b]
      BY <3>1, Published, ZenonT(30)
    <3>3. /\ DOMAIN out' = Runners /\ out'[a] = [event |-> out'[a].event, left |-> out'[a].left]
          /\ out'[a].left \in Seq(Subscribers) /\ IsInjective(out'[a].left)
      BY <3>1, Published
    <3>4. QED
      BY <3>2, <3>3, Zenon DEF RunShape
  <2>3. QED
    BY <2>1, <2>2 DEF Goes
<1>2. /\ config' \in Configs /\ bus' \in Seq(Subscribers) /\ IsInjective(bus')
      /\ DOMAIN trace' = Runners /\ DOMAIN seen' = Runners /\ \A b \in Runners : TraceShape(trace'[b])
  BY DEF RunShape, Goes
<1>3. \A b \in Runners :
        /\ stage'[b] \in {"context", "model"} => at'[b].k = 1
        /\ stage'[b] \in {"gate", "execute", "result", "again"} => at'[b].k \in 1..at'[b].batch
  BY ZenonT(30) DEF RunShape, Goes
<1>4. DOMAIN stage' = Runners /\ at' \in [Runners -> [turn : Nat, batch : Nat, k : Nat, retried : BOOLEAN]]
  BY DEF Goes
<1>5. QED
  BY <1>1, <1>2, <1>3, <1>4 DEF RunShape

\* A run's step keeps the tracer's record in step with it.
LEMMA GoesInStep ==
  ASSUME RunShape, NEW a \in Runners, Goes(a), SteadyBus, \A b \in Runners : InStep(b)
  PROVE  SteadyBus' /\ \A b \in Runners : InStep(b)'
<1>1. ~Behind(a)
  BY SMTT(30), ZenonT(30) DEF Goes, Behind, Range
<1>2. WellNested(trace[a]) /\ DOMAIN trace[a].tools \subseteq Announced(a)
  BY <1>1, SMTT(30), ZenonT(30) DEF InStep, Told
<1>3. \A b \in Runners \ {a} : out'[b] = out[b]
  BY Published, ZenonT(30) DEF Goes
<1>4. \A b \in Runners \ {a} : InStep(b)'
  BY <1>3, StillInStep DEF Goes, Still
<1>5. trace'[a] = trace[a] /\ bus' = bus /\ trace' = trace
  BY DEF Goes
<1>6. stage[a] \in MidRun => trace[a].spans = <<>> \/ trace[a].spans[1].open
  BY <1>1 DEF InStep
<1>7. CASE UNCHANGED out /\ (stage'[a] \in MidRun => stage[a] \in MidRun) /\ Announced(a) \subseteq Announced(a)'
  <2>1. /\ ~Behind(a)' /\ \A b \in Runners : Behind(b)' <=> Behind(b)
    BY <1>1, <1>7 DEF Behind
  <2>2. Told(a)' = Announced(a)'
    BY <2>1, SMTT(30), ZenonT(30) DEF Told
  <2>3. InStep(a)'
    BY <1>2, <1>5, <1>6, <1>7, <2>1, <2>2 DEF InStep
  <2>4. SteadyBus'
    BY <1>5, <2>1 DEF SteadyBus
  <2>5. QED
    BY <1>4, <2>3, <2>4
<1>8. CASE \E type, id : Publish(a, Event(type, id)) /\ Fits(a, Event(type, id))
  <2>1. PICK e : Publish(a, e) /\ Fits(a, e)
    BY <1>8, SMTT(30), ZenonT(30)
  <2>2. (Behind(a)' <=> "tracer" \in Range(bus)) /\ (Behind(a)' => out'[a].event = e)
    BY <2>1, Published, ZenonT(30)
  <2>3. \A b \in Runners \ {a} : Behind(b)' <=> Behind(b)
    BY <1>3 DEF Behind
  <2>4. SteadyBus'
    BY <1>5, <2>2, <2>3 DEF SteadyBus
  <2>5. CASE "tracer" \in Range(bus)
    <3>1. Behind(a)' /\ out'[a].event = e
      BY <2>2, <2>5
    <3>2. \/ e.type \in {"run_started", "run_finished", "error"}
          \/ DOMAIN trace[a].tools \subseteq Told(a)'
      BY <1>2, <2>1, <3>1 DEF Fits, Told
    <3>3. InStep(a)'
      BY <1>2, <1>5, <1>6, <2>1, <3>1, <3>2 DEF InStep, Fits
    <3>4. QED
      BY <1>4, <2>4, <3>3
  <2>6. CASE "tracer" \notin Range(bus)
    <3>1. trace[a] = NoTrace /\ ~Behind(a)'
      BY <2>2, <2>6 DEF SteadyBus
    <3>2. InStep(a)'
      BY <1>5, <3>1, NoTraceIs DEF InStep
    <3>3. QED
      BY <1>4, <2>4, <3>2
  <2>7. QED
    BY <2>5, <2>6
<1>9. QED
  BY <1>7, <1>8 DEF Goes

Place == [turn : Nat, batch : Nat, k : Nat, retried : BOOLEAN]
Calling == {"gate", "execute", "result", "again"}

\* A step that changes one field of a run's place.
LEMMA PlaceMoves ==
  ASSUME at \in [Runners -> Place], NEW a \in Runners, NEW v \in Nat
  PROVE  /\ at' = [at EXCEPT ![a].k = v] =>
              /\ at' \in [Runners -> Place] /\ \A b \in Runners \ {a} : at'[b] = at[b]
              /\ at'[a].turn = at[a].turn /\ at'[a].batch = at[a].batch /\ at'[a].k = v
         /\ at' = [at EXCEPT ![a].batch = v] =>
              /\ at' \in [Runners -> Place] /\ \A b \in Runners \ {a} : at'[b] = at[b]
              /\ at'[a].turn = at[a].turn /\ at'[a].batch = v /\ at'[a].k = at[a].k
         /\ at' = [at EXCEPT ![a].retried = TRUE] =>
              /\ at' \in [Runners -> Place] /\ \A b \in Runners \ {a} : at'[b] = at[b]
              /\ at'[a].turn = at[a].turn /\ at'[a].batch = at[a].batch /\ at'[a].k = at[a].k
<1> DEFINE r == at[a]
<1>1. r \in Place /\ \A p \in Place : [at EXCEPT ![a] = p] \in [Runners -> Place]
  OBVIOUS
<1>2. ASSUME NEW p \in Place
      PROVE  LET f == [at EXCEPT ![a] = p]
             IN  f \in [Runners -> Place] /\ f[a] = p /\ \A b \in Runners \ {a} : f[b] = at[b]
  OBVIOUS
<1>3. \A w : [r EXCEPT !.retried = w] = [turn |-> r.turn, batch |-> r.batch, k |-> r.k, retried |-> w]
  BY <1>1 DEF Place
<1>4. /\ [r EXCEPT !.k = v] = [turn |-> r.turn, batch |-> r.batch, k |-> v, retried |-> r.retried]
      /\ [r EXCEPT !.batch = v] = [turn |-> r.turn, batch |-> v, k |-> r.k, retried |-> r.retried]
  BY <1>1 DEF Place
<1>5. [r EXCEPT !.retried = TRUE] = [turn |-> r.turn, batch |-> r.batch, k |-> r.k, retried |-> TRUE]
  BY <1>3, Zenon
<1>6. /\ [r EXCEPT !.k = v] \in Place /\ [r EXCEPT !.k = v].turn = r.turn
      /\ [r EXCEPT !.k = v].batch = r.batch /\ [r EXCEPT !.k = v].k = v
  BY <1>1, <1>4 DEF Place
<1>7. /\ [r EXCEPT !.batch = v] \in Place /\ [r EXCEPT !.batch = v].turn = r.turn
      /\ [r EXCEPT !.batch = v].batch = v /\ [r EXCEPT !.batch = v].k = r.k
  BY <1>1, <1>4 DEF Place
<1>8. ASSUME NEW m, m = [turn |-> r.turn, batch |-> r.batch, k |-> r.k, retried |-> TRUE]
      PROVE  m \in Place /\ m.turn = r.turn /\ m.batch = r.batch /\ m.k = r.k
  BY <1>1, <1>8 DEF Place
<1>9. /\ [r EXCEPT !.retried = TRUE] \in Place /\ [r EXCEPT !.retried = TRUE].turn = r.turn
      /\ [r EXCEPT !.retried = TRUE].batch = r.batch /\ [r EXCEPT !.retried = TRUE].k = r.k
  BY <1>5, <1>8, Zenon
<1>10. /\ [at EXCEPT ![a].k = v] = [at EXCEPT ![a] = [r EXCEPT !.k = v]]
       /\ [at EXCEPT ![a].batch = v] = [at EXCEPT ![a] = [r EXCEPT !.batch = v]]
       /\ [at EXCEPT ![a].retried = TRUE] = [at EXCEPT ![a] = [r EXCEPT !.retried = TRUE]]
  BY Zenon
<1>11. QED
  BY <1>2, <1>6, <1>7, <1>9, <1>10, ZenonT(30)

\* Outside a turn's calls none is outstanding.
LEMMA NoneAnnounced ==
  ASSUME NEW a, stage[a] \notin Calling
  PROVE  Announced(a) = {}
<1>1. Outstanding(a) = {}
  BY SMTT(30), ZenonT(30) DEF Outstanding, Calling
<1>2. QED
  BY <1>1 DEF Announced

\* A step that only publishes moves a run from one stage to another.
LEMMA Emits ==
  ASSUME RunShape, NEW a \in Runners, NEW p, Ready(a, p), NEW type, NEW id, NEW q, Emit(a, type, id, q),
         at' = at, Fits(a, Event(type, id)),
         q \in {"model"} => at[a].k = 1, q \notin Calling \cup {"context"}
  PROVE  Goes(a)
<1>1. /\ stage' = [stage EXCEPT ![a] = q] /\ out[a].left = <<>> /\ UNCHANGED <<config, bus, trace, seen>>
      /\ Publish(a, Event(type, id))
  BY SMTT(30), ZenonT(30) DEF Emit, GoTo, Ready, listeners
<1>2. at' \in [Runners -> Place]
  BY DEF RunShape, Place
<1>3. QED
  BY <1>1, <1>2, SMTT(30), ZenonT(30) DEF Goes, RunShape, Calling, Place

\* The steps around the turns and the calls.
LEMMA QuietlyGoes ==
  ASSUME RunShape, NEW a \in Runners,
         Recall(a) \/ BeginRun(a) \/ HitCap(a) \/ Compact(a) \/ RunFails(a) \/ FinishRun(a)
         \/ Remembered(a) \/ CleanupFailed(a)
  PROVE  Goes(a)
<1>1. CASE Recall(a)
  <2>1. stage[a] = "recall" /\ out[a].left = <<>> /\ at' = at /\ Announced(a) = {}
    BY <1>1, NoneAnnounced, Zenon DEF Recall, Ready, Calling
  <2>2. stage' = [stage EXCEPT ![a] = "start"] /\ UNCHANGED <<config, bus, trace, seen>>
    BY <1>1, SMTT(30), ZenonT(30) DEF Recall, Emit, GoTo, listeners
  <2>3. at' \in [Runners -> Place]
    BY <2>1, Zenon DEF RunShape, Place
  <2>4. Fits(a, Event("memory_recalled", 0))
    BY <2>1, <2>2 DEF Fits, Event, MidRun, RunShape
  <2>5. UNCHANGED out \/ Publish(a, Event("memory_recalled", 0))
    BY <1>1 DEF Recall, Emit
  <2>6. QED
    BY <2>1, <2>2, <2>3, <2>4, <2>5, ZenonT(30) DEF Goes, RunShape, MidRun, Place
<1>2. CASE BeginRun(a)
  <2>1. Ready(a, "start") /\ Emit(a, "run_started", 0, "turn") /\ at' = at
    BY <1>2 DEF BeginRun
  <2>2. Fits(a, Event("run_started", 0))
    BY DEF Fits, Event
  <2>3. QED
    BY <2>1, <2>2, Emits DEF Calling
<1>3. CASE HitCap(a)
  <2>1. Ready(a, "turn") /\ Emit(a, "error", 0, "finish") /\ at' = at
    BY <1>3, SMTT(30), ZenonT(30) DEF HitCap
  <2>2. stage'[a] = "finish"
    BY <2>1, Zenon DEF Emit, GoTo, RunShape
  <2>3. Fits(a, Event("error", 0))
    BY <2>2, SMTT(30), ZenonT(30) DEF Fits, Event, MidRun
  <2>4. QED
    BY <2>1, <2>3, Emits, SMTT(30), ZenonT(30) DEF Calling
<1>4. CASE Compact(a)
  <2>1. Ready(a, "context") /\ Emit(a, "compacted", 0, "model") /\ at' = at
    BY <1>4, SMTT(30), ZenonT(30) DEF Compact
  <2>2. stage[a] = "context" /\ Announced(a) = {} /\ at[a].k = 1
    BY <2>1, NoneAnnounced, Zenon DEF Ready, Calling, RunShape
  <2>3. Fits(a, Event("compacted", 0))
    BY <2>2 DEF Fits, Event, MidRun
  <2>4. QED
    BY <2>1, <2>2, <2>3, Emits, Zenon DEF Calling
<1>5. CASE RunFails(a)
  <2>1. PICK p : Ready(a, p) /\ Emit(a, "error", 0, "cleanup") /\ at' = at
    BY <1>5, SMTT(30), ZenonT(30) DEF RunFails
  <2>2. stage'[a] = "cleanup"
    BY <2>1, Zenon DEF Emit, GoTo, RunShape
  <2>3. Fits(a, Event("error", 0))
    BY <2>2, SMTT(30), ZenonT(30) DEF Fits, Event, MidRun
  <2>4. QED
    BY <2>1, <2>3, Emits DEF Calling
<1>6. CASE FinishRun(a)
  <2>1. Ready(a, "finish") /\ Emit(a, "run_finished", 0, "remember") /\ at' = at
    BY <1>6, SMTT(30), ZenonT(30) DEF FinishRun
  <2>2. stage'[a] = "remember"
    BY <2>1 DEF Emit, GoTo, RunShape
  <2>3. Fits(a, Event("run_finished", 0))
    BY <2>2, SMTT(30), ZenonT(30) DEF Fits, Event, MidRun
  <2>4. QED
    BY <2>1, <2>3, Emits DEF Calling
<1>7. CASE Remembered(a)
  <2>1. PICK type \in {"memory_store_failed", "memory_stored"} :
          Ready(a, "remembered") /\ Emit(a, type, 0, "cleanup") /\ at' = at
    BY <1>7, SMTT(30), ZenonT(30) DEF Remembered
  <2>2. stage'[a] = "cleanup" /\ Announced(a) = {}
    BY <2>1, NoneAnnounced, ZenonT(30) DEF Emit, GoTo, RunShape, Ready, Calling
  <2>3. Fits(a, Event(type, 0))
    BY <2>2 DEF Fits, Event, MidRun
  <2>4. QED
    BY <2>1, <2>3, Emits DEF Calling
<1>8. CASE CleanupFailed(a)
  <2>1. Ready(a, "cleaned") /\ Emit(a, "memory_cleanup_failed", 0, "done") /\ at' = at
    BY <1>8 DEF CleanupFailed
  <2>2. stage'[a] = "done" /\ Announced(a) = {}
    BY <2>1, NoneAnnounced, ZenonT(30) DEF Emit, GoTo, RunShape, Ready, Calling
  <2>3. Fits(a, Event("memory_cleanup_failed", 0))
    BY <2>2 DEF Fits, Event, MidRun
  <2>4. QED
    BY <2>1, <2>3, Emits DEF Calling
<1>9. QED
  BY <1>1, <1>2, <1>3, <1>4, <1>5, <1>6, <1>7, <1>8, SMTT(30), ZenonT(30)

\* The steps between a run's calls that publish nothing, or only that a save failed.
LEMMA SilentlyGoes ==
  ASSUME RunShape, NEW a \in Runners, Respond(a) \/ SaveState(a) \/ Remember(a) \/ Cleanup(a)
  PROVE  Goes(a)
<1>1. CASE Respond(a)
  <2>1. /\ stage[a] \in {"context", "model"} /\ out[a].left = <<>> /\ UNCHANGED <<config, bus, trace, seen, out>>
    BY <1>1 DEF Respond, Ready, listeners
  <2>2. Announced(a) = {} /\ at[a].k = 1 /\ stage[a] \in MidRun
    BY <2>1, NoneAnnounced DEF Calling, RunShape, MidRun
  <2>3. CASE stage' = [stage EXCEPT ![a] = "answered"] /\ at' = at
    BY <2>1, <2>2, <2>3, Zenon DEF Goes, RunShape
  <2>4. CASE stage' = [stage EXCEPT ![a] = "gate"] /\ \E n \in 1..config.batch : at' = [at EXCEPT ![a].batch = n]
    <3>1. PICK n \in 1..config.batch : at' = [at EXCEPT ![a].batch = n]
      BY <2>4, Zenon
    <3>2. config.batch \in Nat
      BY EventAssumption DEF RunShape
    <3>3. at' \in [Runners -> Place] /\ at'[a].k = 1 /\ at'[a].batch = n
      <4>1. at \in [Runners -> Place] /\ n \in Nat
        BY <3>2 DEF RunShape, Place
      <4>2. QED
        BY <2>2, <3>1, <4>1, PlaceMoves, Zenon
    <3>4. \A b \in Runners \ {a} : at'[b] = at[b]
      BY <3>1 DEF RunShape
    <3>5. QED
      BY <2>1, <2>2, <2>4, <3>2, <3>3, <3>4 DEF Goes, RunShape, Place
  <2>5. QED
    BY <1>1, <2>3, <2>4 DEF Respond, GoTo
<1>2. CASE SaveState(a)
  <2>1. /\ stage[a] \in {"saved", "answered"} /\ out[a].left = <<>> /\ UNCHANGED <<config, bus, trace, seen, at>>
        /\ stage' = [stage EXCEPT ![a] = "turn"] \/ stage' = [stage EXCEPT ![a] = "finish"]
        /\ UNCHANGED out \/ Publish(a, Event("replay_persist_failed", 0))
    BY <1>2, ZenonT(30) DEF SaveState, Snapshot, Ready, GoTo
  <2>2. Announced(a) = {} /\ stage[a] \in MidRun
    BY <2>1, NoneAnnounced DEF Calling, MidRun
  <2>3. Fits(a, Event("replay_persist_failed", 0))
    BY <2>2, SMTT(30), ZenonT(30) DEF Fits, Event
  <2>4. QED
    BY <2>1, <2>2, <2>3, ZenonT(30) DEF Goes, RunShape
<1>3. CASE Remember(a) \/ Cleanup(a)
  <2>1. /\ stage[a] \notin Calling /\ out[a].left = <<>> /\ UNCHANGED <<config, bus, trace, seen, at, out>>
        /\ stage' = [stage EXCEPT ![a] = "remembered"] \/ stage' = [stage EXCEPT ![a] = "cleaned"]
    BY <1>3, SMTT(30), ZenonT(30) DEF Remember, Cleanup, Ready, GoTo, listeners, Calling
  <2>2. Announced(a) = {} /\ stage'[a] \notin MidRun
    BY <2>1, NoneAnnounced, ZenonT(30) DEF RunShape, MidRun
  <2>3. QED
    BY <2>1, <2>2, ZenonT(30) DEF Goes, RunShape
<1>4. QED
  BY <1>1, <1>2, <1>3

\* The numbers of a turn's calls.
LEMMA Numbered ==
  ASSUME RunShape, NEW a \in Runners
  PROVE  /\ at[a] \in Place /\ at \in [Runners -> Place] /\ config.batch \in Nat
         /\ (at[a].turn - 1) * config.batch \in Int
BY EventAssumption, SMTT(30), ZenonT(30) DEF RunShape, Place

\* The calls announced before and after a step that changes neither turn nor batch.
LEMMA AnnouncedMoves ==
  ASSUME RunShape, NEW a \in Runners, config' = config, at'[a].turn = at[a].turn, NEW j \in Int
  PROVE  LET n == (at[a].turn - 1) * config.batch + j
         IN  /\ Outstanding(a) \subseteq Outstanding(a)' => Announced(a) \subseteq Announced(a)'
             /\ Outstanding(a) \subseteq Outstanding(a)' \cup {j} => Announced(a) \subseteq Announced(a)' \cup {n}
             /\ Outstanding(a) \subseteq Outstanding(a)' \ {j} /\ Outstanding(a) \subseteq Int
                   => Announced(a) \subseteq Announced(a)' \ {n}
             /\ j \in Outstanding(a)' => n \in Announced(a)'
<1> DEFINE c == (at[a].turn - 1) * config.batch
<1>1. c \in Int
  BY Numbered, SMTT(30), ZenonT(30)
<1>2. /\ Announced(a) = {c + i : i \in Outstanding(a)}
      /\ Announced(a)' = {c + i : i \in Outstanding(a)'}
  BY SMTT(30), ZenonT(30) DEF Announced
<1> HIDE DEF c
<1>3. ASSUME NEW i \in Int, c + i = c + j PROVE i = j
  BY <1>1, <1>3, SMTT(30), ZenonT(30)
<1>4. QED
  BY <1>1, <1>2, <1>3 DEF c

\* A turn starts when no call is outstanding.
LEMMA TurnGoes ==
  ASSUME RunShape, NEW a \in Runners, StartTurn(a)
  PROVE  Goes(a)
<1> DEFINE p == [turn |-> at[a].turn + 1, batch |-> 0, k |-> 1, retried |-> FALSE]
<1>1. /\ stage[a] = "turn" /\ out[a].left = <<>> /\ UNCHANGED <<config, bus, trace, seen>>
      /\ stage' = [stage EXCEPT ![a] = "context"] /\ Publish(a, Event("turn_started", 0))
  BY Zenon DEF StartTurn, Ready, Emit, GoTo, listeners
<1>2. at' = [at EXCEPT ![a] = p] /\ p \in Place
  BY Numbered DEF StartTurn, Place
<1>3. at' \in [Runners -> Place] /\ at'[a] = p /\ \A b \in Runners \ {a} : at'[b] = at[b]
  <2> HIDE DEF p
  <2>1. QED
    BY <1>2, Numbered
<1>4. at'[a].k = 1
  BY <1>3, SMTT(30), ZenonT(30)
<1>5. stage'[a] = "context" /\ Announced(a) = {} /\ stage[a] \in MidRun
  BY <1>1, NoneAnnounced, Zenon DEF RunShape, Calling, MidRun
<1>6. Fits(a, Event("turn_started", 0))
  BY <1>5 DEF Fits, Event
<1>7. QED
  BY <1>1, <1>3, <1>4, <1>5, <1>6, ZenonT(30) DEF Goes, RunShape, Place

\* A call is announced once.
LEMMA StartCallGoes ==
  ASSUME RunShape, NEW a \in Runners, StartCall(a)
  PROVE  Goes(a)
<1> DEFINE more == config.parallel /\ at[a].k < at[a].batch
           next == IF more THEN at[a].k + 1 ELSE IF config.parallel THEN 1 ELSE at[a].k
           q == IF more THEN "gate" ELSE "execute"
           e == Event("tool_call_started", Id(a))
<1>1. /\ stage[a] = "gate" /\ out[a].left = <<>> /\ UNCHANGED <<config, bus, trace, seen>>
      /\ stage' = [stage EXCEPT ![a] = q] /\ Publish(a, e)
  BY DEF StartCall, Ready, Emit, GoTo, listeners
<1>2. at' = [at EXCEPT ![a].k = next]
  BY DEF StartCall
<1>3. at[a].k \in 1..at[a].batch /\ at[a].batch \in Nat /\ at[a].k \in Nat
  BY <1>1, Numbered, Zenon DEF RunShape, Place
<1>4. next \in 1..at[a].batch /\ next \in Nat
  BY <1>3
<1>5. /\ at' \in [Runners -> Place] /\ \A b \in Runners \ {a} : at'[b] = at[b]
      /\ at'[a].turn = at[a].turn /\ at'[a].batch = at[a].batch /\ at'[a].k = next
  <2> HIDE DEF next
  <2>1. QED
    BY <1>2, <1>4, Numbered, PlaceMoves, ZenonT(30)
<1>6. stage'[a] = q /\ q \in {"gate", "execute"}
  BY <1>1 DEF RunShape
<1>7. Outstanding(a) = IF config.parallel THEN 1..(at[a].k - 1) ELSE {}
  BY <1>1 DEF Outstanding
<1>8. Outstanding(a)' = IF config.parallel THEN 1..at[a].k ELSE {at[a].k}
  <2>1. CASE more
    <3>1. stage'[a] = "gate" /\ at'[a].k = at[a].k + 1 /\ config'.parallel
      BY <1>1, <1>5, <1>6, <2>1
    <3>2. Outstanding(a)' = 1..(at'[a].k - 1)
      BY <3>1, SMTT(30), ZenonT(30) DEF Outstanding
    <3>3. QED
      BY <1>1, <1>3, <3>1, <3>2
  <2>2. CASE ~more
    <3>1. stage'[a] = "execute" /\ config' = config
      BY <1>1, <1>6, <2>2
    <3>2. Outstanding(a)' = IF config'.parallel THEN 1..at'[a].batch ELSE {at'[a].k}
      <4> HIDE DEF q, next
      <4>1. QED
        BY <3>1, Zenon DEF Outstanding
    <3>3. config.parallel => at'[a].batch = at[a].k
      BY <1>3, <1>5, <2>2
    <3>4. ~config.parallel => at'[a].k = at[a].k
      BY <1>5
    <3>5. QED
      BY <3>1, <3>2, <3>3, <3>4, ZenonT(30)
  <2>3. QED
    BY <2>1, <2>2
<1>9. /\ Outstanding(a) \subseteq Outstanding(a)' \ {at[a].k} /\ Outstanding(a) \subseteq Int
      /\ at[a].k \in Outstanding(a)'
  BY <1>3, <1>7, <1>8
<1>10. Announced(a) \subseteq Announced(a)' \ {Id(a)} /\ Id(a) \in Announced(a)'
  BY <1>1, <1>3, <1>5, <1>9, AnnouncedMoves DEF Id
<1>11. Fits(a, e)
  <2>1. e.type = "tool_call_started" /\ e.id = Id(a)
    BY SMTT(30), ZenonT(30) DEF Event
  <2> HIDE DEF e, q
  <2>2. QED
    BY <1>1, <1>6, <1>10, <2>1 DEF Fits, MidRun
<1> HIDE DEF q, next, e
<1>12. QED
  BY <1>1, <1>4, <1>5, <1>6, <1>11, ZenonT(30) DEF Goes, RunShape, Place, e

\* Executing calls leaves the announced ones outstanding.
LEMMA ExecuteGoes ==
  ASSUME RunShape, NEW a \in Runners, ExecuteCall(a)
  PROVE  Goes(a)
<1> DEFINE more == config.parallel /\ at[a].k < at[a].batch
           next == IF more THEN at[a].k + 1 ELSE IF config.parallel THEN 1 ELSE at[a].k
           q == IF more THEN "execute" ELSE "result"
<1>1. /\ stage[a] = "execute" /\ out[a].left = <<>> /\ UNCHANGED <<config, bus, trace, seen, out>>
      /\ stage' = [stage EXCEPT ![a] = q]
  BY DEF ExecuteCall, Ready, GoTo, listeners
<1>2. at' = [at EXCEPT ![a].k = next]
  BY SMTT(30), ZenonT(30) DEF ExecuteCall
<1>3. at[a].k \in 1..at[a].batch /\ at[a].batch \in Nat /\ at[a].k \in Nat
  BY <1>1, Numbered, ZenonT(30) DEF RunShape, Place
<1>4. next \in 1..at[a].batch /\ next \in Nat
  BY <1>3
<1>5. /\ at' \in [Runners -> Place] /\ \A b \in Runners \ {a} : at'[b] = at[b]
      /\ at'[a].turn = at[a].turn /\ at'[a].batch = at[a].batch /\ at'[a].k = next
  <2> HIDE DEF next
  <2>1. QED
    BY <1>2, <1>4, Numbered, PlaceMoves, Zenon
<1>6. stage'[a] = q /\ q \in {"execute", "result"}
  BY <1>1 DEF RunShape
<1>7. Outstanding(a) = IF config.parallel THEN 1..at[a].batch ELSE {at[a].k}
  BY <1>1 DEF Outstanding
<1>8. Outstanding(a)' = Outstanding(a)
  <2>1. CASE more
    <3>1. stage'[a] = "execute" /\ config'.parallel /\ config.parallel
      BY <1>1, <1>6, <2>1
    <3>2. Outstanding(a)' = 1..at'[a].batch
      BY <3>1, SMTT(30), ZenonT(30) DEF Outstanding
    <3>3. QED
      BY <1>5, <1>7, <3>1, <3>2
  <2>2. CASE ~more
    <3>1. stage'[a] = "result" /\ config' = config
      BY <1>1, <1>6, <2>2
    <3>2. Outstanding(a)' = IF config.parallel THEN at'[a].k..at'[a].batch ELSE {at'[a].k}
      BY <3>1 DEF Outstanding
    <3>3. at'[a].k = IF config.parallel THEN 1 ELSE at[a].k
      BY <1>5, <2>2, SMTT(30), ZenonT(30)
    <3>4. QED
      BY <1>5, <1>7, <3>2, <3>3, SMTT(30), ZenonT(30)
  <2>3. QED
    BY <2>1, <2>2, SMTT(30), ZenonT(30)
<1>9. Announced(a) \subseteq Announced(a)'
  BY <1>1, <1>3, <1>5, <1>8, AnnouncedMoves
<1> HIDE DEF q, next
<1>10. QED
  BY <1>1, <1>4, <1>5, <1>6, <1>9, Zenon DEF Goes, RunShape, Place, MidRun

\* A call that is retried was announced and has not finished.
LEMMA RetryGoes ==
  ASSUME RunShape, NEW a \in Runners, Retry(a) \/ ExecuteAgain(a)
  PROVE  Goes(a)
<1>1. CASE Retry(a)
  <2> DEFINE e == Event("tool_retry", Id(a))
  <2>1. /\ stage[a] = "result" /\ out[a].left = <<>> /\ UNCHANGED <<config, bus, trace, seen>>
        /\ stage' = [stage EXCEPT ![a] = "again"] /\ Publish(a, e) /\ at' = [at EXCEPT ![a].retried = TRUE]
    BY <1>1 DEF Retry, Ready, Emit, GoTo, listeners
  <2>2. /\ at' \in [Runners -> Place] /\ \A b \in Runners \ {a} : at'[b] = at[b]
        /\ at'[a].turn = at[a].turn /\ at'[a].batch = at[a].batch /\ at'[a].k = at[a].k
    BY <2>1, Numbered, PlaceMoves, Zenon
  <2>3. stage'[a] = "again" /\ at[a].k \in 1..at[a].batch
    BY <2>1 DEF RunShape
  <2>4. Outstanding(a)' = Outstanding(a)
    BY <2>1, <2>2, <2>3 DEF Outstanding
  <2>5. Announced(a) \subseteq Announced(a)'
    BY <2>1, <2>2, <2>4, AnnouncedMoves, SMTT(30), ZenonT(30)
  <2>6. Fits(a, e)
    <3>1. e.type = "tool_retry"
      BY DEF Event
    <3> HIDE DEF e
    <3>2. QED
      BY <2>1, <2>5, <3>1 DEF Fits, MidRun
  <2>7. QED
    BY <2>1, <2>2, <2>3, <2>6 DEF Goes, RunShape, Place
<1>2. CASE ExecuteAgain(a)
  <2>1. /\ stage[a] = "again" /\ out[a].left = <<>> /\ UNCHANGED <<config, bus, trace, seen, out, at>>
        /\ stage' = [stage EXCEPT ![a] = "result"]
    BY <1>2, ZenonT(30) DEF ExecuteAgain, Ready, GoTo, listeners
  <2>2. stage'[a] = "result"
    BY <2>1 DEF RunShape
  <2>3. Outstanding(a)' = Outstanding(a)
    BY <2>1, <2>2, SMTT(30), ZenonT(30) DEF Outstanding
  <2>4. Announced(a) \subseteq Announced(a)'
    BY <2>1, <2>3, AnnouncedMoves
  <2>5. QED
    BY <2>1, <2>2, <2>4, ZenonT(30) DEF Goes, RunShape, MidRun
<1>3. QED
  BY <1>1, <1>2

\* A call that finishes is outstanding no more.
LEMMA FinishCallGoes ==
  ASSUME RunShape, NEW a \in Runners, FinishCall(a)
  PROVE  Goes(a)
<1> DEFINE q == IF at[a].k = at[a].batch THEN "saved" ELSE IF config.parallel THEN "result" ELSE "gate"
           e == Event("tool_call_finished", Id(a))
<1>1. /\ stage[a] = "result" /\ out[a].left = <<>> /\ UNCHANGED <<config, bus, trace, seen>>
      /\ stage' = [stage EXCEPT ![a] = q] /\ Publish(a, e) /\ at' = [at EXCEPT ![a].k = at[a].k + 1]
  BY DEF FinishCall, Ready, Emit, GoTo, listeners
<1>2. at[a].k \in 1..at[a].batch /\ at[a].batch \in Nat /\ at[a].k \in Nat
  BY <1>1, Numbered DEF RunShape, Place
<1>3. /\ at' \in [Runners -> Place] /\ \A b \in Runners \ {a} : at'[b] = at[b]
      /\ at'[a].turn = at[a].turn /\ at'[a].batch = at[a].batch /\ at'[a].k = at[a].k + 1
  <2>1. at[a].k + 1 \in Nat
    BY <1>2
  <2>2. QED
    BY <1>1, <2>1, Numbered, PlaceMoves, Zenon
<1>4. stage'[a] = q
  BY <1>1 DEF RunShape
<1>5. Outstanding(a) = IF config.parallel THEN at[a].k..at[a].batch ELSE {at[a].k}
  BY <1>1 DEF Outstanding
<1>6. Outstanding(a) \subseteq Outstanding(a)' \cup {at[a].k}
  <2>1. CASE ~config.parallel
    BY <1>5, <2>1
  <2>2. CASE config.parallel /\ at[a].k = at[a].batch
    BY <1>2, <1>5, <2>2
  <2>3. CASE config.parallel /\ at[a].k # at[a].batch
    <3>1. Outstanding(a)' = (at[a].k + 1)..at[a].batch
      BY <1>1, <1>3, <1>4, <2>3 DEF Outstanding
    <3>2. QED
      BY <1>2, <1>5, <2>3, <3>1
  <2>4. QED
    BY <2>1, <2>2, <2>3
<1>7. Announced(a) \subseteq Announced(a)' \cup {Id(a)}
  BY <1>1, <1>2, <1>3, <1>6, AnnouncedMoves DEF Id
<1>8. Fits(a, e)
  <2>1. e.type = "tool_call_finished" /\ e.id = Id(a)
    BY DEF Event
  <2> HIDE DEF e, q
  <2>2. QED
    BY <1>1, <1>7, <2>1 DEF Fits, MidRun
<1>9. q \in Calling => at'[a].k \in 1..at'[a].batch
  BY <1>2, <1>3 DEF Calling
<1>10. q \notin {"context", "model"}
  OBVIOUS
<1> HIDE DEF q, e
<1>11. QED
  BY <1>1, <1>3, <1>4, <1>8, <1>9, <1>10 DEF Goes, RunShape, Place, Calling, e

LEMMA RunGoes ==
  ASSUME RunShape, NEW a \in Runners, Run(a)
  PROVE  Goes(a)
BY QuietlyGoes, SilentlyGoes, TurnGoes, StartCallGoes, ExecuteGoes, RetryGoes, FinishCallGoes, SMTT(30), ZenonT(30) DEF Run

\* The bus after a delivery.
LEMMA Delivered ==
  ASSUME RunShape, NEW a \in Runners, Deliver(a)
  PROVE  /\ out[a].left # <<>> /\ Head(out[a].left) \in Range(out[a].left)
         /\ DOMAIN out' = Runners /\ \A b \in Runners \ {a} : out'[b] = out[b]
         /\ out'[a] = [event |-> out'[a].event, left |-> out'[a].left]
         /\ out'[a].left \in Seq(Subscribers) /\ IsInjective(out'[a].left)
         /\ Range(out'[a].left) = Range(out[a].left) \ {Head(out[a].left)}
         /\ Behind(a)' => out'[a].event = out[a].event
<1> DEFINE left == Tail(out[a].left)
<1>1. /\ out[a].left # <<>> /\ out[a].left \in Seq(Subscribers) /\ IsInjective(out[a].left)
      /\ out[a] = [event |-> out[a].event, left |-> out[a].left]
      /\ DOMAIN out = Runners
  BY SMTT(30), ZenonT(30) DEF Deliver, RunShape
<1>2. /\ left \in Seq(Subscribers) /\ IsInjective(left)
      /\ Range(left) = Range(out[a].left) \ {Head(out[a].left)}
      /\ Head(out[a].left) \in Range(out[a].left)
  BY <1>1, TailIs
<1>3. out' = [out EXCEPT ![a] = IF left = <<>> THEN Quiet ELSE [out[a] EXCEPT !.left = left]]
  BY Zenon DEF Deliver, Rest
<1> HIDE DEF left
<1>4. /\ DOMAIN out' = Runners /\ \A b \in Runners \ {a} : out'[b] = out[b]
      /\ out'[a] = IF left = <<>> THEN Quiet ELSE [out[a] EXCEPT !.left = left]
  BY <1>1, <1>3
<1>5. CASE left = <<>>
  <2>1. out'[a] = Quiet /\ Quiet.left = <<>> /\ Quiet = [event |-> Quiet.event, left |-> Quiet.left]
    BY <1>4, <1>5 DEF Quiet
  <2>2. Range(<<>>) = {}
    BY DEF Range
  <2>3. QED
    BY <1>1, <1>2, <1>4, <1>5, <2>1, <2>2, ZenonT(30) DEF Behind
<1>6. CASE left # <<>>
  <2>1. PICK e, l : out[a] = [event |-> e, left |-> l]
    BY <1>1, Zenon
  <2>2. out'[a] = [event |-> e, left |-> left] /\ out[a].event = e
    BY <1>4, <1>6, <2>1
  <2>3. QED
    BY <1>1, <1>2, <1>4, <2>2 DEF Behind
<1>7. QED
  BY <1>5, <1>6

LEMMA DeliverShape ==
  ASSUME RunShape, NEW a \in Runners, Deliver(a)
  PROVE  RunShape'
<1>1. UNCHANGED <<config, stage, at, bus>>
  BY DEF Deliver
<1>2. /\ DOMAIN trace' = Runners /\ DOMAIN seen' = Runners
      /\ \A b \in Runners : TraceShape(trace'[b])
  <2>1. TraceShape(Traced(trace[a], out[a].event))
    BY TracedShape DEF RunShape
  <2>2. trace' = trace \/ trace' = [trace EXCEPT ![a] = Traced(trace[a], out[a].event)]
    BY DEF Deliver
  <2>3. DOMAIN seen' = Runners
    BY DEF Deliver, RunShape
  <2>4. QED
    BY <2>1, <2>2, <2>3, Zenon DEF RunShape
<1>3. /\ DOMAIN out' = Runners
      /\ \A b \in Runners : /\ out'[b] = [event |-> out'[b].event, left |-> out'[b].left]
                            /\ out'[b].left \in Seq(Subscribers) /\ IsInjective(out'[b].left)
  <2>1. \A b \in Runners \ {a} : out'[b] = out[b]
    BY Delivered, Zenon
  <2>2. /\ DOMAIN out' = Runners /\ out'[a] = [event |-> out'[a].event, left |-> out'[a].left]
        /\ out'[a].left \in Seq(Subscribers) /\ IsInjective(out'[a].left)
    BY Delivered
  <2>3. QED
    BY <2>1, <2>2, Zenon DEF RunShape
<1>4. QED
  BY <1>1, <1>2, <1>3 DEF RunShape

\* The run's last event leaves no span open, whatever the tracer missed before.
LEMMA DeliverEnds ==
  ASSUME RunShape, NEW a \in Runners, Deliver(a),
         \A b \in Runners : seen[b] \in {"run_finished", "error"} =>
           \A i \in DOMAIN trace[b].spans : ~trace[b].spans[i].open
  PROVE  \A b \in Runners : seen'[b] \in {"run_finished", "error"} =>
           \A i \in DOMAIN trace'[b].spans : ~trace'[b].spans[i].open
<1> DEFINE e == out[a].event
<1>1. CASE Head(out[a].left) # "tracer"
  BY <1>1, SMTT(30), ZenonT(30) DEF Deliver
<1>2. CASE Head(out[a].left) = "tracer"
  <2>1. /\ trace'[a] = Traced(trace[a], e) /\ seen'[a] = e.type
        /\ \A b \in Runners \ {a} : trace'[b] = trace[b] /\ seen'[b] = seen[b]
    BY <1>2, SMTT(30), ZenonT(30) DEF Deliver, RunShape
  <2>2. ASSUME e.type \in {"run_finished", "error"}
        PROVE  \A i \in DOMAIN trace'[a].spans : ~trace'[a].spans[i].open
    <3>1. trace'[a] = TraceEnd(trace[a]) /\ TraceShape(trace[a])
      BY <2>1, <2>2, SMTT(30), ZenonT(30) DEF Traced, RunShape
    <3>2. QED
      BY <3>1, EndNests
  <2>3. QED
    BY <2>1, <2>2
<1>3. QED
  BY <1>1, <1>2

\* What the tracer makes of an event it expects.
LEMMA TracedInStep ==
  ASSUME RunShape, NEW a \in Runners, InStep(a), Behind(a)
  PROVE  LET u == Traced(trace[a], out[a].event)
         IN  /\ WellNested(u) /\ DOMAIN u.tools \subseteq Announced(a)
             /\ stage[a] \in MidRun => u.spans = <<>> \/ u.spans[1].open
<1> DEFINE e == out[a].event
           t == trace[a]
           u == Traced(t, e)
<1>1. WellNested(t) /\ TraceShape(t)
  BY ZenonT(30) DEF InStep, WellNested
<1>2. e.type \notin {"run_started", "run_finished", "error"} => DOMAIN t.tools \subseteq Told(a)
  BY SMTT(30), ZenonT(30) DEF InStep
<1>3. stage[a] \in MidRun /\ e.type # "run_started" => t.spans = <<>> \/ t.spans[1].open
  BY SMTT(30), ZenonT(30) DEF InStep
<1>4. /\ e.type = "turn_started" => stage[a] = "context"
      /\ e.type = "tool_call_started" => stage[a] \in {"gate", "execute"} /\ e.id \in Announced(a)
      /\ e.type \in {"run_finished", "error"} => stage[a] \notin MidRun
  BY SMTT(30), ZenonT(30) DEF InStep
<1>5. CASE e.type = "run_started"
  <2>1. u = TraceRun(t)
    BY <1>5, SMTT(30), ZenonT(30) DEF Traced
  <2>2. QED
    BY <2>1, RunNests
<1>6. CASE e.type = "turn_started"
  <2>1. u = TraceTurn(t)
    BY <1>6, SMTT(30), ZenonT(30) DEF Traced
  <2>2. Announced(a) = {} /\ Told(a) = Announced(a) /\ stage[a] \in MidRun
    BY <1>4, <1>6, NoneAnnounced, SMTT(30), ZenonT(30) DEF Told, Calling, MidRun
  <2>3. DOMAIN t.tools = {} /\ (t.spans = <<>> \/ t.spans[1].open)
    BY <1>2, <1>3, <1>6, <2>2, SMTT(30), ZenonT(30)
  <2>4. QED
    BY ONLY <1>1, <2>1, <2>3, TurnNests, SMTT(60), ZenonT(60)
<1>7. CASE e.type = "tool_call_started"
  <2>1. u = TraceTool(t, e.id)
    BY <1>7, SMTT(30), ZenonT(30) DEF Traced
  <2>2. Told(a) = Announced(a) \ {e.id} /\ stage[a] \in MidRun /\ e.id \in Announced(a)
    BY <1>4, <1>7, SMTT(30), ZenonT(30) DEF Told, MidRun
  <2>3. DOMAIN t.tools \subseteq Announced(a) \ {e.id} /\ (t.spans = <<>> \/ t.spans[1].open)
    BY <1>2, <1>3, <1>7, <2>2, SMTT(30), ZenonT(30)
  <2>4. /\ WellNested(u) /\ DOMAIN u.tools \subseteq DOMAIN t.tools \cup {e.id}
        /\ u.spans = <<>> \/ u.spans[1].open
    <3> HIDE DEF u, t, e
    <3>1. QED
      BY ONLY <1>1, <2>1, <2>3, ToolNests, SMTT(60), ZenonT(60)
  <2>5. QED
    BY <2>2, <2>3, <2>4
<1>8. CASE e.type = "tool_retry"
  <2>1. u = TraceRetry(t, e.id) /\ Told(a) = Announced(a)
    BY <1>8, SMTT(30), ZenonT(30) DEF Traced, Told
  <2>2. /\ WellNested(u) /\ u.tools = t.tools
        /\ u.spans # <<>> /\ t.spans[1].open => u.spans[1].open
        /\ t.spans = <<>> => u.spans = <<>>
    <3> HIDE DEF u, t, e
    <3>1. QED
      BY ONLY <1>1, <2>1, RetryNests, SMTT(60), ZenonT(60)
  <2>3. QED
    BY <1>2, <1>3, <1>8, <2>1, <2>2
<1>9. CASE e.type = "tool_call_finished"
  <2>1. u = TraceToolEnd(t, e.id) /\ Told(a) = Announced(a) \cup {e.id}
    BY <1>9, SMTT(30), ZenonT(30) DEF Traced, Told
  <2>2. /\ WellNested(u) /\ DOMAIN u.tools = DOMAIN t.tools \ {e.id}
        /\ t.spans # <<>> /\ t.spans[1].open => u.spans[1].open
        /\ t.spans = <<>> => u.spans = <<>>
    <3> HIDE DEF u, t, e
    <3>1. QED
      BY ONLY <1>1, <2>1, ToolEndNests, SMTT(60), ZenonT(60)
  <2>3. QED
    BY <1>2, <1>3, <1>9, <2>1, <2>2
<1>10. CASE e.type = "compacted"
  <2>1. u = TraceCompaction(t) /\ Told(a) = Announced(a)
    BY <1>10, SMTT(30), ZenonT(30) DEF Traced, Told
  <2>2. /\ WellNested(u) /\ u.tools = t.tools
        /\ u.spans # <<>> /\ t.spans[1].open => u.spans[1].open
        /\ t.spans = <<>> => u.spans = <<>>
    <3> HIDE DEF u, t, e
    <3>1. QED
      BY ONLY <1>1, <2>1, CompactionNests, SMTT(60), ZenonT(60)
  <2>3. QED
    BY <1>2, <1>3, <1>10, <2>1, <2>2
<1>11. CASE e.type \in {"run_finished", "error"}
  <2>1. u = TraceEnd(t) /\ stage[a] \notin MidRun
    BY <1>4, <1>11, SMTT(30), ZenonT(30) DEF Traced
  <2>2. WellNested(u) /\ DOMAIN u.tools = {}
    BY <1>1, <2>1, EndNests, SMTT(30), ZenonT(30)
  <2>3. QED
    BY <2>1, <2>2
<1>12. CASE e.type \notin {"run_started", "turn_started", "tool_call_started", "tool_retry",
                           "tool_call_finished", "compacted", "run_finished", "error"}
  <2>1. u = t /\ Told(a) = Announced(a)
    BY <1>12 DEF Traced, Told
  <2>2. QED
    BY <1>1, <1>2, <1>3, <1>12, <2>1
<1>13. QED
  BY <1>5, <1>6, <1>7, <1>8, <1>9, <1>10, <1>11, <1>12, ZenonT(30)

\* A delivery keeps every record in step with its run.
LEMMA DeliverInStep ==
  ASSUME RunShape, NEW a \in Runners, Deliver(a), SteadyBus, \A b \in Runners : InStep(b)
  PROVE  SteadyBus' /\ \A b \in Runners : InStep(b)'
<1> DEFINE e == out[a].event
<1>1. UNCHANGED <<config, stage, at, bus>>
  BY SMTT(30), ZenonT(30) DEF Deliver
<1>2. \A b \in Runners \ {a} : out'[b] = out[b]
  BY Delivered, Zenon
<1>3. \A b \in Runners \ {a} : trace'[b] = trace[b]
  BY DEF Deliver, RunShape
<1>4. \A b \in Runners \ {a} : InStep(b)'
  BY <1>1, <1>2, <1>3, StillInStep DEF Still
<1>5. Announced(a)' = Announced(a)
  BY <1>1 DEF Announced, Outstanding
<1>6. \A b \in Runners \ {a} : Behind(b)' <=> Behind(b)
  BY <1>2 DEF Behind
<1>7. Range(out'[a].left) = Range(out[a].left) \ {Head(out[a].left)} /\ Head(out[a].left) \in Range(out[a].left)
  BY Delivered, Zenon
<1>8. CASE Head(out[a].left) # "tracer"
  <2>1. trace' = trace /\ (Behind(a)' <=> Behind(a))
    BY <1>7, <1>8 DEF Deliver, Behind
  <2>2. Behind(a) => out'[a].event = e
    BY <2>1, Delivered, Zenon
  <2>3. Told(a)' = Told(a)
    BY <1>5, <2>1, <2>2 DEF Told
  <2>4. InStep(a)'
    BY <1>1, <1>5, <2>1, <2>2, <2>3 DEF InStep
  <2>5. SteadyBus'
    BY <1>1, <1>6, <2>1, SMTT(30), ZenonT(30) DEF SteadyBus
  <2>6. QED
    BY <1>4, <2>4, <2>5
<1>9. CASE Head(out[a].left) = "tracer"
  <2>1. Behind(a) /\ ~Behind(a)' /\ trace'[a] = Traced(trace[a], e)
    BY <1>7, <1>9, SMTT(30), ZenonT(30) DEF Deliver, Behind, RunShape
  <2>2. "tracer" \in Range(bus)'
    BY <1>1, <2>1, SMTT(30), ZenonT(30) DEF SteadyBus
  <2>3. Told(a)' = Announced(a)
    BY <1>5, <2>1, SMTT(30), ZenonT(30) DEF Told
  <2>4. InStep(a)'
    BY <1>1, <2>1, <2>3, TracedInStep, ZenonT(30) DEF InStep
  <2>5. QED
    BY <1>4, <2>2, <2>4 DEF SteadyBus
<1>10. QED
  BY <1>8, <1>9

\* Subscribers come and go.
LEMMA BusChanges ==
  ASSUME RunShape, NEW s \in Subscribers, Subscribe(s) \/ Unsubscribe(s)
  PROVE  /\ RunShape' /\ UNCHANGED <<config, trace, seen, stage, at, out>>
         /\ s # "tracer" => ("tracer" \in Range(bus)' <=> "tracer" \in Range(bus))
         /\ s \in config.toggles
<1>1. UNCHANGED <<config, trace, seen, stage, at, out>> /\ s \in config.toggles
  BY SMTT(30), ZenonT(30) DEF Subscribe, Unsubscribe, progress
<1>2. bus \in Seq(Subscribers) /\ IsInjective(bus)
  BY DEF RunShape
<1>3. /\ bus' \in Seq(Subscribers) /\ IsInjective(bus')
      /\ s # "tracer" => ("tracer" \in Range(bus') <=> "tracer" \in Range(bus))
  <2>1. CASE Subscribe(s)
    <3>1. bus' = Append(bus, s) /\ s \notin Range(bus)
      BY <2>1 DEF Subscribe
    <3>2. QED
      BY <1>2, <3>1, AppendIs, SMTT(30), ZenonT(30)
  <2>2. CASE Unsubscribe(s)
    <3>1. bus' = Without(bus, s)
      BY <2>2, SMTT(30), ZenonT(30) DEF Unsubscribe
    <3>2. QED
      BY <1>2, <3>1, WithoutIs, SMTT(30), ZenonT(30)
  <2>3. QED
    BY <2>1, <2>2, SMTT(30), ZenonT(30)
<1>4. RunShape'
  BY <1>1, <1>3 DEF RunShape
<1>5. QED
  BY <1>1, <1>3, <1>4, SMTT(30), ZenonT(30)

LEMMA SpanKeeps == SpanInv /\ [EventsNext]_eventVars => SpanInv'
<1> SUFFICES ASSUME SpanInv, [EventsNext]_eventVars PROVE SpanInv'
  OBVIOUS
<1> DEFINE Ended == \A a \in Runners : seen[a] \in {"run_finished", "error"} =>
                      \A i \in DOMAIN trace[a].spans : ~trace[a].spans[i].open
<1>1. RunShape /\ Ended
  BY DEF SpanInv
<1>2. "tracer" \notin config.toggles => SteadyBus /\ \A a \in Runners : InStep(a)
  BY SMTT(30), ZenonT(30) DEF SpanInv
<1>3. ASSUME NEW a \in Runners, Run(a) PROVE SpanInv'
  <2>1. Goes(a)
    BY <1>1, <1>3, RunGoes, SMTT(30), ZenonT(30)
  <2>2. UNCHANGED <<config, trace, seen>>
    BY <2>1, SMTT(30), ZenonT(30) DEF Goes
  <2>3. RunShape' /\ Ended'
    BY <1>1, <2>1, <2>2, GoesShape, SMTT(30), ZenonT(30)
  <2>4. "tracer" \notin config.toggles => SteadyBus' /\ \A b \in Runners : InStep(b)'
    BY <1>1, <1>2, <2>1, GoesInStep, SMTT(30), ZenonT(30)
  <2>5. QED
    BY <2>2, <2>3, <2>4, SMTT(30), ZenonT(30) DEF SpanInv
<1>4. ASSUME NEW a \in Runners, Deliver(a) PROVE SpanInv'
  <2>1. RunShape' /\ Ended'
    BY <1>1, <1>4, DeliverShape, DeliverEnds
  <2>2. config' = config
    BY <1>4 DEF Deliver
  <2>3. "tracer" \notin config.toggles => SteadyBus' /\ \A b \in Runners : InStep(b)'
    BY <1>1, <1>2, <1>4, DeliverInStep, SMTT(30), ZenonT(30)
  <2>4. QED
    BY <2>1, <2>2, <2>3, SMTT(30), ZenonT(30) DEF SpanInv
<1>5. ASSUME NEW s \in Subscribers, Subscribe(s) \/ Unsubscribe(s) PROVE SpanInv'
  <2>1. /\ RunShape' /\ UNCHANGED <<config, trace, seen, stage, at, out>>
        /\ s # "tracer" => ("tracer" \in Range(bus)' <=> "tracer" \in Range(bus))
        /\ s \in config.toggles
    BY <1>1, <1>5, BusChanges
  <2>2. ASSUME "tracer" \notin config.toggles
        PROVE  SteadyBus' /\ \A b \in Runners : InStep(b)'
    <3>1. \A b \in Runners : Still(b) /\ (Behind(b)' <=> Behind(b))
      BY <2>1, SMTT(30), ZenonT(30) DEF Still, Behind
    <3>2. SteadyBus'
      BY <1>2, <2>1, <2>2, <3>1, SMTT(30), ZenonT(30) DEF SteadyBus
    <3>3. QED
      BY <1>2, <2>2, <3>1, <3>2, StillInStep, SMTT(30), ZenonT(30)
  <2>3. QED
    BY <1>1, <2>1, <2>2, SMTT(30), ZenonT(30) DEF SpanInv
<1>6. CASE UNCHANGED <<config, stage, at, out, bus, trace, seen>>
  <2>1. \A b \in Runners : Still(b) /\ (Behind(b)' <=> Behind(b))
    BY <1>6, SMTT(30), ZenonT(30) DEF Still, Behind
  <2>2. RunShape' /\ Ended'
    BY <1>1, <1>6, SMTT(30), ZenonT(30) DEF RunShape
  <2>3. "tracer" \notin config.toggles => SteadyBus' /\ \A b \in Runners : InStep(b)'
    BY <1>2, <1>6, <2>1, StillInStep, ZenonT(30) DEF SteadyBus
  <2>4. QED
    BY <1>6, <2>2, <2>3 DEF SpanInv
<1>7. CASE (\E a \in Runners : MemoryStep(a)) \/ TimePasses \/ UNCHANGED eventVars
  BY <1>6, <1>7, ZenonT(30) DEF MemoryStep, TimePasses, eventVars, progress, listeners
<1>8. QED
  BY <1>3, <1>4, <1>5, <1>7, SMTT(30), ZenonT(30) DEF EventsNext

\* A record that is in step is well nested.
LEMMA NestedSpans == SpanInv => SpansNest
<1> SUFFICES ASSUME SpanInv, NEW a \in Runners, "tracer" \notin config.toggles
             PROVE  LET spans == trace[a].spans
                    IN  /\ \A i \in DOMAIN spans : spans[i].open /\ i > 1 => spans[spans[i].parent].open
                        /\ \A i, j \in DOMAIN spans :
                             spans[i].open /\ spans[j].open /\ spans[i].kind = "turn" /\ spans[j].kind = "turn"
                               => i = j
  BY SMTT(30), ZenonT(30) DEF SpanInv, SpansNest
<1> DEFINE t == trace[a]
<1>1. WellNested(t)
  BY SMTT(30), ZenonT(30) DEF SpanInv, InStep
<1> HIDE DEF t
<1>2. t.spans \in Seq(Span) /\ DOMAIN t.spans = 1..Len(t.spans) /\ Len(t.spans) \in Nat
  BY <1>1, SMTT(30), ZenonT(30) DEF WellNested, TraceShape
<1>3. ASSUME NEW i \in DOMAIN t.spans, t.spans[i].open, i > 1 PROVE t.spans[t.spans[i].parent].open
  <2>1. Placed(t, i) /\ t.spans[1].open
    BY <1>1, <1>2, <1>3, SMTT(30), ZenonT(30) DEF WellNested
  <2>2. t.turn # 0 => t.spans[t.turn].open
    BY <1>1, SMTT(30), ZenonT(30) DEF WellNested, IsOpen
  <2>3. \A x \in DOMAIN t.retries : t.spans[t.tools[x]].open
    BY <1>1 DEF WellNested, IsOpen
  <2>4. QED
    BY <2>1, <2>2, <2>3, SMTT(30), ZenonT(30) DEF Placed, Enclosing
<1>4. ASSUME NEW i \in DOMAIN t.spans, t.spans[i].open, t.spans[i].kind = "turn" PROVE i = t.turn
  <2>1. i # 1
    BY <1>1, <1>2, <1>4, SMTT(30), ZenonT(30) DEF WellNested
  <2>2. Placed(t, i)
    BY <1>1, <1>2, <1>4, <2>1 DEF WellNested
  <2>3. QED
    BY <1>4, <2>2, SMTT(30), ZenonT(30) DEF Placed
<1>5. QED
  BY <1>3, <1>4, SMTT(30), ZenonT(30) DEF t

(***************************************************************************)
(* Spans nest and end, for any number of runs on one bus, of turns and of  *)
(* calls, and for any subscribers in any order (observability/tracer.py).  *)
(***************************************************************************)
THEOREM SpansAlwaysNest == EventsSpec => []SpansNest
<1>1. EventsInit => SpanInv
  <2> SUFFICES ASSUME EventsInit PROVE SpanInv
    BY SMTT(30), ZenonT(30)
  <2>1. \A a \in Runners : trace[a] = NoTrace /\ out[a] = Quiet /\ ~Behind(a) /\ seen[a] = "none"
    BY SMTT(30), ZenonT(30) DEF EventsInit, Quiet, Behind, Range
  <2>2. \A a \in Runners : InStep(a)
    BY <2>1, NoTraceIs DEF InStep
  <2>3. \A a \in Runners : /\ out[a] = [event |-> out[a].event, left |-> out[a].left]
                           /\ out[a].left \in Seq(Subscribers) /\ IsInjective(out[a].left)
                           /\ TraceShape(trace[a])
    <3>1. /\ Quiet = [event |-> Quiet.event, left |-> Quiet.left]
          /\ Quiet.left \in Seq(Subscribers) /\ IsInjective(Quiet.left)
      BY SMTT(30), ZenonT(30) DEF Quiet, IsInjective
    <3>2. TraceShape(NoTrace)
      BY NoTraceIs, SMTT(30), ZenonT(30) DEF WellNested
    <3>3. QED
      BY <2>1, <3>1, <3>2
  <2>4. at \in [Runners -> Place]
    BY SMTT(30), ZenonT(30) DEF EventsInit, Place
  <2>5. config \in Configs /\ bus \in Seq(Subscribers) /\ IsInjective(bus)
    BY EventAssumption, SMTT(30), ZenonT(30) DEF EventsInit
  <2>6. RunShape
    BY <2>3, <2>4, <2>5 DEF RunShape, EventsInit, Place
  <2>7. QED
    BY <2>1, <2>2, <2>6 DEF SpanInv, SteadyBus
<1>2. QED
  BY <1>1, SpanKeeps, NestedSpans, PTL DEF EventsSpec
=============================================================================
