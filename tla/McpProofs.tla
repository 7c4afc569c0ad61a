------------------------------ MODULE McpProofs ------------------------------
(***************************************************************************)
(* Proofs about Mcp: what every caller of one MCP client is answered, for  *)
(* all numbers of callers, of servers' answers and of restarts.  McpInv    *)
(* relates each caller's place in _request to the connection it uses, to   *)
(* the ids handed out there and to the answers that are still under way.   *)
(***************************************************************************)
EXTENDS Mcp, TLAPS

-----------------------------------------------------------------------------
(* What holds of the requests and answers of every connection *)

Busy == {"lock"} \cup Waiting
Unsent == {"lock", "id", "send"}
Identified == {"send", "wait"}
Kinds == {"none", "ok", "notready", "toolerror", "mismatch", "failed", "malformed"}

RequestMessage ==
  [type : {"request"}, id : Nat, tok : Nat, method : {"initialize", "call"}, allowed : BOOLEAN]
ResponseMessage ==
  [type : {"response"}, id : Nat, tok : Nat, status : {"ok", "notready", "toolerror"}]
ToServer == RequestMessage \cup {Initialized}
ToClient == ResponseMessage \cup {Progress, Garbage}

McpTypes ==
  /\ setup.calls \in Nat /\ calls \in 0..setup.calls
  /\ stdin \in [Gens -> Seq(ToServer)] /\ stdout \in [Gens -> Seq(ToClient)]
  /\ nextId \in [Gens -> Nat] /\ executed \in [1..setup.calls -> Nat]
  /\ pc \in [Threads -> Busy \cup {"idle", "handshake", "closing", "reopen"}]
  /\ req \in [Threads -> [gen : Nat, id : Nat, tok : Nat, abandoned : BOOLEAN]]
  /\ outcome \in [Workers -> [kind : Kinds, gen : Nat, tok : Nat]]
  /\ proc \in [Gens -> {"none", "up", "dead"}]
  /\ closed \in [Gens -> BOOLEAN] /\ broken \in [Gens -> BOOLEAN]
  /\ \A t \in Workers : pc[t] \in Busy \cup {"idle"}

\* The messages of a queue, by position.
Requests(q) == {i \in DOMAIN q : q[i].type = "request"}
Responses(q) == {i \in DOMAIN q : q[i].type = "response"}

\* Tokens are those of calls that were issued.
TokensIssued ==
  /\ \A t \in Threads : pc[t] \in Busy => req[t].gen \in Gens /\ req[t].tok \in 1..calls
  /\ \A g \in Gens : /\ \A i \in Requests(stdin[g]) : stdin[g][i].tok \in 1..calls
                     /\ \A i \in Responses(stdout[g]) : stdout[g][i].tok \in 1..calls
  /\ \A t \in Workers : outcome[t].kind \in {"ok", "toolerror"} => outcome[t].tok \in 1..calls

\* A token is in the hands of one thread, and in one place on its way to the
\* server and back.
TokensApart ==
  /\ \A t, u \in Threads : t # u /\ pc[t] \in Busy /\ pc[u] \in Busy => req[t].tok # req[u].tok
  /\ \A t \in Threads, g \in Gens : pc[t] \in Unsent =>
       /\ \A i \in Requests(stdin[g]) : stdin[g][i].tok # req[t].tok
       /\ \A i \in Responses(stdout[g]) : stdout[g][i].tok # req[t].tok
  /\ \A g, h \in Gens : \A i \in Requests(stdin[g]), j \in Requests(stdin[h]) :
       stdin[g][i].tok = stdin[h][j].tok => g = h /\ i = j
  /\ \A g, h \in Gens : \A i \in Responses(stdout[g]), j \in Responses(stdout[h]) :
       stdout[g][i].tok = stdout[h][j].tok => g = h /\ i = j
  /\ \A g, h \in Gens : \A i \in Requests(stdin[g]), j \in Responses(stdout[h]) :
       stdin[g][i].tok # stdout[h][j].tok

\* The tool has not run for a request that has not reached the server, and ran
\* for an answer as the answer says; initialize has no worker.
RunsAsAnswered ==
  /\ \A k \in DOMAIN executed : k > calls => executed[k] = 0
  /\ \A t \in Threads : pc[t] \in Unsent => executed[req[t].tok] = 0
  /\ \A g \in Gens : \A i \in Requests(stdin[g]) :
       /\ executed[stdin[g][i].tok] = 0
       /\ stdin[g][i].method = "initialize" =>
            \A t \in Workers : pc[t] \in Busy => req[t].tok # stdin[g][i].tok
  /\ \A g \in Gens : \A i \in Responses(stdout[g]) :
       /\ stdout[g][i].status = "toolerror" => executed[stdout[g][i].tok] = 0
       /\ stdout[g][i].status = "ok" =>
            \A t \in Workers : pc[t] \in Busy /\ req[t].tok = stdout[g][i].tok
                               => executed[req[t].tok] = 1

\* An outcome is about a request that is not on its way any more.
OutcomesSettled ==
  \A t \in Workers :
    outcome[t].kind \in {"ok", "toolerror"} =>
      /\ executed[outcome[t].tok] = IF outcome[t].kind = "ok" THEN 1 ELSE 0
      /\ \A u \in Threads : pc[u] \in Unsent => req[u].tok # outcome[t].tok
      /\ \A g \in Gens : \A i \in Requests(stdin[g]) : stdin[g][i].tok # outcome[t].tok

\* An id of a connection is that of one request.
IdsApart ==
  /\ \A t \in Threads : pc[t] \in Identified => req[t].id < nextId[req[t].gen]
  /\ \A t, u \in Threads :
       /\ t # u /\ pc[t] \in Identified /\ pc[u] \in Identified /\ req[t].gen = req[u].gen
       => req[t].id # req[u].id
  /\ \A g \in Gens :
       /\ \A i \in Requests(stdin[g]) : stdin[g][i].id < nextId[g]
       /\ \A i \in Responses(stdout[g]) : stdout[g][i].id < nextId[g]
       /\ \A t \in Threads : pc[t] \in Identified /\ req[t].gen = g =>
            /\ \A i \in Requests(stdin[g]) :
                 stdin[g][i].id = req[t].id => stdin[g][i].tok = req[t].tok
            /\ \A i \in Responses(stdout[g]) :
                 stdout[g][i].id = req[t].id => stdout[g][i].tok = req[t].tok

McpInv == McpTypes /\ TokensIssued /\ TokensApart /\ RunsAsAnswered /\ OutcomesSettled /\ IdsApart

\* Who waits on generation g for the message with this id.
Awaited(g, id) == \E t \in Threads : pc[t] = "wait" /\ req[t].gen = g /\ req[t].id = id

\* On a connection without trouble one thread at a time is between its id and
\* its answer, and all that is in the pipes is its request or its answer; what a
\* closed SSE connection holds is not read any more.
SerialUnlessTroubled ==
  \A g \in Gens \ trouble :
    /\ ~broken[g]
    /\ \A t, u \in Threads :
         /\ pc[t] \in Identified /\ pc[u] \in Identified /\ req[t].gen = g /\ req[u].gen = g
         => t = u
    /\ ~(closed[g] /\ setup.kind = "sse") =>
         /\ \A i \in Requests(stdin[g]) : Awaited(g, stdin[g][i].id)
         /\ \A i \in Responses(stdout[g]) : Awaited(g, stdout[g][i].id)

DeadReadsNothing == \A g \in Gens : proc[g] = "dead" => stdin[g] = <<>>

CauseInv == SerialUnlessTroubled /\ DeadReadsNothing /\ MismatchHasCause

-----------------------------------------------------------------------------
LEMMA InitMcpInv == Init => McpInv
<1> SUFFICES ASSUME Init PROVE McpInv
  OBVIOUS
<1>1. setup \in Setups /\ setup.calls \in Nat
  BY McpAssumption DEF Init
<1>2. \A g \in Gens : stdin[g] = <<>> /\ stdout[g] = <<>>
  BY DEF Init
<1>3. \A g \in Gens : Requests(stdin[g]) = {} /\ Responses(stdout[g]) = {}
  BY <1>2 DEF Requests, Responses
<1>4. \A t \in Threads : pc[t] = "idle" /\ pc[t] \notin Busy
  BY DEF Init, Busy, Waiting
<1>5. \A t \in Workers : outcome[t].kind = "none"
  BY DEF Init, NoOutcome
<1>6. McpTypes
  <2>1. /\ stdin \in [Gens -> Seq(ToServer)] /\ stdout \in [Gens -> Seq(ToClient)]
        /\ nextId \in [Gens -> Nat] /\ executed \in [1..setup.calls -> Nat]
    BY DEF Init
  <2>2. /\ req \in [Threads -> [gen : Nat, id : Nat, tok : Nat, abandoned : BOOLEAN]]
        /\ outcome \in [Workers -> [kind : Kinds, gen : Nat, tok : Nat]]
    BY DEF Init, NoReq, NoOutcome, Kinds
  <2>3. calls \in 0..setup.calls
    BY <1>1 DEF Init
  <2>4. /\ pc \in [Threads -> Busy \cup {"idle", "handshake", "closing", "reopen"}]
        /\ \A t \in Workers : pc[t] \in Busy \cup {"idle"}
    BY DEF Init, Threads
  <2>5. /\ proc \in [Gens -> {"none", "up", "dead"}]
        /\ closed \in [Gens -> BOOLEAN] /\ broken \in [Gens -> BOOLEAN]
    BY DEF Init
  <2>6. QED
    BY <1>1, <2>1, <2>2, <2>3, <2>4, <2>5 DEF McpTypes
<1>7. TokensIssued /\ TokensApart
  BY <1>3, <1>4, <1>5, Zenon DEF TokensIssued, TokensApart, Busy, Unsent, Waiting
<1>8. RunsAsAnswered /\ OutcomesSettled /\ IdsApart
  <2>1. \A k \in DOMAIN executed : executed[k] = 0
    BY DEF Init
  <2>2. QED
    BY <2>1, <1>3, <1>4, <1>5, Zenon DEF RunsAsAnswered, OutcomesSettled, IdsApart, Busy, Unsent, Identified, Waiting
<1>9. QED
  BY <1>6, <1>7, <1>8 DEF McpInv

\* What is on its way only gets less: messages are consumed from the front or
\* lost, others than requests and answers may be added, and threads move on
\* without a new request, a new id or a message sent.
Fewer(d, e) ==
  /\ \A g \in Gens :
       /\ d[g] \in Nat /\ e[g] \in Nat
       /\ \A i \in Requests(stdin'[g]) :
            i + d[g] \in Requests(stdin[g]) /\ stdin'[g][i] = stdin[g][i + d[g]]
       /\ \A i \in Responses(stdout'[g]) :
            i + e[g] \in Responses(stdout[g]) /\ stdout'[g][i] = stdout[g][i + e[g]]
  /\ \A t \in Threads :
       /\ pc'[t] \in Busy => /\ pc[t] \in Busy
                             /\ req'[t].gen = req[t].gen /\ req'[t].tok = req[t].tok
       /\ pc'[t] \in Unsent => pc[t] \in Unsent
       /\ pc'[t] \in Identified => pc[t] \in Identified /\ req'[t].id = req[t].id
  /\ UNCHANGED <<executed, nextId, calls>>

LEMMA BusyParts ==
  /\ \A x : x \in Unsent => x \in Busy
  /\ \A x : x \in Identified => x \in Busy
BY DEF Busy, Unsent, Identified, Waiting

LEMMA FewerKeeps ==
  ASSUME McpInv, McpTypes', NEW d, NEW e, Fewer(d, e)
  PROVE  /\ TokensApart' /\ RunsAsAnswered' /\ IdsApart'
         /\ (\A t \in Workers : \/ outcome'[t] = outcome[t]
                                \/ outcome'[t].kind \notin {"ok", "toolerror"})
            => TokensIssued' /\ OutcomesSettled'
<1> USE BusyParts
<1>1. TokensApart'
  <2>1. \A t, u \in Threads : t # u /\ pc'[t] \in Busy /\ pc'[u] \in Busy => req'[t].tok # req'[u].tok
    BY DEF Fewer, McpInv, TokensApart
  <2>2. \A t \in Threads, g \in Gens : pc'[t] \in Unsent =>
          /\ \A i \in Requests(stdin'[g]) : stdin'[g][i].tok # req'[t].tok
          /\ \A i \in Responses(stdout'[g]) : stdout'[g][i].tok # req'[t].tok
    BY DEF Fewer, McpInv, TokensApart
  <2>3. ASSUME NEW g \in Gens, NEW h \in Gens, NEW i \in Requests(stdin'[g]),
               NEW j \in Requests(stdin'[h]), stdin'[g][i].tok = stdin'[h][j].tok
        PROVE  g = h /\ i = j
    <3>1. g = h /\ i + d[g] = j + d[h]
      BY <2>3 DEF Fewer, McpInv, TokensApart
    <3>2. i \in Nat /\ j \in Nat /\ d[g] \in Nat
      BY SMTT(30), ZenonT(30) DEF McpTypes, Requests, Fewer
    <3>3. QED
      BY <3>1, <3>2
  <2>4. ASSUME NEW g \in Gens, NEW h \in Gens, NEW i \in Responses(stdout'[g]),
               NEW j \in Responses(stdout'[h]), stdout'[g][i].tok = stdout'[h][j].tok
        PROVE  g = h /\ i = j
    <3>1. g = h /\ i + e[g] = j + e[h]
      BY <2>4 DEF Fewer, McpInv, TokensApart
    <3>2. i \in Nat /\ j \in Nat /\ e[g] \in Nat
      BY SMTT(30), ZenonT(30) DEF McpTypes, Responses, Fewer
    <3>3. QED
      BY <3>1, <3>2
  <2>5. \A g, h \in Gens : \A i \in Requests(stdin'[g]), j \in Responses(stdout'[h]) :
          stdin'[g][i].tok # stdout'[h][j].tok
    BY DEF Fewer, McpInv, TokensApart
  <2>6. QED
    BY <2>1, <2>2, <2>3, <2>4, <2>5 DEF TokensApart
<1>2. RunsAsAnswered'
  <2>1. \A t \in Threads : pc'[t] \in Unsent => executed'[req'[t].tok] = 0
    BY DEF Fewer, McpInv, RunsAsAnswered
  <2>2. \A t \in Workers : t \in Threads
    BY DEF Threads
  <2>3. ASSUME NEW g \in Gens, NEW i \in Requests(stdin'[g])
        PROVE  /\ executed'[stdin'[g][i].tok] = 0
               /\ stdin'[g][i].method = "initialize" =>
                    \A t \in Workers : pc'[t] \in Busy => req'[t].tok # stdin'[g][i].tok
    BY <2>2 DEF Fewer, McpInv, RunsAsAnswered
  <2>4. ASSUME NEW g \in Gens, NEW i \in Responses(stdout'[g])
        PROVE  /\ stdout'[g][i].status = "toolerror" => executed'[stdout'[g][i].tok] = 0
               /\ stdout'[g][i].status = "ok" =>
                    \A t \in Workers : pc'[t] \in Busy /\ req'[t].tok = stdout'[g][i].tok
                                       => executed'[req'[t].tok] = 1
    BY <2>2 DEF Fewer, McpInv, RunsAsAnswered
  <2>5. QED
    BY <2>1, <2>3, <2>4 DEF McpInv, RunsAsAnswered, Fewer
<1>3. IdsApart'
  <2>1. \A t \in Threads : pc'[t] \in Identified => req'[t].id < nextId'[req'[t].gen]
    BY DEF Fewer, McpInv, IdsApart
  <2>2. \A t, u \in Threads :
          /\ t # u /\ pc'[t] \in Identified /\ pc'[u] \in Identified /\ req'[t].gen = req'[u].gen
          => req'[t].id # req'[u].id
    BY DEF Fewer, McpInv, IdsApart
  <2>3. \A g \in Gens : /\ \A i \in Requests(stdin'[g]) : stdin'[g][i].id < nextId'[g]
                        /\ \A i \in Responses(stdout'[g]) : stdout'[g][i].id < nextId'[g]
    BY DEF Fewer, McpInv, IdsApart
  <2>4. \A g \in Gens : \A t \in Threads : pc'[t] \in Identified /\ req'[t].gen = g =>
          /\ \A i \in Requests(stdin'[g]) :
               stdin'[g][i].id = req'[t].id => stdin'[g][i].tok = req'[t].tok
          /\ \A i \in Responses(stdout'[g]) :
               stdout'[g][i].id = req'[t].id => stdout'[g][i].tok = req'[t].tok
    BY DEF Fewer, McpInv, IdsApart
  <2>5. QED
    BY <2>1, <2>2, <2>3, <2>4 DEF IdsApart
<1>4. ASSUME \A t \in Workers : \/ outcome'[t] = outcome[t]
                                \/ outcome'[t].kind \notin {"ok", "toolerror"}
      PROVE  TokensIssued' /\ OutcomesSettled'
  <2>1. TokensIssued'
    BY <1>4 DEF Fewer, McpInv, TokensIssued
  <2>2. OutcomesSettled'
    BY <1>4 DEF Fewer, McpInv, OutcomesSettled
  <2>3. QED
    BY <2>1, <2>2
<1>5. QED
  BY <1>1, <1>2, <1>3, <1>4

LEMMA QueueTail ==
  ASSUME NEW S, NEW q \in Seq(S), q # <<>>
  PROVE  /\ Tail(q) \in Seq(S)
         /\ \A i \in Requests(Tail(q)) : i + 1 \in Requests(q) /\ Tail(q)[i] = q[i + 1]
         /\ \A i \in Responses(Tail(q)) : i + 1 \in Responses(q) /\ Tail(q)[i] = q[i + 1]
<1>1. /\ Tail(q) \in Seq(S) /\ Len(Tail(q)) = Len(q) - 1 /\ Len(q) \in Nat \ {0}
      /\ \A i \in 1..Len(Tail(q)) : Tail(q)[i] = q[i + 1]
  OBVIOUS
<1>2. \A i \in 1..Len(Tail(q)) : i + 1 \in 1..Len(q)
  BY <1>1
<1>3. DOMAIN Tail(q) = 1..Len(Tail(q)) /\ DOMAIN q = 1..Len(q)
  BY <1>1
<1>4. QED
  BY <1>1, <1>2, <1>3 DEF Requests, Responses

LEMMA QueueAppend ==
  \A S : \A q \in Seq(S), m \in S :
    /\ Append(q, m) \in Seq(S)
    /\ \A i \in Requests(Append(q, m)) :
         \/ i \in Requests(q) /\ Append(q, m)[i] = q[i]
         \/ i = Len(q) + 1 /\ Append(q, m)[i] = m /\ m.type = "request"
    /\ \A i \in Responses(Append(q, m)) :
         \/ i \in Responses(q) /\ Append(q, m)[i] = q[i]
         \/ i = Len(q) + 1 /\ Append(q, m)[i] = m /\ m.type = "response"
<1> SUFFICES ASSUME NEW S, NEW q \in Seq(S), NEW m \in S
             PROVE  /\ Append(q, m) \in Seq(S)
                    /\ \A i \in Requests(Append(q, m)) :
                         \/ i \in Requests(q) /\ Append(q, m)[i] = q[i]
                         \/ i = Len(q) + 1 /\ Append(q, m)[i] = m /\ m.type = "request"
                    /\ \A i \in Responses(Append(q, m)) :
                         \/ i \in Responses(q) /\ Append(q, m)[i] = q[i]
                         \/ i = Len(q) + 1 /\ Append(q, m)[i] = m /\ m.type = "response"
  BY Zenon
<1>1. /\ Append(q, m) \in Seq(S) /\ DOMAIN Append(q, m) = 1..(Len(q) + 1)
      /\ Append(q, m)[Len(q) + 1] = m /\ \A i \in 1..Len(q) : Append(q, m)[i] = q[i]
  OBVIOUS
<1>2. \A i \in 1..(Len(q) + 1) : i \in 1..Len(q) \/ i = Len(q) + 1
  OBVIOUS
<1>3. DOMAIN q = 1..Len(q)
  OBVIOUS
<1>4. QED
  BY <1>1, <1>2, <1>3 DEF Requests, Responses

LEMMA QueueEmpty == Requests(<<>>) = {} /\ Responses(<<>>) = {}
BY DEF Requests, Responses

\* What the client reads that is a response says how the tool ended.
LEMMA ResponseStatus ==
  ASSUME NEW m \in ToClient, m.type = "response"
  PROVE  m.status \in {"ok", "notready", "toolerror"}
<1>1. m # Progress /\ m # Garbage
  BY DEF Progress, Garbage
<1>2. m \in ResponseMessage
  BY <1>1 DEF ToClient
<1>3. QED
  BY <1>2 DEF ResponseMessage

\* The end of a request: the thread has nothing on its way, and a worker may
\* have an outcome.
RequestEnded(t, kind) ==
  /\ pc' \in [Threads -> Busy \cup {"idle", "handshake", "closing", "reopen"}]
  /\ req' \in [Threads -> [gen : Nat, id : Nat, tok : Nat, abandoned : BOOLEAN]]
  /\ outcome' \in [Workers -> [kind : Kinds, gen : Nat, tok : Nat]]
  /\ \A u \in Workers : pc'[u] \in Busy \cup {"idle"}
  /\ pc'[t] \notin Busy
  /\ \A u \in Threads \ {t} : pc'[u] = pc[u] /\ req'[u] = req[u]
  /\ \A u \in Workers :
       \/ outcome'[u] = outcome[u]
       \/ outcome'[u].kind = "none"
       \/ u = t /\ outcome'[u] = [kind |-> kind, gen |-> req[t].gen, tok |-> req[t].tok]

LEMMA ReturnEnds ==
  ASSUME McpTypes, NEW t \in Threads, NEW kind \in Kinds, Return(t, kind)
  PROVE  RequestEnded(t, kind)
<1>0. Workers \subseteq Threads /\ Owner \notin Workers
  BY McpAssumption DEF Threads
<1>1. CASE t = Owner
  <2>1. /\ pc' = [pc EXCEPT ![t] = AfterInitialize(kind)] /\ UNCHANGED <<outcome, req>>
        /\ AfterInitialize(kind) \in {"handshake", "closing"}
    BY <1>1 DEF Return, Goto, AfterInitialize
  <2>2. pc'[t] \notin Busy
    BY <2>1 DEF McpTypes, Busy, Waiting
  <2>3. QED
    BY <1>0, <1>1, <2>1, <2>2 DEF McpTypes, RequestEnded
<1>2. CASE t # Owner
  <2>1. /\ t \in Workers
        /\ pc' = [pc EXCEPT ![t] = "idle"] /\ req' = [req EXCEPT ![t] = NoReq]
        /\ outcome' = [outcome EXCEPT ![t] = Report(t, kind)]
    BY <1>2 DEF Return, Goto, Threads
  <2>2. NoReq \in [gen : Nat, id : Nat, tok : Nat, abandoned : BOOLEAN]
    BY DEF NoReq
  <2>3. /\ Report(t, kind) \in [kind : Kinds, gen : Nat, tok : Nat]
        /\ \/ Report(t, kind).kind = "none"
           \/ Report(t, kind) = [kind |-> kind, gen |-> req[t].gen, tok |-> req[t].tok]
    BY DEF Report, NoOutcome, McpTypes, Kinds
  <2>4. pc'[t] \notin Busy
    BY <2>1 DEF McpTypes, Busy, Waiting
  <2>5. /\ pc' \in [Threads -> Busy \cup {"idle", "handshake", "closing", "reopen"}]
        /\ req' \in [Threads -> [gen : Nat, id : Nat, tok : Nat, abandoned : BOOLEAN]]
        /\ outcome' \in [Workers -> [kind : Kinds, gen : Nat, tok : Nat]]
    BY <2>1, <2>2, <2>3 DEF McpTypes
  <2>6. /\ \A u \in Workers : pc'[u] \in Busy \cup {"idle"}
        /\ \A u \in Threads \ {t} : pc'[u] = pc[u] /\ req'[u] = req[u]
    BY <1>0, <2>1 DEF McpTypes
  <2>7. \A u \in Workers : outcome'[u] = IF u = t THEN Report(t, kind) ELSE outcome[u]
    BY <2>1 DEF McpTypes
  <2>8. QED
    BY <2>3, <2>4, <2>5, <2>6, <2>7 DEF RequestEnded
<1>3. QED
  BY <1>1, <1>2

\* A queue loses its first message or all of them, or gets one that is neither
\* a request nor an answer.
Reduced(S, q, p) ==
  \/ p = q
  \/ p = <<>>
  \/ q # <<>> /\ p = Tail(q)
  \/ \E m \in S : m.type \notin {"request", "response"} /\ p = Append(q, m)

\* The requests and answers of queue p are those of q from behind the d-th on.
Behind(p, q, d) ==
  /\ d \in Nat
  /\ \A i \in Requests(p) : i + d \in Requests(q) /\ p[i] = q[i + d]
  /\ \A i \in Responses(p) : i + d \in Responses(q) /\ p[i] = q[i + d]

LEMMA ReducedBehind ==
  ASSUME NEW S, NEW q \in Seq(S), NEW p, Reduced(S, q, p)
  PROVE  p \in Seq(S) /\ \E d \in {0, 1} : Behind(p, q, d)
<1>0. \A i : i \in Requests(q) \/ i \in Responses(q) => i \in Nat /\ i + 0 = i
  BY DEF Requests, Responses
<1>1. CASE p = q
  BY <1>0, <1>1 DEF Behind
<1>2. CASE p = <<>>
  BY <1>2, QueueEmpty DEF Behind
<1>3. CASE q # <<>> /\ p = Tail(q)
  <2>1. Tail(q) \in Seq(S) /\ Behind(Tail(q), q, 1)
    BY <1>3, QueueTail, Zenon DEF Behind
  <2>2. QED
    BY <1>3, <2>1
<1>4. ASSUME NEW m \in S, m.type \notin {"request", "response"}, p = Append(q, m)
      PROVE  p \in Seq(S) /\ \E d \in {0, 1} : Behind(p, q, d)
  <2>0. /\ Append(q, m) \in Seq(S)
        /\ \A i \in Requests(Append(q, m)) :
             \/ i \in Requests(q) /\ Append(q, m)[i] = q[i]
             \/ i = Len(q) + 1 /\ Append(q, m)[i] = m /\ m.type = "request"
        /\ \A i \in Responses(Append(q, m)) :
             \/ i \in Responses(q) /\ Append(q, m)[i] = q[i]
             \/ i = Len(q) + 1 /\ Append(q, m)[i] = m /\ m.type = "response"
    BY QueueAppend, Zenon
  <2>1. /\ p \in Seq(S)
        /\ \A i \in Requests(p) : i \in Requests(q) /\ p[i] = q[i]
        /\ \A i \in Responses(p) : i \in Responses(q) /\ p[i] = q[i]
    BY ONLY <1>4, <2>0, Zenon
  <2>2. Behind(p, q, 0)
    BY <1>0, <2>1 DEF Behind
  <2>3. QED
    BY <2>1, <2>2
<1>5. QED
  BY <1>1, <1>2, <1>3, <1>4 DEF Reduced

LEMMA QueuesFewer ==
  ASSUME NEW S, NEW f \in [Gens -> Seq(S)], NEW f2, \A g \in Gens : Reduced(S, f[g], f2[g])
  PROVE  /\ \A g \in Gens : f2[g] \in Seq(S)
         /\ \E d : \A g \in Gens : Behind(f2[g], f[g], d[g])
<1> DEFINE d == [g \in Gens |-> CHOOSE x \in {0, 1} : Behind(f2[g], f[g], x)]
<1>1. ASSUME NEW g \in Gens PROVE f2[g] \in Seq(S) /\ Behind(f2[g], f[g], d[g])
  <2>1. f2[g] \in Seq(S) /\ \E x \in {0, 1} : Behind(f2[g], f[g], x)
    BY ReducedBehind
  <2>2. d[g] = CHOOSE x \in {0, 1} : Behind(f2[g], f[g], x)
    OBVIOUS
  <2> HIDE DEF d
  <2>3. Behind(f2[g], f[g], CHOOSE x \in {0, 1} : Behind(f2[g], f[g], x))
    BY ONLY <2>1, Zenon
  <2>4. QED
    BY ONLY <2>1, <2>2, <2>3, Zenon
<1> HIDE DEF d
<1>2. QED
  BY <1>1

\* The queues of every connection are reduced.
PipesReduced == \A g \in Gens : /\ Reduced(ToServer, stdin[g], stdin'[g])
                           /\ Reduced(ToClient, stdout[g], stdout'[g])

\* No thread has a new request, a new id or sends one.
Onward ==
  \A t \in Threads :
    /\ pc'[t] \in Busy => /\ pc[t] \in Busy
                          /\ req'[t].gen = req[t].gen /\ req'[t].tok = req[t].tok
    /\ pc'[t] \in Unsent => pc[t] \in Unsent
    /\ pc'[t] \in Identified => pc[t] \in Identified /\ req'[t].id = req[t].id

\* A step after which there is less on its way, and its types are right.
LEMMA LessKeeps ==
  ASSUME McpInv, McpTypes', PipesReduced, Onward, UNCHANGED <<executed, nextId, calls>>
  PROVE  /\ TokensApart' /\ RunsAsAnswered' /\ IdsApart'
         /\ (\A t \in Workers : \/ outcome'[t] = outcome[t]
                                \/ outcome'[t].kind \notin {"ok", "toolerror"})
            => McpInv'
         /\ \A g \in Gens : \A i \in Requests(stdin'[g]) :
              \E j \in Requests(stdin[g]) : stdin'[g][i] = stdin[g][j]
         /\ \A g \in Gens : \A i \in Responses(stdout'[g]) :
              \E j \in Responses(stdout[g]) : stdout'[g][i] = stdout[g][j]
<1>1. stdin \in [Gens -> Seq(ToServer)] /\ stdout \in [Gens -> Seq(ToClient)]
  BY DEF McpInv, McpTypes
<1>2. PICK d : \A g \in Gens : Behind(stdin'[g], stdin[g], d[g])
  <2>1. \A g \in Gens : Reduced(ToServer, stdin[g], stdin'[g])
    BY DEF PipesReduced
  <2>2. QED
    BY ONLY <1>1, <2>1, QueuesFewer, Zenon
<1>3. PICK e : \A g \in Gens : Behind(stdout'[g], stdout[g], e[g])
  <2>1. \A g \in Gens : Reduced(ToClient, stdout[g], stdout'[g])
    BY DEF PipesReduced
  <2>2. QED
    BY ONLY <1>1, <2>1, QueuesFewer, Zenon
<1>4. Fewer(d, e)
  BY <1>2, <1>3, Zenon DEF Fewer, Behind, Onward
<1>5. QED
  BY <1>2, <1>3, <1>4, FewerKeeps DEF McpInv, Behind

\* What an outcome says is settled for the request of thread t.
Settled(t, kind) ==
  /\ executed[req[t].tok] = IF kind = "ok" THEN 1 ELSE 0
  /\ \A g \in Gens : \A i \in Requests(stdin[g]) : stdin[g][i].tok # req[t].tok

LEMMA EndedKeeps ==
  ASSUME McpInv, NEW t \in Threads, pc[t] \in Busy, NEW kind \in Kinds, RequestEnded(t, kind), PipesReduced,
         stdout' \in [Gens -> Seq(ToClient)], broken' \in [Gens -> BOOLEAN],
         UNCHANGED <<setup, calls, executed, nextId, proc, closed, stdin>>,
         t \in Workers /\ kind \in {"ok", "toolerror"} => Settled(t, kind)
  PROVE  McpInv'
<1>0. Workers \subseteq Threads
  BY DEF Threads
<1>1. McpTypes'
  BY Zenon DEF McpInv, McpTypes, RequestEnded
<1>5. /\ pc'[t] \notin Busy /\ pc'[t] \notin Unsent /\ pc'[t] \notin Identified
      /\ \A u \in Threads \ {t} : pc'[u] = pc[u] /\ req'[u] = req[u]
  BY BusyParts DEF RequestEnded
<1>6. Onward
  BY <1>5 DEF Onward
<1>7. TokensApart' /\ RunsAsAnswered' /\ IdsApart'
  BY <1>1, <1>6, LessKeeps
<1>2. \A g \in Gens : \A i \in Responses(stdout'[g]) :
        \E j \in Responses(stdout[g]) : stdout'[g][i] = stdout[g][j]
  BY <1>1, <1>6, LessKeeps
<1>8. /\ \A u \in Threads : pc'[u] \in Busy => /\ pc[u] \in Busy /\ u # t
                                              /\ req'[u].gen = req[u].gen /\ req'[u].tok = req[u].tok
      /\ \A u \in Threads : pc'[u] \in Unsent => pc[u] \in Unsent /\ pc'[u] \in Busy
  BY <1>5, BusyParts
<1>9. ASSUME NEW u \in Workers, outcome'[u].kind \in {"ok", "toolerror"}, outcome'[u] # outcome[u]
      PROVE  u = t /\ outcome'[u].tok = req[t].tok /\ outcome'[u].kind = kind /\ Settled(t, kind)
  BY <1>9 DEF RequestEnded
<1>10. TokensIssued'
  <2>1. req[t].tok \in 1..calls
    BY DEF McpInv, TokensIssued
  <2>2. \A u \in Workers : outcome'[u].kind \in {"ok", "toolerror"} => outcome'[u].tok \in 1..calls
    BY <1>9, <2>1 DEF McpInv, TokensIssued
  <2>3. QED
    BY <1>2, <1>8, <2>2, ZenonT(30) DEF McpInv, TokensIssued
<1>11. OutcomesSettled'
  <2> SUFFICES ASSUME NEW u \in Workers, outcome'[u].kind \in {"ok", "toolerror"}
               PROVE  /\ executed[outcome'[u].tok] = IF outcome'[u].kind = "ok" THEN 1 ELSE 0
                      /\ \A v \in Threads : pc'[v] \in Unsent => req'[v].tok # outcome'[u].tok
                      /\ \A g \in Gens : \A i \in Requests(stdin[g]) :
                           stdin[g][i].tok # outcome'[u].tok
    BY DEF OutcomesSettled
  <2>1. CASE outcome'[u] = outcome[u]
    BY <1>8, <2>1 DEF McpInv, OutcomesSettled
  <2>2. CASE outcome'[u] # outcome[u]
    <3>1. \A v \in Threads : pc'[v] \in Unsent => req'[v].tok # req[t].tok
      BY <1>8, SMTT(30), ZenonT(30) DEF McpInv, TokensApart
    <3>2. QED
      BY <1>9, <2>2, <3>1 DEF Settled
  <2>3. QED
    BY <2>1, <2>2
<1>12. QED
  BY <1>1, <1>7, <1>10, <1>11 DEF McpInv

\* _request reads its answer: the id is its own, so the answer is.
LEMMA ResponseSettles ==
  ASSUME McpInv, NEW t \in Workers, pc[t] = "wait", stdout[req[t].gen] # <<>>,
         Head(stdout[req[t].gen]).type = "response",
         Classify(t, Head(stdout[req[t].gen])) \in {"ok", "toolerror"}
  PROVE  Settled(t, Classify(t, Head(stdout[req[t].gen])))
<1> DEFINE g == req[t].gen
           m == stdout[g][1]
<1>1. t \in Threads /\ pc[t] \in Busy /\ pc[t] \in Identified
  BY DEF Threads, Busy, Identified, Waiting
<1>2. g \in Gens
  BY <1>1 DEF McpInv, TokensIssued
<1>3. Head(stdout[g]) = m /\ 1 \in DOMAIN stdout[g]
  BY <1>2 DEF McpInv, McpTypes
<1>4. 1 \in Responses(stdout[g])
  BY <1>3 DEF Responses
<1>5. m.id = req[t].id /\ Classify(t, Head(stdout[g])) = m.status
  BY <1>3 DEF Classify
<1>6. m.tok = req[t].tok
  BY <1>1, <1>2, <1>4, <1>5 DEF McpInv, IdsApart
<1>7. \A h \in Gens : \A i \in Requests(stdin[h]) : stdin[h][i].tok # req[t].tok
  BY <1>2, <1>4, <1>6, SMTT(30), ZenonT(30) DEF McpInv, TokensApart
<1>8. executed[req[t].tok] = IF m.status = "ok" THEN 1 ELSE 0
  BY <1>1, <1>2, <1>3, <1>4, <1>5, <1>6 DEF McpInv, RunsAsAnswered
<1>9. QED
  BY <1>5, <1>7, <1>8 DEF Settled

-----------------------------------------------------------------------------
(* The steps that put something on its way *)

\* A new request has a new token.
LEMMA IssueKeeps ==
  ASSUME McpInv, NEW t \in Threads, NEW g \in Gens, pc[t] \notin Busy, Issue(t, g),
         UNCHANGED <<setup, stdin, stdout, nextId, executed, closed, broken>>,
         outcome' = outcome \/ outcome' = [outcome EXCEPT ![t] = NoOutcome],
         proc' \in [Gens -> {"none", "up", "dead"}]
  PROVE  McpInv'
<1> DEFINE r == [gen |-> g, id |-> 0, tok |-> calls + 1, abandoned |-> FALSE]
<1>1. /\ calls \in Nat /\ setup.calls \in Nat /\ calls < setup.calls /\ calls' = calls + 1
      /\ g \in Nat
  BY DEF McpInv, McpTypes, Issue, Gens
<1>2. PICK p \in {"lock", "id"} : pc' = [pc EXCEPT ![t] = p]
  BY Zenon DEF Issue, Goto
<1>3. req' = [req EXCEPT ![t] = r]
  BY DEF Issue
<1>4. r \in [gen : Nat, id : Nat, tok : Nat, abandoned : BOOLEAN]
  BY <1>1
<1>5. /\ \A u \in Threads : pc'[u] = IF u = t THEN p ELSE pc[u]
      /\ \A u \in Threads : req'[u] = IF u = t THEN r ELSE req[u]
      /\ p \in Busy /\ p \in Unsent /\ p \notin Identified
      /\ r.gen = g /\ r.tok = calls + 1
  BY <1>2, <1>3 DEF McpInv, McpTypes, Busy, Unsent, Identified, Waiting
<1>6. McpTypes'
  <2>1. /\ pc' \in [Threads -> Busy \cup {"idle", "handshake", "closing", "reopen"}]
        /\ req' \in [Threads -> [gen : Nat, id : Nat, tok : Nat, abandoned : BOOLEAN]]
    BY <1>2, <1>3, <1>4, <1>5 DEF McpInv, McpTypes
  <2>2. outcome' \in [Workers -> [kind : Kinds, gen : Nat, tok : Nat]]
    <3>1. NoOutcome \in [kind : Kinds, gen : Nat, tok : Nat]
      BY DEF NoOutcome, Kinds
    <3>2. QED
      BY <3>1, Zenon DEF McpInv, McpTypes
  <2>3. \A u \in Workers : pc'[u] \in Busy \cup {"idle"}
    BY <1>5, Zenon DEF McpInv, McpTypes, Threads
  <2>4. calls' \in 0..setup.calls
    BY <1>1
  <2>5. QED
    BY <2>1, <2>2, <2>3, <2>4, SMTT(30), ZenonT(30) DEF McpInv, McpTypes
<1> HIDE DEF r
<1>7. \A u \in Workers : outcome'[u].kind \in {"ok", "toolerror"} => outcome'[u] = outcome[u]
  BY DEF McpInv, McpTypes, NoOutcome
<1>8. /\ \A k \in 1..calls : k \in 1..calls' /\ k # calls + 1
      /\ calls + 1 \in 1..calls' /\ calls + 1 \in DOMAIN executed
  BY <1>1 DEF McpInv, McpTypes
<1>9. TokensIssued'
  BY <1>5, <1>7, <1>8, ZenonT(30) DEF McpInv, TokensIssued
<1>10. TokensApart'
  <2>1. \A u, v \in Threads : u # v /\ pc'[u] \in Busy /\ pc'[v] \in Busy => req'[u].tok # req'[v].tok
    BY <1>5, <1>8, SMTT(30), ZenonT(30) DEF McpInv, TokensIssued, TokensApart
  <2>2. \A u \in Threads, h \in Gens : pc'[u] \in Unsent =>
          /\ \A i \in Requests(stdin[h]) : stdin[h][i].tok # req'[u].tok
          /\ \A i \in Responses(stdout[h]) : stdout[h][i].tok # req'[u].tok
    BY <1>5, <1>8 DEF McpInv, TokensIssued, TokensApart
  <2>3. QED
    BY <2>1, <2>2 DEF McpInv, TokensApart
<1>11. RunsAsAnswered'
  <2>1. executed[calls + 1] = 0 /\ \A k \in DOMAIN executed : k > calls + 1 => executed[k] = 0
    BY <1>1, <1>8, SMTT(30), ZenonT(30) DEF McpInv, McpTypes, RunsAsAnswered
  <2>2. \A u \in Threads : pc'[u] \in Unsent => executed[req'[u].tok] = 0
    BY <1>5, <2>1, SMTT(30), ZenonT(30) DEF McpInv, RunsAsAnswered
  <2>3. \A h \in Gens : \A i \in Requests(stdin[h]) :
          /\ executed[stdin[h][i].tok] = 0
          /\ stdin[h][i].method = "initialize" =>
               \A u \in Workers : pc'[u] \in Busy => req'[u].tok # stdin[h][i].tok
    BY <1>5, <1>8, SMTT(30), ZenonT(30) DEF McpInv, RunsAsAnswered, TokensIssued, Threads
  <2>4. \A h \in Gens : \A i \in Responses(stdout[h]) :
          /\ stdout[h][i].status = "toolerror" => executed[stdout[h][i].tok] = 0
          /\ stdout[h][i].status = "ok" =>
               \A u \in Workers : pc'[u] \in Busy /\ req'[u].tok = stdout[h][i].tok
                                  => executed[req'[u].tok] = 1
    BY <1>5, <1>8, SMTT(30), ZenonT(30) DEF McpInv, RunsAsAnswered, TokensIssued, Threads
  <2>5. QED
    BY <1>1, <2>1, <2>2, <2>3, <2>4 DEF RunsAsAnswered
<1>12. OutcomesSettled'
  BY <1>5, <1>7, <1>8, SMTT(30), ZenonT(30) DEF McpInv, TokensIssued, OutcomesSettled
<1>13. IdsApart'
  BY <1>5, SMTT(30) DEF McpInv, IdsApart
<1>14. QED
  BY <1>6, <1>9, <1>10, <1>11, <1>12, <1>13 DEF McpInv

\* RequestIdGenerator gives an id that no message of the connection has.
LEMMA TakeIdKeeps ==
  ASSUME McpInv, NEW t \in Threads, TakeId(t)
  PROVE  McpInv'
<1> DEFINE g == req[t].gen
<1>1. pc[t] \in Busy /\ pc[t] \in Unsent /\ pc[t] \notin Identified
  BY DEF TakeId, Busy, Unsent, Identified, Waiting
<1>2. g \in Gens /\ nextId[g] \in Nat
  BY <1>1 DEF McpInv, McpTypes, TokensIssued
<1>3. /\ pc' = [pc EXCEPT ![t] = "send"] /\ req' = [req EXCEPT ![t].id = nextId[g]]
      /\ nextId' = [nextId EXCEPT ![g] = nextId[g] + 1]
      /\ UNCHANGED <<setup, stdin, stdout, proc, closed, broken, executed, outcome, calls>>
  BY DEF TakeId, NextId, Goto, transport, server
<1>4. McpTypes'
  <2>1. nextId' \in [Gens -> Nat]
    BY <1>2, <1>3 DEF McpInv, McpTypes
  <2>2. req' \in [Threads -> [gen : Nat, id : Nat, tok : Nat, abandoned : BOOLEAN]]
    <3>1. req[t] \in [gen : Nat, id : Nat, tok : Nat, abandoned : BOOLEAN]
      BY DEF McpInv, McpTypes
    <3>2. [req[t] EXCEPT !.id = nextId[g]] \in [gen : Nat, id : Nat, tok : Nat, abandoned : BOOLEAN]
      BY <1>2, <3>1
    <3>3. QED
      BY <1>3, <3>2 DEF McpInv, McpTypes
  <2>3. /\ pc' \in [Threads -> Busy \cup {"idle", "handshake", "closing", "reopen"}]
        /\ \A u \in Workers : pc'[u] \in Busy \cup {"idle"}
    BY <1>3 DEF McpInv, McpTypes, Busy, Waiting, Threads
  <2>4. QED
    BY <1>3, <2>1, <2>2, <2>3, Zenon DEF McpInv, McpTypes
<1>5. /\ \A u \in Threads : pc'[u] = IF u = t THEN "send" ELSE pc[u]
      /\ \A u \in Threads : /\ req'[u].gen = req[u].gen /\ req'[u].tok = req[u].tok
                            /\ req'[u].id = IF u = t THEN nextId[g] ELSE req[u].id
      /\ \A h \in Gens : nextId'[h] = IF h = g THEN nextId[g] + 1 ELSE nextId[h]
      /\ Workers \subseteq Threads
  BY <1>3 DEF McpInv, McpTypes, Threads
<1>6. "send" \in Busy /\ "send" \in Unsent /\ "send" \in Identified
  BY DEF Busy, Unsent, Identified, Waiting
<1>7. \A u \in Threads : /\ pc'[u] \in Busy <=> pc[u] \in Busy
                         /\ pc'[u] \in Unsent <=> pc[u] \in Unsent
                         /\ u # t => (pc'[u] \in Identified <=> pc[u] \in Identified)
  BY <1>1, <1>5, <1>6
<1>8. TokensIssued'
  BY <1>3, <1>5, <1>7 DEF McpInv, TokensIssued
<1>9. TokensApart'
  BY <1>3, <1>5, <1>7 DEF McpInv, TokensApart
<1>10. RunsAsAnswered'
  BY <1>3, <1>5, <1>7 DEF McpInv, RunsAsAnswered
<1>11. OutcomesSettled'
  BY <1>3, <1>5, <1>7 DEF McpInv, OutcomesSettled
<1>12. IdsApart'
  <2>1. \A h \in Gens : nextId[h] \in Nat /\ nextId[h] <= nextId'[h]
    <3>1. \A h \in Gens : nextId[h] \in Nat
      BY DEF McpInv, McpTypes
    <3>2. QED
      BY <1>5, <3>1
  <2>2. /\ \A u \in Threads : pc[u] \in Identified =>
             /\ req[u].gen \in Gens /\ req[u].id \in Nat /\ req[u].id < nextId[req[u].gen]
      /\ \A h \in Gens : /\ \A i \in Requests(stdin[h]) :
                              stdin[h][i].id \in Nat /\ stdin[h][i].id < nextId[h]
                         /\ \A i \in Responses(stdout[h]) :
                              stdout[h][i].id \in Nat /\ stdout[h][i].id < nextId[h]
    <3>1. \A u \in Threads : pc[u] \in Identified =>
             /\ req[u].gen \in Gens /\ req[u].id \in Nat /\ req[u].id < nextId[req[u].gen]
      BY BusyParts DEF McpInv, McpTypes, TokensIssued, IdsApart
    <3>2. ASSUME NEW h \in Gens PROVE
            /\ \A i \in Requests(stdin[h]) : stdin[h][i].id \in Nat
            /\ \A i \in Responses(stdout[h]) : stdout[h][i].id \in Nat
      <4>1. \A i \in DOMAIN stdin[h] : stdin[h][i] \in RequestMessage \cup {Initialized}
        BY DEF McpInv, McpTypes, ToServer
      <4>2. \A i \in DOMAIN stdout[h] : stdout[h][i] \in ResponseMessage \cup {Progress, Garbage}
        BY DEF McpInv, McpTypes, ToClient
      <4>3. QED
        BY <4>1, <4>2 DEF Requests, Responses, RequestMessage, ResponseMessage, Initialized,
                          Progress, Garbage
    <3>3. QED
      BY <3>1, <3>2, SMTT(30), ZenonT(30) DEF McpInv, IdsApart
  <2>3. \A u \in Threads : pc'[u] \in Identified => req'[u].id < nextId'[req'[u].gen]
    <3>1. ASSUME NEW u \in Threads, pc'[u] \in Identified, u # t
          PROVE  req'[u].id < nextId'[req'[u].gen]
      <4>1. req[u].gen \in Gens /\ req[u].id \in Nat /\ req[u].id < nextId[req[u].gen]
        BY <1>7, <2>2, <3>1, SMTT(30), ZenonT(30)
      <4>2. req'[u].id = req[u].id /\ req'[u].gen = req[u].gen
        BY <1>5, <3>1
      <4>3. /\ nextId[req[u].gen] \in Nat /\ nextId'[req[u].gen] \in Nat
            /\ nextId[req[u].gen] <= nextId'[req[u].gen]
        BY <1>4, <2>1, <4>1, Zenon DEF McpTypes
      <4>4. QED
        BY <4>1, <4>2, <4>3
    <3>2. req'[t].id < nextId'[req'[t].gen]
      BY <1>2, <1>5
    <3>3. QED
      BY <3>1, <3>2
  <2>4. ASSUME NEW u \in Threads, NEW v \in Threads, u # v, pc'[u] \in Identified,
               pc'[v] \in Identified, req'[u].gen = req'[v].gen
        PROVE  req'[u].id # req'[v].id
    <3>1. CASE u # t /\ v # t
      BY <1>5, <1>7, <2>4, <3>1, SMTT(30), ZenonT(30) DEF McpInv, IdsApart
    <3>2. CASE u = t
      <4>1. req[v].id < nextId[g] /\ req[v].id \in Nat /\ req'[v].id = req[v].id
        BY <1>5, <1>7, <2>2, <2>4, <3>2, ZenonT(30)
      <4>2. req'[u].id = nextId[g]
        BY <1>5, <3>2, Zenon
      <4>3. QED
        BY <1>2, <4>1, <4>2
    <3>3. CASE v = t
      <4>1. req[u].id < nextId[g] /\ req[u].id \in Nat /\ req'[u].id = req[u].id
        BY <1>5, <1>7, <2>2, <2>4, <3>3, ZenonT(30)
      <4>2. req'[v].id = nextId[g]
        BY <1>5, <3>3
      <4>3. QED
        BY <1>2, <4>1, <4>2
    <3>4. QED
      BY <3>1, <3>2, <3>3, SMTT(30), ZenonT(30)
  <2>5. ASSUME NEW h \in Gens
        PROVE  /\ \A i \in Requests(stdin[h]) : stdin[h][i].id < nextId'[h]
               /\ \A i \in Responses(stdout[h]) : stdout[h][i].id < nextId'[h]
    <3>1. nextId[h] \in Nat /\ nextId'[h] \in Nat /\ nextId[h] <= nextId'[h]
      BY <1>4, <2>1 DEF McpTypes
    <3>2. QED
      BY <2>2, <3>1
  <2>6. ASSUME NEW h \in Gens, NEW u \in Threads, pc'[u] \in Identified, req'[u].gen = h
        PROVE  /\ \A i \in Requests(stdin[h]) :
                    stdin[h][i].id = req'[u].id => stdin[h][i].tok = req'[u].tok
               /\ \A i \in Responses(stdout[h]) :
                    stdout[h][i].id = req'[u].id => stdout[h][i].tok = req'[u].tok
    <3>1. CASE u = t
      <4>1. h = g /\ req'[u].id = nextId[g]
        BY <1>5, <2>6, <3>1
      <4>2. /\ \A i \in Requests(stdin[h]) : stdin[h][i].id # nextId[g]
            /\ \A i \in Responses(stdout[h]) : stdout[h][i].id # nextId[g]
        BY <1>2, <2>2, <4>1, SMTT(30), ZenonT(30)
      <4>3. QED
        BY <4>1, <4>2
    <3>2. CASE u # t
      BY <1>5, <1>7, <2>6, <3>2 DEF McpInv, IdsApart
    <3>3. QED
      BY <3>1, <3>2
  <2>7. QED
    BY <1>3, <2>3, <2>4, <2>5, <2>6 DEF IdsApart
<1>13. QED
  BY <1>4, <1>8, <1>9, <1>10, <1>11, <1>12, SMTT(30), ZenonT(30) DEF McpInv

\* The request goes into the pipe: its token and id are there now.
LEMMA WrittenKeeps ==
  ASSUME McpInv, NEW t \in Threads, pc[t] = "send", Written(t),
         UNCHANGED <<setup, stdout, proc, closed, broken, executed, nextId, calls>>
  PROVE  McpInv'
<1> DEFINE g == req[t].gen
           m == Request(t)
<1>1. pc[t] \in Busy /\ pc[t] \in Unsent /\ pc[t] \in Identified
  BY DEF Busy, Unsent, Identified, Waiting
<1>2. g \in Gens /\ stdin[g] \in Seq(ToServer) /\ req[t].tok \in 1..calls /\ executed[req[t].tok] = 0
  BY <1>1, Zenon DEF McpInv, McpTypes, TokensIssued, RunsAsAnswered
<1>3. /\ m \in ToServer /\ m.type = "request" /\ m.id = req[t].id /\ m.tok = req[t].tok
      /\ m.method = "initialize" => t = Owner
  <2>1. req[t].id \in Nat /\ req[t].tok \in Nat
    BY DEF McpInv, McpTypes
  <2>2. QED
    BY <2>1, Zenon DEF Request, ToServer, RequestMessage
<1>4. /\ pc' = [pc EXCEPT ![t] = "wait"] /\ stdin' = [stdin EXCEPT ![g] = Append(stdin[g], m)]
      /\ UNCHANGED <<outcome, req>>
  BY DEF Written, Goto
<1> HIDE DEF m
<1>5. /\ Append(stdin[g], m) \in Seq(ToServer)
      /\ \A i \in Requests(Append(stdin[g], m)) :
           \/ i \in Requests(stdin[g]) /\ Append(stdin[g], m)[i] = stdin[g][i]
           \/ i = Len(stdin[g]) + 1 /\ Append(stdin[g], m)[i] = m
  <2> HIDE DEF g
  <2>1. Append(stdin[g], m) \in Seq(ToServer)
    BY ONLY <1>2, <1>3, SMTT(30), ZenonT(30)
  <2>2. stdin[g] \in Seq(ToServer) /\ m \in ToServer
    BY ONLY <1>2, <1>3, SMTT(30), ZenonT(30)
  <2>3. \A i \in Requests(Append(stdin[g], m)) :
          \/ i \in Requests(stdin[g]) /\ Append(stdin[g], m)[i] = stdin[g][i]
          \/ i = Len(stdin[g]) + 1 /\ Append(stdin[g], m)[i] = m /\ m.type = "request"
    BY ONLY <2>2, QueueAppend, Zenon
  <2>4. QED
    BY ONLY <2>1, <2>3, Zenon
<1>6. McpTypes'
  <2>1. stdin' \in [Gens -> Seq(ToServer)]
    BY <1>2, <1>4, <1>5 DEF McpInv, McpTypes
  <2>2. /\ pc' \in [Threads -> Busy \cup {"idle", "handshake", "closing", "reopen"}]
        /\ \A u \in Workers : pc'[u] \in Busy \cup {"idle"}
    BY <1>4 DEF McpInv, McpTypes, Busy, Waiting, Threads
  <2>3. QED
    BY <1>4, <2>1, <2>2, ZenonT(30) DEF McpInv, McpTypes
<1>7. \A h \in Gens : \A i \in Requests(stdin'[h]) :
        \/ i \in Requests(stdin[h]) /\ stdin'[h][i] = stdin[h][i]
        \/ h = g /\ i = Len(stdin[g]) + 1 /\ stdin'[h][i] = m
  <2>1. \A h \in Gens : stdin'[h] = IF h = g THEN Append(stdin[g], m) ELSE stdin[h]
    BY <1>4 DEF McpInv, McpTypes
  <2>2. QED
    BY <1>5, <2>1, Zenon
<1>8. /\ \A u \in Threads : pc'[u] = IF u = t THEN "wait" ELSE pc[u]
      /\ "wait" \in Busy /\ "wait" \notin Unsent /\ "wait" \in Identified
      /\ Workers \subseteq Threads
  BY <1>4 DEF McpInv, McpTypes, Busy, Unsent, Identified, Waiting, Threads
<1>9. \A u \in Threads : /\ pc'[u] \in Busy <=> pc[u] \in Busy
                         /\ pc'[u] \in Unsent => pc[u] \in Unsent /\ u # t
                         /\ pc'[u] \in Identified <=> pc[u] \in Identified
  BY <1>1, <1>8
<1>16. /\ stdout' = stdout /\ executed' = executed /\ nextId' = nextId /\ calls' = calls
       /\ outcome' = outcome /\ req' = req
  BY <1>4, Zenon
<1>17. /\ McpTypes /\ TokensIssued /\ TokensApart /\ RunsAsAnswered /\ OutcomesSettled /\ IdsApart
       /\ g \in Gens /\ t \in Threads
  BY <1>2, ZenonT(30) DEF McpInv
<1> HIDE DEF g
<1>10. TokensIssued'
  <2>1. \A h \in Gens : \A i \in Requests(stdin'[h]) : stdin'[h][i].tok \in 1..calls
    BY <1>2, <1>3, <1>7, ZenonT(30) DEF McpInv, TokensIssued
  <2>2. QED
    BY ONLY <1>9, <1>16, <2>1, <1>17, SMTT(30), ZenonT(30) DEF TokensIssued
<1>11. TokensApart'
  <2>1. \A u, v \in Threads : u # v /\ pc'[u] \in Busy /\ pc'[v] \in Busy => req[u].tok # req[v].tok
    BY <1>9, ZenonT(30) DEF McpInv, TokensApart
  <2>2. \A u \in Threads, h \in Gens : pc'[u] \in Unsent =>
          /\ \A i \in Requests(stdin'[h]) : stdin'[h][i].tok # req[u].tok
          /\ \A i \in Responses(stdout[h]) : stdout[h][i].tok # req[u].tok
    BY ONLY <1>1, <1>3, <1>7, <1>9, BusyParts, <1>17, SMTT(30), ZenonT(30) DEF TokensApart
  <2>3. \A h, k \in Gens : \A i \in Requests(stdin'[h]), j \in Requests(stdin'[k]) :
          stdin'[h][i].tok = stdin'[k][j].tok => h = k /\ i = j
    BY ONLY <1>1, <1>3, <1>7, <1>17, SMTT(30), ZenonT(30) DEF TokensApart
  <2>4. \A h, k \in Gens : \A i \in Requests(stdin'[h]), j \in Responses(stdout[k]) :
          stdin'[h][i].tok # stdout[k][j].tok
    BY ONLY <1>1, <1>3, <1>7, <1>17, SMTT(30), ZenonT(30) DEF TokensApart
  <2>5. \A h, k \in Gens : \A i \in Responses(stdout[h]), j \in Responses(stdout[k]) :
          stdout[h][i].tok = stdout[k][j].tok => h = k /\ i = j
    BY ONLY <1>17, Zenon DEF TokensApart
  <2>6. req' = req /\ stdout' = stdout
    BY ONLY <1>16, Zenon
  <2>7. QED
    BY ONLY <2>1, <2>2, <2>3, <2>4, <2>5, <2>6, SMTT(30), ZenonT(30) DEF TokensApart
<1>12. RunsAsAnswered'
  <2>1. \A h \in Gens : \A i \in Requests(stdin'[h]) : executed[stdin'[h][i].tok] = 0
    BY ONLY <1>2, <1>3, <1>7, <1>17, SMTT(30), ZenonT(30) DEF RunsAsAnswered
  <2>2. \A u \in Workers : pc[u] \in Busy /\ t = Owner => req[u].tok # req[t].tok
    BY <1>1, <1>8, McpAssumption, ZenonT(30) DEF McpInv, TokensApart
  <2>3. \A h \in Gens : \A i \in Requests(stdin'[h]) : stdin'[h][i].method = "initialize" =>
          \A u \in Workers : pc'[u] \in Busy => req[u].tok # stdin'[h][i].tok
    BY ONLY <1>3, <1>7, <1>8, <1>9, <2>2, <1>17, SMTT(30), ZenonT(30) DEF RunsAsAnswered
  <2>4. \A u \in Threads : pc'[u] \in Unsent => executed[req[u].tok] = 0
    BY <1>9, Zenon DEF McpInv, RunsAsAnswered
  <2>5. \A h \in Gens : \A i \in Responses(stdout[h]) :
          /\ stdout[h][i].status = "toolerror" => executed[stdout[h][i].tok] = 0
          /\ stdout[h][i].status = "ok" =>
               \A u \in Workers : pc'[u] \in Busy /\ req[u].tok = stdout[h][i].tok
                                  => executed[req[u].tok] = 1
    BY <1>8, <1>9, ZenonT(30) DEF McpInv, RunsAsAnswered
  <2>6. QED
    BY ONLY <1>16, <2>1, <2>3, <2>4, <2>5, <1>17, ZenonT(30) DEF RunsAsAnswered
<1>13. OutcomesSettled'
  <2>1. \A u \in Workers : outcome[u].kind \in {"ok", "toolerror"} =>
          \A h \in Gens : \A i \in Requests(stdin'[h]) : stdin'[h][i].tok # outcome[u].tok
    BY ONLY <1>1, <1>3, <1>7, <1>17, SMTT(30), ZenonT(30) DEF OutcomesSettled
  <2>2. QED
    BY ONLY <1>9, <1>16, <2>1, <1>17, SMTT(30), ZenonT(30) DEF OutcomesSettled
<1>14. IdsApart'
  <2>1. m.id < nextId[g]
    BY <1>1, <1>3, ZenonT(30) DEF McpInv, IdsApart, g
  <2>2. \A h \in Gens : /\ \A i \in Requests(stdin'[h]) : stdin'[h][i].id < nextId[h]
    BY ONLY <1>7, <2>1, <1>17, SMTT(30), ZenonT(30) DEF IdsApart
  <2>3. \A u \in Threads : pc[u] \in Identified /\ req[u].gen = g /\ m.id = req[u].id
                           => m.tok = req[u].tok
    BY <1>1, <1>3, ZenonT(30) DEF McpInv, IdsApart, g
  <2>4. \A h \in Gens : \A u \in Threads : pc'[u] \in Identified /\ req[u].gen = h =>
          \A i \in Requests(stdin'[h]) : stdin'[h][i].id = req[u].id => stdin'[h][i].tok = req[u].tok
    BY ONLY <1>7, <1>9, <2>3, <1>17, SMTT(30), ZenonT(30) DEF IdsApart
  <2>5. QED
    BY ONLY <1>9, <1>16, <2>2, <2>4, <1>17, SMTT(30), ZenonT(30) DEF IdsApart
<1>15. QED
  BY <1>6, <1>10, <1>11, <1>12, <1>13, <1>14 DEF McpInv

\* The server answers a request: what was in one pipe is in the other, and the
\* tool has run if the answer says so.
Moved(g, m, r) ==
  /\ 1 \in Requests(stdin[g]) /\ stdin[g][1] = m
  /\ \A h \in Gens : \A i \in Requests(stdin'[h]) : \E j \in Requests(stdin[h]) :
       /\ stdin'[h][i] = stdin[h][j] /\ i \in Nat
       /\ IF h = g THEN j = i + 1 /\ j # 1 ELSE j = i
  /\ \A h \in Gens : \A i \in Responses(stdout'[h]) :
        \/ i \in Responses(stdout[h]) /\ stdout'[h][i] = stdout[h][i]
        \/ h = g /\ i = Len(stdout[g]) + 1 /\ stdout'[h][i] = r

LEMMA AnswerMoves ==
  ASSUME McpInv, NEW g \in Gens, stdin[g] # <<>>, NEW m, m = Head(stdin[g]), m.type = "request",
         NEW status \in {"ok", "notready", "toolerror"},
         stdin' = [stdin EXCEPT ![g] = Tail(@)], Reply(g, m, status)
  PROVE  /\ Moved(g, m, Response(m, status))
         /\ stdin' \in [Gens -> Seq(ToServer)] /\ stdout' \in [Gens -> Seq(ToClient)]
         /\ m.method \in {"initialize", "call"}
<1> DEFINE R == Response(m, status)
<1>1. /\ stdin \in [Gens -> Seq(ToServer)] /\ stdout \in [Gens -> Seq(ToClient)]
      /\ stdin[g] \in Seq(ToServer) /\ stdout[g] \in Seq(ToClient)
  BY DEF McpInv, McpTypes
<1>2. /\ 1 \in Requests(stdin[g]) /\ stdin[g][1] = m /\ m \in ToServer
  BY <1>1 DEF Requests
<1>3. m.id \in Nat /\ m.tok \in Nat /\ m.method \in {"initialize", "call"}
  BY <1>2 DEF ToServer, RequestMessage, Initialized
<1>4. R \in ToClient
  BY <1>3 DEF Response, ToClient, ResponseMessage
<1>5. stdout' = [stdout EXCEPT ![g] = Append(stdout[g], R)]
  BY DEF Reply
<1> HIDE DEF R
<1>6. \A h \in Gens : \A i \in Requests(stdin'[h]) : \E j \in Requests(stdin[h]) :
        /\ stdin'[h][i] = stdin[h][j] /\ i \in Nat
        /\ IF h = g THEN j = i + 1 /\ j # 1 ELSE j = i
  <2>1. \A h \in Gens : stdin'[h] = IF h = g THEN Tail(stdin[g]) ELSE stdin[h]
    BY <1>1
  <2>2. \A i \in Requests(Tail(stdin[g])) :
          i + 1 \in Requests(stdin[g]) /\ Tail(stdin[g])[i] = stdin[g][i + 1]
    BY <1>1, QueueTail, Zenon
  <2>3. \A i \in Requests(Tail(stdin[g])) : i \in Nat /\ i + 1 # 1
    BY <1>1 DEF Requests
  <2>4. \A h \in Gens : \A i \in Requests(stdin[h]) : i \in Nat
    BY <1>1 DEF Requests
  <2>5. QED
    BY ONLY <2>1, <2>2, <2>3, <2>4, Zenon
<1>7. \A h \in Gens : \A i \in Responses(stdout'[h]) :
        \/ i \in Responses(stdout[h]) /\ stdout'[h][i] = stdout[h][i]
        \/ h = g /\ i = Len(stdout[g]) + 1 /\ stdout'[h][i] = R
  <2>1. \A h \in Gens : stdout'[h] = IF h = g THEN Append(stdout[g], R) ELSE stdout[h]
    BY <1>1, <1>5
  <2>2. \A i \in Responses(Append(stdout[g], R)) :
          \/ i \in Responses(stdout[g]) /\ Append(stdout[g], R)[i] = stdout[g][i]
          \/ i = Len(stdout[g]) + 1 /\ Append(stdout[g], R)[i] = R
    <3>1. \A i \in Responses(Append(stdout[g], R)) :
            \/ i \in Responses(stdout[g]) /\ Append(stdout[g], R)[i] = stdout[g][i]
            \/ i = Len(stdout[g]) + 1 /\ Append(stdout[g], R)[i] = R /\ R.type = "response"
      BY ONLY <1>1, <1>4, QueueAppend, Zenon
    <3>2. QED
      BY ONLY <3>1, Zenon
  <2>3. QED
    BY ONLY <2>1, <2>2, Zenon
<1>8. stdin' \in [Gens -> Seq(ToServer)] /\ stdout' \in [Gens -> Seq(ToClient)]
  <2>1. Tail(stdin[g]) \in Seq(ToServer) /\ Append(stdout[g], R) \in Seq(ToClient)
    BY <1>1, <1>4
  <2>2. QED
    BY <1>1, <1>5, <2>1
<1>9. QED
  BY ONLY <1>2, <1>3, <1>6, <1>7, <1>8, Zenon DEF Moved, R

LEMMA AnsweredKeeps ==
  ASSUME McpInv, McpTypes', NEW g \in Gens, NEW m, m.type = "request",
         m.method \in {"initialize", "call"},
         NEW status, Moved(g, m, Response(m, status)),
         NEW n \in {0, 1}, executed' = [executed EXCEPT ![m.tok] = @ + n],
         m.method = "call" /\ status = "ok" => n = 1, status = "toolerror" => n = 0,
         UNCHANGED <<setup, nextId, calls, pc, req, outcome>>
  PROVE  McpInv'
<1> DEFINE R == Response(m, status)
<1>1. /\ McpTypes /\ TokensIssued /\ TokensApart /\ RunsAsAnswered /\ OutcomesSettled /\ IdsApart
      /\ g \in Gens /\ n \in {0, 1}
  BY Zenon DEF McpInv
<1>2. 1 \in Requests(stdin[g]) /\ stdin[g][1] = m
  BY ZenonT(30) DEF Moved
<1>3. /\ m.tok \in 1..calls /\ m.tok \in 1..setup.calls /\ executed[m.tok] = 0 /\ m.id < nextId[g]
  BY ONLY <1>2, <1>1, SMTT(30), ZenonT(30) DEF McpTypes, TokensIssued, RunsAsAnswered, IdsApart
<1>5. R.type = "response" /\ R.id = m.id /\ R.tok = m.tok /\ R.status = status
  BY DEF Response
<1>6. /\ calls' = calls /\ nextId' = nextId /\ pc' = pc /\ req' = req /\ outcome' = outcome
  OBVIOUS
<1>7. \A k \in 1..setup.calls : executed'[k] = IF k = m.tok THEN n ELSE executed[k]
  <2>1. executed' = [executed EXCEPT ![m.tok] = @ + n]
    OBVIOUS
  <2>2. QED
    BY ONLY <1>1, <1>3, <2>1, SMTT(30), ZenonT(30) DEF McpTypes
<1>4. DOMAIN executed' = 1..setup.calls /\ DOMAIN executed = 1..setup.calls
  <2>1. executed' = [executed EXCEPT ![m.tok] = @ + n]
    OBVIOUS
  <2>2. QED
    BY ONLY <1>1, <2>1, SMTT(30), ZenonT(30) DEF McpTypes
<1>9. \A h \in Gens : \A i \in Responses(stdout'[h]) :
        \/ i \in Responses(stdout[h]) /\ stdout'[h][i] = stdout[h][i]
        \/ h = g /\ i = Len(stdout[g]) + 1 /\ stdout'[h][i] = R
  BY Zenon DEF Moved
<1> HIDE DEF R
<1>8. \A h \in Gens : \A i \in Requests(stdin'[h]) : \E j \in Requests(stdin[h]) :
        /\ stdin'[h][i] = stdin[h][j] /\ i \in Nat
        /\ IF h = g THEN j = i + 1 /\ j # 1 ELSE j = i
  BY ZenonT(30) DEF Moved
<1>10. \A h \in Gens : \A i \in Requests(stdin'[h]) :
         /\ \E j \in Requests(stdin[h]) : stdin'[h][i] = stdin[h][j]
         /\ stdin'[h][i].tok # m.tok
  BY ONLY <1>2, <1>8, <1>1, SMTT(30), ZenonT(30) DEF TokensApart
<1>12. TokensIssued'
  <2>1. \A h \in Gens : \A i \in Requests(stdin'[h]) : stdin'[h][i].tok \in 1..calls
    BY <1>10, ZenonT(30) DEF McpInv, TokensIssued
  <2>2. \A h \in Gens : \A i \in Responses(stdout'[h]) : stdout'[h][i].tok \in 1..calls
    BY ONLY <1>3, <1>5, <1>9, <1>1, SMTT(30), ZenonT(30) DEF TokensIssued
  <2>3. QED
    BY <1>6, <2>1, <2>2, Zenon DEF McpInv, TokensIssued
<1>13. TokensApart'
  <2>1. \A t \in Threads, h \in Gens : pc[t] \in Unsent =>
          /\ \A i \in Requests(stdin'[h]) : stdin'[h][i].tok # req[t].tok
          /\ \A i \in Responses(stdout'[h]) : stdout'[h][i].tok # req[t].tok
    BY ONLY <1>2, <1>5, <1>9, <1>10, <1>1, SMTT(30), ZenonT(30) DEF TokensApart
  <2>2. ASSUME NEW h \in Gens, NEW k \in Gens, NEW i \in Requests(stdin'[h]),
               NEW j \in Requests(stdin'[k]), stdin'[h][i].tok = stdin'[k][j].tok
        PROVE  h = k /\ i = j
    <3>1. PICK a \in Requests(stdin[h]) : /\ stdin'[h][i] = stdin[h][a] /\ i \in Nat
                                          /\ IF h = g THEN a = i + 1 ELSE a = i
      BY <1>8, ZenonT(30)
    <3>2. PICK b \in Requests(stdin[k]) : /\ stdin'[k][j] = stdin[k][b] /\ j \in Nat
                                          /\ IF k = g THEN b = j + 1 ELSE b = j
      BY <1>8, SMTT(30), ZenonT(30)
    <3>3. h = k /\ a = b
      BY <1>1, <2>2, <3>1, <3>2, SMTT(30), ZenonT(30) DEF TokensApart
    <3>4. QED
      BY ONLY <3>1, <3>2, <3>3, SMTT(30), ZenonT(30)
  <2>3. \A h, k \in Gens : \A i \in Responses(stdout'[h]), j \in Responses(stdout'[k]) :
          stdout'[h][i].tok = stdout'[k][j].tok => h = k /\ i = j
    BY ONLY <1>2, <1>5, <1>9, <1>1, SMTT(30), ZenonT(30) DEF TokensApart
  <2>4. \A h, k \in Gens : \A i \in Requests(stdin'[h]), j \in Responses(stdout'[k]) :
          stdin'[h][i].tok # stdout'[k][j].tok
    BY ONLY <1>5, <1>9, <1>10, <1>1, SMTT(30), ZenonT(30) DEF TokensApart
  <2>5. \A t, u \in Threads : t # u /\ pc[t] \in Busy /\ pc[u] \in Busy => req[t].tok # req[u].tok
    BY Zenon DEF McpInv, TokensApart
  <2>6. /\ \A t, u \in Threads :
             t # u /\ pc'[t] \in Busy /\ pc'[u] \in Busy => req'[t].tok # req'[u].tok
        /\ \A t \in Threads, h \in Gens : pc'[t] \in Unsent =>
             /\ \A i \in Requests(stdin'[h]) : stdin'[h][i].tok # req'[t].tok
             /\ \A i \in Responses(stdout'[h]) : stdout'[h][i].tok # req'[t].tok
    BY ONLY <1>6, <2>1, <2>5, SMTT(30), ZenonT(30)
  <2>7. \A h, k \in Gens : \A i \in Requests(stdin'[h]), j \in Requests(stdin'[k]) :
          stdin'[h][i].tok = stdin'[k][j].tok => h = k /\ i = j
    BY ONLY <2>2, ZenonT(30)
  <2>8. QED
    BY ONLY <2>3, <2>4, <2>6, <2>7, ZenonT(30) DEF TokensApart
<1>14. RunsAsAnswered'
  <2>0. /\ \A t \in Threads : pc[t] \in Busy => req[t].tok \in 1..setup.calls
        /\ \A h \in Gens : \A i \in Requests(stdin[h]) : stdin[h][i].tok \in 1..setup.calls
        /\ \A h \in Gens : \A i \in Responses(stdout[h]) : stdout[h][i].tok \in 1..setup.calls
        /\ Workers \subseteq Threads
    <3>1. \A k \in 1..calls : k \in 1..setup.calls
      BY ONLY <1>1, SMTT(30), ZenonT(30) DEF McpTypes
    <3>2. QED
      BY <3>1, Zenon DEF McpInv, TokensIssued, Threads
  <2>1. \A k \in DOMAIN executed' : k > calls => executed'[k] = 0
    <3>1. \A k \in 1..setup.calls : k > calls => executed[k] = 0 /\ k # m.tok
      <4>1. \A k \in DOMAIN executed : k > calls => executed[k] = 0
        BY <1>1, Zenon DEF RunsAsAnswered
      <4>2. calls \in Nat /\ setup.calls \in Nat
        BY ONLY <1>1, SMTT(30), ZenonT(30) DEF McpTypes
      <4>3. QED
        BY ONLY <1>3, <1>4, <4>1, <4>2, SMTT(30), ZenonT(30)
    <3>2. QED
      BY ONLY <1>4, <1>7, <3>1, SMTT(30), ZenonT(30)
  <2>2. \A t \in Threads : pc[t] \in Unsent => executed'[req[t].tok] = 0
    BY ONLY <1>2, <1>7, <2>0, BusyParts, <1>1, SMTT(30), ZenonT(30) DEF TokensApart, RunsAsAnswered
  <2>3. \A h \in Gens : \A i \in Requests(stdin'[h]) :
          /\ executed'[stdin'[h][i].tok] = 0
          /\ stdin'[h][i].method = "initialize" =>
               \A t \in Workers : pc[t] \in Busy => req[t].tok # stdin'[h][i].tok
    <3>1. \A h \in Gens : \A i \in Requests(stdin[h]) :
            /\ executed[stdin[h][i].tok] = 0
            /\ stdin[h][i].method = "initialize" =>
                 \A t \in Workers : pc[t] \in Busy => req[t].tok # stdin[h][i].tok
      BY <1>1, Zenon DEF RunsAsAnswered
    <3>2. ASSUME NEW h \in Gens, NEW i \in Requests(stdin'[h])
          PROVE  /\ executed'[stdin'[h][i].tok] = 0
                 /\ stdin'[h][i].method = "initialize" =>
                      \A t \in Workers : pc[t] \in Busy => req[t].tok # stdin'[h][i].tok
      <4>1. PICK j \in Requests(stdin[h]) : stdin'[h][i] = stdin[h][j]
        BY <1>10, Zenon
      <4>2. executed'[stdin[h][j].tok] = executed[stdin[h][j].tok]
        BY <1>7, <1>10, <2>0, <4>1, ZenonT(30)
      <4>3. /\ executed[stdin[h][j].tok] = 0
            /\ stdin[h][j].method = "initialize" =>
                 \A t \in Workers : pc[t] \in Busy => req[t].tok # stdin[h][j].tok
        BY ONLY <3>1, <3>2, <4>1, Zenon
      <4>4. QED
        BY ONLY <4>1, <4>2, <4>3, Zenon
    <3>3. QED
      BY ONLY <3>2, Zenon
  <2>4. \A h \in Gens : \A i \in Responses(stdout[h]) : stdout[h][i].tok # m.tok
    BY ONLY <1>2, <1>1, SMTT(30), ZenonT(30) DEF TokensApart
  <2>5. \A t \in Workers : pc[t] \in Busy /\ req[t].tok = m.tok => m.method = "call"
    BY <1>2, Zenon DEF McpInv, RunsAsAnswered
  <2>6. ASSUME NEW h \in Gens, NEW i \in Responses(stdout'[h])
        PROVE  /\ stdout'[h][i].status = "toolerror" => executed'[stdout'[h][i].tok] = 0
               /\ stdout'[h][i].status = "ok" =>
                    \A t \in Workers : pc[t] \in Busy /\ req[t].tok = stdout'[h][i].tok
                                       => executed'[req[t].tok] = 1
    <3>1. CASE i \in Responses(stdout[h]) /\ stdout'[h][i] = stdout[h][i]
      <4>1. executed'[stdout[h][i].tok] = executed[stdout[h][i].tok]
        BY <1>7, <2>0, <2>4, <3>1, Zenon
      <4>2. QED
        <5>1. /\ stdout[h][i].status = "toolerror" => executed[stdout[h][i].tok] = 0
              /\ stdout[h][i].status = "ok" =>
                   \A t \in Workers : pc[t] \in Busy /\ req[t].tok = stdout[h][i].tok
                                      => executed[req[t].tok] = 1
          BY <1>1, <3>1, Zenon DEF RunsAsAnswered
        <5>2. QED
          BY ONLY <3>1, <4>1, <5>1, Zenon
    <3>2. CASE stdout'[h][i] = R
      BY <1>3, <1>5, <1>7, <2>5, <3>2, ZenonT(30)
    <3>3. QED
      BY <1>9, <3>1, <3>2, Zenon
  <2>7. \A h \in Gens : \A i \in Responses(stdout'[h]) :
          /\ stdout'[h][i].status = "toolerror" => executed'[stdout'[h][i].tok] = 0
          /\ stdout'[h][i].status = "ok" =>
               \A t \in Workers : pc[t] \in Busy /\ req[t].tok = stdout'[h][i].tok
                                  => executed'[req[t].tok] = 1
    BY ONLY <2>6, ZenonT(30)
  <2>8. pc' = pc /\ req' = req /\ calls' = calls
    BY ONLY <1>6, SMTT(30), ZenonT(30)
  <2>9. QED
    BY ONLY <2>1, <2>2, <2>3, <2>7, <2>8, ZenonT(30) DEF RunsAsAnswered
<1>15. OutcomesSettled'
  <2> SUFFICES ASSUME NEW t \in Workers, outcome[t].kind \in {"ok", "toolerror"}
               PROVE  /\ executed'[outcome[t].tok] = IF outcome[t].kind = "ok" THEN 1 ELSE 0
                      /\ \A u \in Threads : pc[u] \in Unsent => req[u].tok # outcome[t].tok
                      /\ \A h \in Gens : \A i \in Requests(stdin'[h]) :
                           stdin'[h][i].tok # outcome[t].tok
    BY <1>6, ZenonT(30) DEF OutcomesSettled
  <2>1. outcome[t].tok # m.tok /\ outcome[t].tok \in 1..setup.calls
    <3>1. outcome[t].tok # m.tok
      BY <1>1, <1>2, Zenon DEF OutcomesSettled
    <3>2. outcome[t].tok \in 1..calls
      BY <1>1, Zenon DEF TokensIssued
    <3>3. \A k \in 1..calls : k \in 1..setup.calls
      BY ONLY <1>1, SMTT(30), ZenonT(30) DEF McpTypes
    <3>4. QED
      BY ONLY <3>1, <3>2, <3>3, SMTT(30), ZenonT(30)
  <2>2. QED
    BY <1>1, <1>7, <1>10, <2>1 DEF OutcomesSettled
<1>16. IdsApart'
  <2>1. \A h \in Gens : /\ \A i \in Requests(stdin'[h]) : stdin'[h][i].id < nextId[h]
                        /\ \A i \in Responses(stdout'[h]) : stdout'[h][i].id < nextId[h]
    BY <1>3, <1>5, <1>9, <1>10, ZenonT(30) DEF McpInv, IdsApart
  <2>2. \A h \in Gens : \A t \in Threads : pc[t] \in Identified /\ req[t].gen = h =>
          /\ \A i \in Requests(stdin'[h]) :
               stdin'[h][i].id = req[t].id => stdin'[h][i].tok = req[t].tok
          /\ \A i \in Responses(stdout'[h]) :
               stdout'[h][i].id = req[t].id => stdout'[h][i].tok = req[t].tok
    <3>1. \A h \in Gens : \A t \in Threads : pc[t] \in Identified /\ req[t].gen = h =>
            /\ \A i \in Requests(stdin[h]) :
                 stdin[h][i].id = req[t].id => stdin[h][i].tok = req[t].tok
            /\ \A i \in Responses(stdout[h]) :
                 stdout[h][i].id = req[t].id => stdout[h][i].tok = req[t].tok
      BY ZenonT(30) DEF McpInv, IdsApart
    <3>2. \A t \in Threads : pc[t] \in Identified /\ req[t].gen = g /\ m.id = req[t].id => m.tok = req[t].tok
      BY <1>2, <3>1
    <3>3. QED
      BY ONLY <1>5, <1>9, <1>10, <3>1, <3>2, SMTT(30)
  <2>3. QED
    BY ONLY <1>6, <2>1, <2>2, <1>1, SMTT(30), ZenonT(30) DEF IdsApart
<1>17. QED
  BY <1>12, <1>13, <1>14, <1>15, <1>16 DEF McpInv

-----------------------------------------------------------------------------
(* Every step *)

LEMMA KeepsQueue == \A S, q : Reduced(S, q, q)
BY DEF Reduced

\* A request ends without an answer: refused, failed, timed out, or malformed.
LEMMA FailedKeeps ==
  ASSUME McpInv, NEW t \in Threads, pc[t] \in Waiting, Return(t, "failed"), broken' \in [Gens -> BOOLEAN],
         UNCHANGED <<setup, calls, executed, nextId, proc, closed, stdin, stdout>>
  PROVE  McpInv'
<1>1. RequestEnded(t, "failed")
  BY ReturnEnds DEF McpInv, Kinds
<1>2. PipesReduced
  BY KeepsQueue DEF PipesReduced
<1>3. "failed" \in Kinds /\ pc[t] \in Busy /\ stdout' \in [Gens -> Seq(ToClient)]
  BY DEF Kinds, Busy, McpInv, McpTypes
<1>4. QED
  BY <1>1, <1>2, <1>3, EndedKeeps

LEMMA ReceivedKeeps ==
  ASSUME McpInv, NEW t \in Threads, pc[t] = "wait", stdout[req[t].gen] # <<>>,
         Take(req[t].gen), Received(t, Head(stdout[req[t].gen])),
         UNCHANGED <<setup, calls, executed, nextId, proc, closed, broken, stdin>>
  PROVE  McpInv'
<1> DEFINE g == req[t].gen
           m == Head(stdout[g])
<1>1. pc[t] \in Busy /\ pc[t] \in Waiting
  BY Zenon DEF Busy, Waiting
<1>2. g \in Gens
  BY <1>1, Zenon DEF McpInv, TokensIssued
<1>3. /\ stdout \in [Gens -> Seq(ToClient)] /\ stdout[g] \in Seq(ToClient)
      /\ stdout' = [stdout EXCEPT ![g] = Tail(stdout[g])]
  BY <1>2 DEF McpInv, McpTypes, Take
<1>4. m \in ToClient /\ Tail(stdout[g]) \in Seq(ToClient)
  BY <1>3
<1>5. stdout' \in [Gens -> Seq(ToClient)] /\ broken' \in [Gens -> BOOLEAN]
  BY <1>3, <1>4, Zenon DEF McpInv, McpTypes
<1>6. PipesReduced
  <2>1. \A h \in Gens : stdout'[h] = IF h = g THEN Tail(stdout[g]) ELSE stdout[h]
    BY <1>3, Zenon
  <2>2. \A h \in Gens : stdin'[h] = stdin[h]
    OBVIOUS
  <2>3. stdout[g] # <<>>
    OBVIOUS
  <2> HIDE DEF g
  <2>4. QED
    BY ONLY <2>1, <2>2, <2>3, Zenon DEF PipesReduced, Reduced
<1>7. CASE Decode(m) = "notification" /\ UNCHANGED threads
  <2>1. pc' = pc /\ req' = req /\ outcome' = outcome
    BY <1>7 DEF threads
  <2>2. McpTypes'
    BY <1>5, <2>1, Zenon DEF McpInv, McpTypes
  <2>3. Onward
    BY <2>1, Zenon DEF Onward
  <2>4. QED
    BY <1>6, <2>1, <2>2, <2>3, LessKeeps
<1>8. CASE Decode(m) = "error" /\ Return(t, "malformed")
  <2>1. RequestEnded(t, "malformed") /\ "malformed" \in Kinds
    BY <1>8, ReturnEnds DEF McpInv, Kinds
  <2>2. QED
    BY <1>1, <1>5, <1>6, <2>1, EndedKeeps, ZenonT(30)
<1>9. CASE Decode(m) = "response" /\ Return(t, Classify(t, m))
  <2>1. m.type = "response"
    BY <1>9 DEF Decode
  <2>2. m.status \in {"ok", "notready", "toolerror"}
    BY <1>4, <2>1, ResponseStatus, ZenonT(30)
  <2>3. Classify(t, m) \in Kinds
    BY <2>2 DEF Classify, Kinds
  <2>4. RequestEnded(t, Classify(t, m))
    BY <1>9, <2>3, ReturnEnds, Zenon DEF McpInv
  <2>5. t \in Workers /\ Classify(t, m) \in {"ok", "toolerror"} => Settled(t, Classify(t, m))
    BY <2>1, ResponseSettles, Zenon
  <2> HIDE DEF m
  <2>6. QED
    BY <1>1, <1>5, <1>6, <2>3, <2>4, <2>5, EndedKeeps, ZenonT(30)
<1>10. QED
  BY <1>7, <1>8, <1>9, Zenon DEF Received

\* A step that is about no request: the pipes hold no more requests and answers
\* than before, and the threads go on.
LEMMA QuietKeeps ==
  ASSUME McpInv, PipesReduced, Onward, stdin' \in [Gens -> Seq(ToServer)],
         stdout' \in [Gens -> Seq(ToClient)],
         proc' \in [Gens -> {"none", "up", "dead"}], closed' \in [Gens -> BOOLEAN],
         pc' \in [Threads -> Busy \cup {"idle", "handshake", "closing", "reopen"}],
         \A t \in Workers : pc'[t] \in Busy \cup {"idle"},
         req' \in [Threads -> [gen : Nat, id : Nat, tok : Nat, abandoned : BOOLEAN]],
         UNCHANGED <<setup, calls, executed, nextId, broken, outcome>>
  PROVE  McpInv'
<1>1. McpTypes'
  BY DEF McpInv, McpTypes
<1>2. outcome' = outcome
  OBVIOUS
<1>3. QED
  BY <1>1, <1>2, LessKeeps, Zenon

LEMMA WorkerStep ==
  ASSUME McpInv, NEW t \in Threads,
         TakeLock(t) \/ CancelAwait(t)
  PROVE  McpInv'
<1>1. /\ stdin' = stdin /\ stdout' = stdout
      /\ UNCHANGED <<setup, calls, executed, nextId, broken, outcome, proc, closed>>
  BY DEF TakeLock, CancelAwait, transport, server
<1>2. PipesReduced
  BY <1>1, KeepsQueue, ZenonT(30) DEF PipesReduced
<1>3. CASE TakeLock(t)
  <2>1. pc[t] = "lock" /\ pc' = [pc EXCEPT ![t] = "id"] /\ req' = req
    BY <1>3, Zenon DEF TakeLock, Goto
  <2>2. Onward
    BY <2>1 DEF Onward, Busy, Unsent, Identified, Waiting, McpInv, McpTypes
  <2>3. /\ pc' \in [Threads -> Busy \cup {"idle", "handshake", "closing", "reopen"}]
        /\ \A u \in Workers : pc'[u] \in Busy \cup {"idle"}
    BY <2>1 DEF McpInv, McpTypes, Busy, Waiting, Threads
  <2>4. QED
    BY <1>1, <1>2, <2>1, <2>2, <2>3, QuietKeeps, Zenon DEF McpInv, McpTypes
<1>4. CASE CancelAwait(t) /\ pc[t] = "lock"
  <2>1. pc' = [pc EXCEPT ![t] = "idle"] /\ req' = [req EXCEPT ![t] = NoReq]
    BY <1>4 DEF CancelAwait, Goto
  <2>2. \A u \in Threads : (u # t => pc'[u] = pc[u] /\ req'[u] = req[u]) /\ pc'[t] = "idle"
    BY <2>1 DEF McpInv, McpTypes
  <2>3. Onward
    BY <2>2 DEF Onward, Busy, Unsent, Identified, Waiting
  <2>4. /\ pc' \in [Threads -> Busy \cup {"idle", "handshake", "closing", "reopen"}]
        /\ \A u \in Workers : pc'[u] \in Busy \cup {"idle"}
    BY <2>1 DEF McpInv, McpTypes, Threads
  <2>5. req' \in [Threads -> [gen : Nat, id : Nat, tok : Nat, abandoned : BOOLEAN]]
    <3>1. NoReq \in [gen : Nat, id : Nat, tok : Nat, abandoned : BOOLEAN]
      BY DEF NoReq
    <3>2. QED
      BY <2>1, <3>1 DEF McpInv, McpTypes
  <2>6. QED
    BY <1>1, <1>2, <2>3, <2>4, <2>5, QuietKeeps, Zenon DEF McpInv, McpTypes
<1>5. CASE CancelAwait(t) /\ pc[t] # "lock"
  <2>1. pc' = pc /\ req' = [req EXCEPT ![t].abandoned = TRUE]
    BY <1>5 DEF CancelAwait
  <2>2. [req[t] EXCEPT !.abandoned = TRUE] \in [gen : Nat, id : Nat, tok : Nat, abandoned : BOOLEAN]
    <3>1. req[t] \in [gen : Nat, id : Nat, tok : Nat, abandoned : BOOLEAN]
      BY DEF McpInv, McpTypes
    <3>2. QED
      BY <3>1, Zenon
  <2>3. \A u \in Threads : /\ req'[u].gen = req[u].gen /\ req'[u].tok = req[u].tok
                           /\ req'[u].id = req[u].id
    BY <2>1 DEF McpInv, McpTypes
  <2>4. Onward
    BY <2>1, <2>3 DEF Onward
  <2>5. req' \in [Threads -> [gen : Nat, id : Nat, tok : Nat, abandoned : BOOLEAN]]
    BY <2>1, <2>2 DEF McpInv, McpTypes
  <2>6. QED
    BY <1>1, <1>2, <2>1, <2>4, <2>5, QuietKeeps, Zenon DEF McpInv, McpTypes
<1>6. QED
  BY <1>3, <1>4, <1>5

LEMMA OwnerStep ==
  ASSUME McpInv, cached \in Nat, FinishHandshake \/ Close \/ MarkClosed \/ FinishClose
  PROVE  McpInv'
<1> DEFINE g == req[Owner].gen
<1>0. /\ Owner \in Threads /\ Workers \subseteq Threads /\ Owner \notin Workers
      /\ stdin \in [Gens -> Seq(ToServer)] /\ Initialized \in ToServer
  BY McpAssumption DEF Threads, McpInv, McpTypes, ToServer
<1>1. /\ stdout' = stdout
      /\ UNCHANGED <<setup, calls, executed, nextId, broken, outcome>>
  BY DEF FinishHandshake, Close, MarkClosed, FinishClose, transport, server, threads
<1>2. /\ closed' \in [Gens -> BOOLEAN]
      /\ proc' \in [Gens -> {"none", "up", "dead"}]
  BY Zenon DEF McpInv, McpTypes, FinishHandshake, Close, MarkClosed, FinishClose, transport, Terminate
<1>3. \E p \in {"idle", "closing", "reopen"} : pc' = pc \/ pc' = [pc EXCEPT ![Owner] = p]
  BY DEF FinishHandshake, Close, MarkClosed, FinishClose, Goto, threads
<1>4. req' \in [Threads -> [gen : Nat, id : Nat, tok : Nat, abandoned : BOOLEAN]]
  <2>1. CASE Close
    <3>1. [NoReq EXCEPT !.gen = cached] \in [gen : Nat, id : Nat, tok : Nat, abandoned : BOOLEAN]
      BY Zenon DEF NoReq
    <3>2. req' = [req EXCEPT ![Owner] = [NoReq EXCEPT !.gen = cached]]
      BY <2>1, SMTT(30), ZenonT(30) DEF Close
    <3>3. QED
      BY <1>0, <3>1, <3>2 DEF McpInv, McpTypes
  <2>2. CASE ~Close
    BY <2>2 DEF FinishHandshake, MarkClosed, FinishClose, threads, McpInv, McpTypes
  <2>3. QED
    BY <2>1, <2>2
<1>5. \A t \in Threads : /\ t # Owner => pc'[t] = pc[t] /\ req'[t] = req[t]
                         /\ pc'[Owner] \in {"idle", "closing", "reopen"}
  <2>1. \A t \in Threads \ {Owner} : req'[t] = req[t]
    BY <1>0 DEF FinishHandshake, Close, MarkClosed, FinishClose, threads, McpInv, McpTypes
  <2>2. pc' = pc => pc[Owner] = "closing"
    BY <1>0, ZenonT(30) DEF FinishHandshake, Close, MarkClosed, FinishClose, Goto, McpInv, McpTypes
  <2>3. QED
    BY <1>0, <1>3, <2>1, <2>2, Zenon DEF McpInv, McpTypes
<1>6. Onward
  BY <1>5 DEF Onward, Busy, Unsent, Identified, Waiting
<1>7. /\ pc' \in [Threads -> Busy \cup {"idle", "handshake", "closing", "reopen"}]
      /\ \A t \in Workers : pc'[t] \in Busy \cup {"idle"}
  BY <1>0, <1>3, <1>5, ZenonT(30) DEF McpInv, McpTypes
<1>8. \E h : \/ stdin' = stdin
             \/ stdin' = [stdin EXCEPT ![h] = <<>>]
             \/ stdin' = [stdin EXCEPT ![h] = Append(@, Initialized)]
  BY DEF FinishHandshake, Close, MarkClosed, FinishClose, transport, Terminate, Notify
<1>9. \A k \in Gens : \/ stdin'[k] = stdin[k]
                              \/ stdin'[k] = <<>>
                              \/ stdin'[k] = Append(stdin[k], Initialized)
  BY <1>0, <1>8
<1>10. PipesReduced
  <2>1. Initialized.type \notin {"request", "response"}
    BY DEF Initialized
  <2>2. QED
    BY <1>0, <1>1, <1>9, <2>1, Zenon DEF PipesReduced, Reduced
<1>11. stdin' \in [Gens -> Seq(ToServer)]
  <2>1. /\ \A k \in Gens : Append(stdin[k], Initialized) \in Seq(ToServer)
        /\ \A k \in Gens : stdin[k] \in Seq(ToServer) /\ <<>> \in Seq(ToServer)
    BY <1>0
  <2>2. \A k \in Gens : stdin'[k] \in Seq(ToServer)
    BY <1>9, <2>1, Zenon
  <2>3. stdin' = [k \in Gens |-> stdin'[k]]
    BY <1>0, <1>8
  <2>4. QED
    BY <2>2, <2>3
<1>12. QED
  BY <1>1, <1>2, <1>4, <1>6, <1>7, <1>10, <1>11, QuietKeeps, Zenon DEF McpInv, McpTypes

LEMMA ServerSteps ==
  ASSUME McpInv, NEW g \in Gens, Serve(g) \/ MakeNoise(g) \/ Die(g)
  PROVE  McpInv'
<1>0. /\ stdin \in [Gens -> Seq(ToServer)] /\ stdout \in [Gens -> Seq(ToClient)]
      /\ Progress \in ToClient /\ Garbage \in ToClient
      /\ stdin[g] \in Seq(ToServer) /\ stdout[g] \in Seq(ToClient)
  BY DEF McpInv, McpTypes, ToClient
<1>1. UNCHANGED <<setup, calls, nextId, broken, outcome, closed, pc, req>>
  BY DEF Serve, MakeNoise, Die, threads, client
<1>2. Onward
  BY <1>1 DEF Onward
<1>3. CASE MakeNoise(g)
  <2>1. PICK m \in {Progress, Garbage} : stdout' = [stdout EXCEPT ![g] = Append(stdout[g], m)]
    BY <1>3, Zenon DEF MakeNoise
  <2>2. /\ stdin' = stdin /\ proc' = proc /\ executed' = executed
    BY <1>3 DEF MakeNoise, server
  <2>3. m \in ToClient /\ m.type \notin {"request", "response"}
    BY <1>0 DEF Progress, Garbage
  <2>4. \A h \in Gens : stdout'[h] = IF h = g THEN Append(stdout[g], m) ELSE stdout[h]
    BY <1>0, <2>1
  <2>5. PipesReduced
    BY ONLY <2>2, <2>3, <2>4, Zenon DEF PipesReduced, Reduced
  <2>6. stdout' \in [Gens -> Seq(ToClient)]
    <3>1. Append(stdout[g], m) \in Seq(ToClient)
      BY <1>0, <2>3
    <3>2. QED
      BY <1>0, <2>1, <3>1
  <2>7. QED
    BY <1>1, <1>2, <2>2, <2>5, <2>6, QuietKeeps, Zenon DEF McpInv, McpTypes
<1>4. CASE Die(g)
  <2>1. /\ stdin' = [stdin EXCEPT ![g] = <<>>] /\ stdout' = stdout /\ executed' = executed
        /\ proc' = [proc EXCEPT ![g] = "dead"]
    BY <1>4 DEF Die, server
  <2>2. \A h \in Gens : stdin'[h] = stdin[h] \/ stdin'[h] = <<>>
    BY <1>0, <2>1
  <2>3. PipesReduced
    BY ONLY <2>1, <2>2, Zenon DEF PipesReduced, Reduced
  <2>4. stdin' \in [Gens -> Seq(ToServer)] /\ proc' \in [Gens -> {"none", "up", "dead"}]
    BY <1>0, <2>1 DEF McpInv, McpTypes
  <2>5. QED
    BY <1>1, <1>2, <2>1, <2>3, <2>4, QuietKeeps, Zenon DEF McpInv, McpTypes
<1>5. CASE Serve(g)
  <2> DEFINE m == Head(stdin[g])
  <2>1. stdin[g] # <<>> /\ stdin' = [stdin EXCEPT ![g] = Tail(@)] /\ proc' = proc
    BY <1>5 DEF Serve
  <2>2. CASE HandleNotification(g, m)
    <3>1. stdout' = stdout /\ executed' = executed
      BY <2>2 DEF HandleNotification
    <3>2. \A h \in Gens : stdin'[h] = IF h = g THEN Tail(stdin[g]) ELSE stdin[h]
      BY <1>0, <2>1
    <3>3. PipesReduced
      BY ONLY <2>1, <3>1, <3>2, Zenon DEF PipesReduced, Reduced
    <3>4. stdin' \in [Gens -> Seq(ToServer)]
      <4>1. Tail(stdin[g]) \in Seq(ToServer)
        BY <1>0, <2>1
      <4>2. QED
        BY <1>0, <2>1, <4>1
    <3>5. QED
      BY <1>1, <1>2, <2>1, <3>1, <3>3, <3>4, QuietKeeps, Zenon DEF McpInv, McpTypes
  <2>3. ASSUME NEW status \in {"ok", "notready", "toolerror"}, NEW n \in {0, 1}, m.type = "request",
               Reply(g, m, status), executed' = [executed EXCEPT ![m.tok] = @ + n],
               m.method = "call" /\ status = "ok" => n = 1, status = "toolerror" => n = 0
        PROVE  McpInv'
    <3>1. /\ Moved(g, m, Response(m, status))
          /\ stdin' \in [Gens -> Seq(ToServer)] /\ stdout' \in [Gens -> Seq(ToClient)]
          /\ m.method \in {"initialize", "call"}
      BY <2>1, <2>3, AnswerMoves, Zenon
    <3>2. 1 \in Requests(stdin[g]) /\ stdin[g][1] = m
      BY <3>1, Zenon DEF Moved
    <3>3. executed[m.tok] \in Nat
      <4>1. executed[stdin[g][1].tok] = 0
        BY <3>2, Zenon DEF McpInv, RunsAsAnswered
      <4>2. QED
        BY ONLY <3>2, <4>1, SMTT(30), ZenonT(30)
    <3>4. executed' \in [1..setup.calls -> Nat]
      <4>1. executed[m.tok] + n \in Nat
        BY <3>3
      <4>2. QED
        BY <2>3, <4>1, Zenon DEF McpInv, McpTypes
    <3>5. McpTypes'
      BY <1>1, <2>1, <3>1, <3>4, Zenon DEF McpInv, McpTypes
    <3> HIDE DEF m
    <3>6. QED
      BY ONLY McpInv, g \in Gens, <1>1, <2>3, <3>1, <3>5, AnsweredKeeps, Zenon
  <2>4. CASE OnInitialize(g, m)
    <3>1. m.type = "request" /\ m.method = "initialize" /\ Reply(g, m, "ok") /\ executed' = executed
      BY <2>4 DEF OnInitialize
    <3>2. executed' = [executed EXCEPT ![m.tok] = @ + 0]
      BY <3>1, SMTT(30), ZenonT(30) DEF McpInv, McpTypes
    <3>3. QED
      BY <2>3, <3>1, <3>2, Zenon
  <2>5. CASE OnToolsCall(g, m)
    <3>1. /\ m.type = "request" /\ m.method = "call" /\ Reply(g, m, Status(g, m))
          /\ executed' = [executed EXCEPT ![m.tok] = @ + IF Status(g, m) = "ok" THEN 1 ELSE 0]
      BY <2>5 DEF OnToolsCall
    <3>2. Status(g, m) \in {"ok", "notready", "toolerror"}
      BY DEF Status
    <3>3. QED
      BY <2>3, <3>1, <3>2, ZenonT(30)
  <2>6. QED
    BY <1>5, <2>2, <2>4, <2>5 DEF Serve, HandleMessage
<1>6. QED
  BY <1>3, <1>4, <1>5

LEMMA McpStep ==
  ASSUME McpInv, cached \in Nat, [Next]_vars
  PROVE  McpInv' /\ cached' \in Nat
<1>1. cached' \in Nat
  <2>1. cached' = cached \/ cached' = 0 \/ cached' = req[Owner].gen
    BY Zenon DEF Next, vars, CallTool, CancelAwait, TakeLock, TakeId, SendStdio, SendSse, ReceiveStdio,
           ReceiveSse, Timeout, SseOpenFails, Connect, FinishHandshake, Close, MarkClosed,
           FinishClose, Serve, MakeNoise, Die, client
  <2>2. QED
    BY <2>1 DEF McpInv, McpTypes, Threads
<1>2. CASE UNCHANGED vars
  <2>1. UNCHANGED <<setup, calls, stdin, stdout, nextId, executed, pc, req, outcome, proc, closed, broken>>
    BY <1>2 DEF vars, transport, server, client, threads
  <2>2. McpTypes' /\ TokensIssued'
    BY <2>1, ZenonT(30) DEF McpInv, McpTypes, TokensIssued
  <2>3. TokensApart'
    BY <2>1 DEF McpInv, TokensApart
  <2>4. RunsAsAnswered' /\ OutcomesSettled'
    BY <2>1, ZenonT(30) DEF McpInv, RunsAsAnswered, OutcomesSettled
  <2>5. IdsApart'
    BY <2>1, ZenonT(30) DEF McpInv, IdsApart
  <2>6. QED
    BY <1>1, <2>2, <2>3, <2>4, <2>5, Zenon DEF McpInv
<1>3. ASSUME NEW t \in Workers, CallTool(t) PROVE McpInv'
  <2>1. PICK g \in Gens : Issue(t, g)
    BY <1>3 DEF CallTool
  <2>2. /\ t \in Threads /\ pc[t] \notin Busy
        /\ UNCHANGED <<setup, stdin, stdout, nextId, executed, closed, broken, proc>>
        /\ outcome' = [outcome EXCEPT ![t] = NoOutcome]
    BY <1>3, Zenon DEF CallTool, transport, server, client, Threads, Busy, Waiting
  <2>3. QED
    BY <2>1, <2>2, IssueKeeps, Zenon DEF McpInv, McpTypes
<1>4. CASE Connect
  <2>0. PICK t \in Threads : t = Owner
    BY DEF Threads
  <2>1. PICK g \in Gens : Spawn(g) /\ Issue(t, g)
    BY <1>4, <2>0 DEF Connect
  <2>2. /\ pc[t] \notin Busy
        /\ UNCHANGED <<setup, stdin, stdout, nextId, executed, closed, broken>>
        /\ outcome' = outcome
    BY <1>4, <2>0 DEF Connect, transport, server, client, Busy, Waiting
  <2>3. proc' \in [Gens -> {"none", "up", "dead"}]
    BY <2>1 DEF Spawn, McpInv, McpTypes
  <2>4. QED
    BY <1>1, <2>0, <2>1, <2>2, <2>3, IssueKeeps
<1>5. ASSUME NEW t \in Threads, SendStdio(t) \/ SendSse(t) PROVE McpInv'
  <2>1. /\ pc[t] = "send" /\ pc[t] \in Waiting
        /\ UNCHANGED <<setup, proc, stdout, closed, broken, executed, nextId, calls>>
        /\ (Return(t, "failed") /\ stdin' = stdin) \/ Written(t)
    BY <1>5, Zenon DEF SendStdio, SendSse, server, Waiting
  <2>2. broken' \in [Gens -> BOOLEAN]
    BY <2>1 DEF McpInv, McpTypes
  <2>3. CASE Return(t, "failed") /\ stdin' = stdin
    BY <2>1, <2>2, <2>3, FailedKeeps
  <2>4. CASE Written(t)
    BY <2>1, <2>4, WrittenKeeps, SMTT(30), ZenonT(30)
  <2>5. QED
    BY <2>1, <2>3, <2>4
<1>6. ASSUME NEW t \in Threads, ReceiveStdio(t) \/ ReceiveSse(t) PROVE McpInv'
  <2>1. /\ pc[t] = "wait" /\ pc[t] \in Waiting
        /\ UNCHANGED <<setup, calls, executed, nextId, proc, closed, broken, stdin>>
        /\ \/ Return(t, "failed") /\ stdout' = stdout
           \/ /\ stdout[req[t].gen] # <<>> /\ Take(req[t].gen)
              /\ Received(t, Head(stdout[req[t].gen]))
    BY <1>6, Zenon DEF ReceiveStdio, ReceiveSse, server, Waiting
  <2>2. broken' \in [Gens -> BOOLEAN]
    BY <2>1, ZenonT(30) DEF McpInv, McpTypes
  <2>3. CASE Return(t, "failed") /\ stdout' = stdout
    BY <2>1, <2>2, <2>3, FailedKeeps
  <2>4. CASE /\ stdout[req[t].gen] # <<>> /\ Take(req[t].gen)
             /\ Received(t, Head(stdout[req[t].gen]))
    BY <2>1, <2>4, ReceivedKeeps, Zenon
  <2>5. QED
    BY <2>1, <2>3, <2>4
<1>7. ASSUME NEW t \in Threads, Timeout(t) PROVE McpInv'
  <2>1. /\ pc[t] \in Waiting /\ Return(t, "failed")
        /\ UNCHANGED <<setup, calls, executed, nextId, proc, closed, stdin, stdout>>
        /\ broken' = [broken EXCEPT ![req[t].gen] = @ \/ setup.kind = "sse"]
    BY <1>7 DEF Timeout, server, Waiting
  <2>2. broken' \in [Gens -> BOOLEAN]
    BY <2>1, Zenon DEF McpInv, McpTypes
  <2>3. QED
    BY <2>1, <2>2, FailedKeeps, ZenonT(30)
<1>8. CASE SseOpenFails
  <2>0. PICK t \in Threads : t = Owner
    BY DEF Threads
  <2>1. /\ pc[t] \in Waiting /\ Return(t, "failed")
        /\ UNCHANGED <<setup, calls, executed, nextId, proc, closed, stdin, stdout>>
        /\ broken' = broken
    BY <1>8, <2>0 DEF SseOpenFails, server, transport, Waiting
  <2>2. broken' \in [Gens -> BOOLEAN]
    BY <2>1 DEF McpInv, McpTypes
  <2>3. QED
    BY <1>1, <2>0, <2>1, <2>2, FailedKeeps
<1>9. ASSUME NEW t \in Threads, TakeLock(t) \/ CancelAwait(t) PROVE McpInv'
  BY <1>9, WorkerStep
<1>10. QED
  BY <1>1, <1>2, <1>3, <1>4, <1>5, <1>6, <1>7, <1>8, <1>9, TakeIdKeeps, OwnerStep, ServerSteps
     DEF Next, Threads


-----------------------------------------------------------------------------
(* Who reads the wrong answer *)

\* A process that is gone has nothing left to read.
LEMMA DeadStep ==
  ASSUME McpInv, DeadReadsNothing, [Next]_vars
  PROVE  DeadReadsNothing'
<1>0. /\ stdin \in [Gens -> Seq(ToServer)] /\ proc \in [Gens -> {"none", "up", "dead"}]
  BY DEF McpInv, McpTypes
<1>1. ASSUME UNCHANGED <<stdin, proc>> PROVE DeadReadsNothing'
  BY <1>1 DEF DeadReadsNothing
<1>2. ASSUME NEW g \in Gens, proc[g] = "up", proc' = proc, NEW q, stdin' = [stdin EXCEPT ![g] = q]
      PROVE  DeadReadsNothing'
  BY <1>0, <1>2 DEF DeadReadsNothing
<1>3. ASSUME NEW g, proc' = [proc EXCEPT ![g] = "dead"], stdin' = [stdin EXCEPT ![g] = <<>>]
      PROVE  DeadReadsNothing'
  BY <1>0, <1>3 DEF DeadReadsNothing
<1>4. ASSUME NEW t \in Threads, SendStdio(t) \/ SendSse(t) PROVE DeadReadsNothing'
  <2>1. req[t].gen \in Gens
    BY <1>4, Zenon DEF SendStdio, SendSse, McpInv, TokensIssued, Busy, Waiting
  <2>2. QED
    BY <1>1, <1>2, <1>4, <2>1, Zenon DEF SendStdio, SendSse, Written
<1>5. CASE Connect
  BY <1>0, <1>5 DEF Connect, Spawn, DeadReadsNothing
<1>6. CASE FinishHandshake
  <2>1. \/ UNCHANGED <<stdin, proc>>
        \/ /\ proc[req[Owner].gen] = "up" /\ proc' = proc
           /\ stdin' = [stdin EXCEPT ![req[Owner].gen] = Append(@, Initialized)]
    BY <1>6, Zenon DEF FinishHandshake, Notify
  <2>2. QED
    BY <1>0, <1>1, <2>1 DEF DeadReadsNothing
<1>7. CASE FinishClose
  BY <1>3, <1>7, Zenon DEF FinishClose, Terminate
<1>8. ASSUME NEW g \in Gens, Serve(g) PROVE DeadReadsNothing'
  BY <1>2, <1>8, Zenon DEF Serve
<1>9. ASSUME NEW g \in Gens, Die(g) PROVE DeadReadsNothing'
  BY <1>3, <1>9, Zenon DEF Die
<1>10. CASE \/ \E t \in Workers : CallTool(t) \/ CancelAwait(t)
            \/ \E t \in Threads : TakeLock(t) \/ TakeId(t) \/ ReceiveStdio(t) \/ ReceiveSse(t) \/ Timeout(t)
            \/ SseOpenFails \/ Close \/ MarkClosed
            \/ \E g \in Gens : MakeNoise(g)
            \/ UNCHANGED vars
  BY <1>1, <1>10, Zenon DEF CallTool, CancelAwait, TakeLock, TakeId, ReceiveStdio, ReceiveSse, Timeout,
                     SseOpenFails, Close, MarkClosed, MakeNoise, transport, vars
<1>11. QED
  BY <1>4, <1>5, <1>6, <1>7, <1>8, <1>9, <1>10 DEF Next

AwaitedNext(g, id) == \E t \in Threads : pc'[t] = "wait" /\ req'[t].gen = g /\ req'[t].id = id

\* Nobody stops waiting, and what is in the pipes is what was asked and answered
\* before.
StillAsked ==
  /\ setup' = setup /\ broken' = broken /\ trouble \subseteq trouble'
  /\ \A g \in Gens :
       /\ closed[g] => closed'[g]
       /\ \A i \in Requests(stdin'[g]) :
            \E j \in Requests(stdin[g]) : stdin'[g][i].id = stdin[g][j].id
       /\ \A i \in Responses(stdout'[g]) :
            \/ \E j \in Responses(stdout[g]) : stdout'[g][i].id = stdout[g][j].id
            \/ \E j \in Requests(stdin[g]) : stdout'[g][i].id = stdin[g][j].id
  /\ \A t \in Threads :
       /\ pc'[t] \in Identified => pc[t] \in Identified /\ req'[t].gen = req[t].gen
       /\ pc[t] = "wait" => pc'[t] = "wait" /\ req'[t].gen = req[t].gen /\ req'[t].id = req[t].id

LEMMA StillSerial ==
  ASSUME SerialUnlessTroubled, StillAsked
  PROVE  SerialUnlessTroubled'
<1>1. \A g \in Gens \ trouble' : g \in Gens \ trouble
  BY DEF StillAsked
<1>2. \A g \in Gens : \A id : Awaited(g, id) => AwaitedNext(g, id)
  BY Zenon DEF StillAsked, Awaited, AwaitedNext
<1>3. \A g \in Gens \ trouble' :
        /\ ~broken'[g]
        /\ \A t, u \in Threads :
             /\ pc'[t] \in Identified /\ pc'[u] \in Identified /\ req'[t].gen = g /\ req'[u].gen = g
             => t = u
  <2>1. \A g \in Gens \ trouble' : ~broken'[g]
    BY <1>1, Zenon DEF StillAsked, SerialUnlessTroubled
  <2>2. ASSUME NEW g \in Gens \ trouble', NEW t \in Threads, NEW u \in Threads,
               pc'[t] \in Identified, pc'[u] \in Identified, req'[t].gen = g, req'[u].gen = g
        PROVE  t = u
    <3>1. /\ pc[t] \in Identified /\ pc[u] \in Identified
          /\ req[t].gen = g /\ req[u].gen = g
      BY <2>2 DEF StillAsked
    <3>2. QED
      BY <1>1, <3>1, ZenonT(30) DEF SerialUnlessTroubled
  <2>3. QED
    BY ONLY <2>1, <2>2, Zenon
<1>4. ASSUME NEW g \in Gens \ trouble', ~(closed'[g] /\ setup'.kind = "sse")
      PROVE  /\ \A i \in Requests(stdin'[g]) : AwaitedNext(g, stdin'[g][i].id)
             /\ \A i \in Responses(stdout'[g]) : AwaitedNext(g, stdout'[g][i].id)
  <2>1. /\ \A i \in Requests(stdin[g]) : Awaited(g, stdin[g][i].id)
        /\ \A i \in Responses(stdout[g]) : Awaited(g, stdout[g][i].id)
    BY <1>1, <1>4, Zenon DEF SerialUnlessTroubled, StillAsked
  <2>2. /\ \A i \in Requests(stdin'[g]) : Awaited(g, stdin'[g][i].id)
        /\ \A i \in Responses(stdout'[g]) : Awaited(g, stdout'[g][i].id)
    <3>1. /\ \A i \in Requests(stdin'[g]) :
               \E j \in Requests(stdin[g]) : stdin'[g][i].id = stdin[g][j].id
          /\ \A i \in Responses(stdout'[g]) :
               \/ \E j \in Responses(stdout[g]) : stdout'[g][i].id = stdout[g][j].id
               \/ \E j \in Requests(stdin[g]) : stdout'[g][i].id = stdin[g][j].id
      BY Zenon DEF StillAsked
    <3>2. QED
      BY ONLY <2>1, <3>1, Zenon
  <2>3. QED
    BY <1>2, <2>2, Zenon
<1>5. QED
  BY <1>3, <1>4, ZenonT(30) DEF SerialUnlessTroubled, Awaited, AwaitedNext

\* A thread whose request is over left nothing of it behind on a connection
\* that has no trouble.
LEMMA EndedSerial ==
  ASSUME McpInv, SerialUnlessTroubled, NEW t \in Threads, NEW kind, RequestEnded(t, kind), NEW g \in Gens,
         g = req[t].gen, setup' = setup, closed' = closed, trouble \subseteq trouble',
         \A h \in Gens \ {g} : stdin'[h] = stdin[h] /\ stdout'[h] = stdout[h] /\ broken'[h] = broken[h],
         \/ g \in trouble'
         \/ /\ broken'[g] = broken[g]
            /\ \/ closed[g] /\ setup.kind = "sse"
               \/ Requests(stdin'[g]) = {} /\ Responses(stdout'[g]) = {}
  PROVE  SerialUnlessTroubled'
<1>1. /\ pc'[t] \notin Identified
      /\ \A u \in Threads \ {t} : pc'[u] = pc[u] /\ req'[u] = req[u]
  BY BusyParts, Zenon DEF RequestEnded
<1>2. \A h \in Gens \ {g} : \A id : Awaited(h, id) => AwaitedNext(h, id)
  BY <1>1, ZenonT(30) DEF Awaited, AwaitedNext
<1> SUFFICES ASSUME NEW h \in Gens \ trouble'
             PROVE  /\ ~broken'[h]
                    /\ \A u, v \in Threads :
                         /\ pc'[u] \in Identified /\ pc'[v] \in Identified
                         /\ req'[u].gen = h /\ req'[v].gen = h
                         => u = v
                    /\ ~(closed[h] /\ setup.kind = "sse") =>
                         /\ \A i \in Requests(stdin'[h]) : AwaitedNext(h, stdin'[h][i].id)
                         /\ \A i \in Responses(stdout'[h]) : AwaitedNext(h, stdout'[h][i].id)
  BY Zenon DEF SerialUnlessTroubled, Awaited, AwaitedNext
<1>3. h \in Gens \ trouble
  BY Zenon
<1>4. ~broken'[h]
  BY <1>3, Zenon DEF SerialUnlessTroubled
<1>5. \A u, v \in Threads :
        /\ pc'[u] \in Identified /\ pc'[v] \in Identified /\ req'[u].gen = h /\ req'[v].gen = h
        => u = v
  BY <1>1, <1>3, ZenonT(30) DEF SerialUnlessTroubled
<1>6. ASSUME ~(closed[h] /\ setup.kind = "sse")
      PROVE  /\ \A i \in Requests(stdin'[h]) : AwaitedNext(h, stdin'[h][i].id)
             /\ \A i \in Responses(stdout'[h]) : AwaitedNext(h, stdout'[h][i].id)
  <2>1. CASE h = g
    BY <1>6, <2>1, Zenon
  <2>2. CASE h # g
    <3>1. /\ \A i \in Requests(stdin[h]) : Awaited(h, stdin[h][i].id)
          /\ \A i \in Responses(stdout[h]) : Awaited(h, stdout[h][i].id)
      BY <1>3, <1>6, Zenon DEF SerialUnlessTroubled
    <3>2. QED
      BY <1>2, <2>2, <3>1, Zenon
  <2>3. QED
    BY <2>1, <2>2, Zenon
<1>7. QED
  BY <1>4, <1>5, <1>6, Zenon

\* On a connection without trouble a thread reads its own answer, and there is
\* no other message.
LEMMA OwnAnswerOnly ==
  ASSUME McpInv, SerialUnlessTroubled, NEW t \in Threads, pc[t] \in Identified, NEW g \in Gens,
         g = req[t].gen, g \notin trouble, ~(closed[g] /\ setup.kind = "sse")
  PROVE  /\ \A i \in Requests(stdin[g]) : /\ pc[t] = "wait" /\ stdin[g][i].id = req[t].id
                                          /\ stdin[g][i].tok = req[t].tok
         /\ \A i \in Responses(stdout[g]) : /\ pc[t] = "wait" /\ stdout[g][i].id = req[t].id
                                            /\ stdout[g][i].tok = req[t].tok
<1>1. \A u \in Threads : pc[u] \in Identified /\ req[u].gen = g => u = t
  BY Zenon DEF SerialUnlessTroubled
<1>2. \A id : Awaited(g, id) => pc[t] = "wait" /\ req[t].id = id
  BY <1>1, Zenon DEF Awaited, Identified
<1>3. /\ \A i \in Requests(stdin[g]) : Awaited(g, stdin[g][i].id)
      /\ \A i \in Responses(stdout[g]) : Awaited(g, stdout[g][i].id)
  BY Zenon DEF SerialUnlessTroubled
<1>4. QED
  BY <1>2, <1>3, SMTT(30) DEF McpInv, IdsApart

\* The outcomes after a step: as before, none, or one of thread t.
Reported(t, kind) ==
  \A u \in Workers :
    \/ outcome'[u] = outcome[u]
    \/ outcome'[u].kind = "none"
    \/ u = t /\ outcome'[u].kind = kind /\ outcome'[u].gen = req[t].gen

LEMMA ReportedCause ==
  ASSUME MismatchHasCause, NEW t, NEW kind, Reported(t, kind), trouble \subseteq trouble',
         kind = "mismatch" => req[t].gen \in trouble
  PROVE  MismatchHasCause'
BY SMTT(30), ZenonT(30) DEF MismatchHasCause, Reported

LEMMA EndedReported ==
  ASSUME NEW t, NEW kind, RequestEnded(t, kind)
  PROVE  Reported(t, kind)
BY DEF RequestEnded, Reported

LEMMA SendCause ==
  ASSUME McpInv, CauseInv, NEW t \in Threads, pc[t] = "send", Return(t, "failed"),
         UNCHANGED <<setup, stdin, stdout, closed, broken, trouble>>
  PROVE  SerialUnlessTroubled' /\ MismatchHasCause'
<1> DEFINE g == req[t].gen
<1>1. pc[t] \in Busy /\ pc[t] \in Identified
  BY DEF Busy, Identified, Waiting
<1>2. g \in Gens
  BY <1>1, Zenon DEF McpInv, TokensIssued
<1>3. RequestEnded(t, "failed")
  BY ReturnEnds DEF McpInv, Kinds
<1>4. g \notin trouble /\ ~(closed[g] /\ setup.kind = "sse")
      => Requests(stdin[g]) = {} /\ Responses(stdout[g]) = {}
  BY <1>1, <1>2, OwnAnswerOnly, Zenon DEF CauseInv
<1>5. SerialUnlessTroubled'
  BY <1>2, <1>3, <1>4, EndedSerial, Zenon DEF CauseInv
<1>6. MismatchHasCause'
  <2>1. trouble \subseteq trouble'
    OBVIOUS
  <2>2. QED
    BY <1>3, <2>1, EndedReported, ReportedCause, Zenon DEF CauseInv
<1>7. QED
  BY <1>5, <1>6

LEMMA ReceivedCause ==
  ASSUME McpInv, CauseInv, NEW t \in Threads, pc[t] = "wait", stdout[req[t].gen] # <<>>,
         setup.kind = "sse" => ~closed[req[t].gen],
         Take(req[t].gen), Received(t, Head(stdout[req[t].gen])),
         UNCHANGED <<setup, stdin, closed, broken>>
  PROVE  SerialUnlessTroubled' /\ MismatchHasCause'
<1> DEFINE g == req[t].gen
           m == stdout[g][1]
<1>1. pc[t] \in Busy /\ pc[t] \in Identified
  BY DEF Busy, Identified, Waiting
<1>2. g \in Gens
  BY <1>1, ZenonT(30) DEF McpInv, TokensIssued
<1>3. /\ stdout \in [Gens -> Seq(ToClient)] /\ stdout[g] \in Seq(ToClient)
      /\ stdout' = [stdout EXCEPT ![g] = Tail(stdout[g])]
  BY <1>2 DEF McpInv, McpTypes, Take
<1>4. Head(stdout[g]) = m /\ 1 \in DOMAIN stdout[g] /\ m \in ToClient
  BY ONLY <1>3, stdout[g] # <<>>, SMTT(30), ZenonT(30)
<1>5. \A h \in Gens : stdout'[h] = IF h = g THEN Tail(stdout[g]) ELSE stdout[h]
  BY <1>3, Zenon
<1>6. /\ \A i \in Responses(Tail(stdout[g])) :
           i + 1 \in Responses(stdout[g]) /\ Tail(stdout[g])[i] = stdout[g][i + 1]
      /\ \A i \in Responses(Tail(stdout[g])) : i + 1 # 1
  <2>1. \A i \in Responses(Tail(stdout[g])) :
          i + 1 \in Responses(stdout[g]) /\ Tail(stdout[g])[i] = stdout[g][i + 1]
    BY <1>3, QueueTail, Zenon
  <2>2. Tail(stdout[g]) \in Seq(ToClient)
    BY ONLY <1>3, stdout[g] # <<>>, SMTT(30), ZenonT(30)
  <2>3. \A i \in Responses(Tail(stdout[g])) : i \in Nat \ {0}
    BY <2>2 DEF Responses
  <2>4. \A i \in Nat \ {0} : i + 1 # 1
    BY ONLY SMT
  <2>5. QED
    BY ONLY <2>1, <2>3, <2>4, Zenon
<1>7. CASE Decode(m) = "notification" /\ UNCHANGED <<threads, trouble>>
  <2>1. pc' = pc /\ req' = req /\ outcome' = outcome /\ trouble' = trouble
    BY <1>7, Zenon DEF threads
  <2>2. \A h \in Gens : \A i \in Responses(stdout'[h]) :
          \E j \in Responses(stdout[h]) : stdout'[h][i] = stdout[h][j]
    BY ONLY <1>5, <1>6, ZenonT(30)
  <2>3. StillAsked
    BY <2>1, <2>2, Zenon DEF StillAsked
  <2>4. MismatchHasCause'
    BY <2>1, Zenon DEF CauseInv, MismatchHasCause
  <2>5. QED
    BY <2>3, <2>4, StillSerial, ZenonT(30) DEF CauseInv
<1>8. CASE Decode(m) = "error" /\ Return(t, "malformed") /\ trouble' = trouble \cup {g}
  <2>1. RequestEnded(t, "malformed")
    BY <1>8, ReturnEnds, Zenon DEF McpInv, Kinds
  <2>2. SerialUnlessTroubled'
    BY <1>2, <1>5, <1>8, <2>1, EndedSerial, ZenonT(30) DEF CauseInv
  <2>3. MismatchHasCause'
    <3>1. trouble \subseteq trouble'
      BY <1>8, Zenon
    <3>2. QED
      BY <2>1, <3>1, EndedReported, ReportedCause DEF CauseInv
  <2>4. QED
    BY <2>2, <2>3
<1>9. CASE Decode(m) = "response" /\ Return(t, Classify(t, m)) /\ trouble' = trouble
  <2>1. m.type = "response" /\ 1 \in Responses(stdout[g])
    BY <1>4, <1>9, ZenonT(30) DEF Decode, Responses
  <2>2. m.status \in {"ok", "notready", "toolerror"}
    BY <1>4, <2>1, ResponseStatus, ZenonT(30)
  <2>3. Classify(t, m) \in Kinds
    BY <2>2 DEF Classify, Kinds
  <2>4. RequestEnded(t, Classify(t, m))
    BY <1>9, <2>3, ReturnEnds, Zenon DEF McpInv
  <2>5. ASSUME g \notin trouble
        PROVE  /\ m.id = req[t].id
               /\ Requests(stdin[g]) = {} /\ Responses(stdout'[g]) = {}
    <3>1. ~(closed[g] /\ setup.kind = "sse")
      OBVIOUS
    <3>2. /\ \A i \in Requests(stdin[g]) : stdin[g][i].tok = req[t].tok
          /\ \A i \in Responses(stdout[g]) : /\ stdout[g][i].id = req[t].id
                                             /\ stdout[g][i].tok = req[t].tok
      BY <1>1, <1>2, <2>5, <3>1, OwnAnswerOnly, Zenon DEF CauseInv
    <3>3. m.id = req[t].id /\ m.tok = req[t].tok
      BY <2>1, <3>2, Zenon
    <3>4. /\ \A i \in Responses(stdout[g]), j \in Responses(stdout[g]) :
               stdout[g][i].tok = stdout[g][j].tok => i = j
          /\ \A i \in Requests(stdin[g]), j \in Responses(stdout[g]) :
               stdin[g][i].tok # stdout[g][j].tok
      <4>1. /\ \A a, b \in Gens : \A i \in Responses(stdout[a]), j \in Responses(stdout[b]) :
                 stdout[a][i].tok = stdout[b][j].tok => a = b /\ i = j
            /\ \A a, b \in Gens : \A i \in Requests(stdin[a]), j \in Responses(stdout[b]) :
                 stdin[a][i].tok # stdout[b][j].tok
        BY Zenon DEF McpInv, TokensApart
      <4> HIDE DEF g
      <4>2. QED
        BY ONLY <1>2, <4>1, ZenonT(30)
    <3>5. Requests(stdin[g]) = {} /\ \A i \in Responses(stdout[g]) : i = 1
      BY ONLY <2>1, <3>2, <3>3, <3>4, SMTT(30), ZenonT(30)
    <3>6. Responses(Tail(stdout[g])) = {}
      BY <1>6, <3>5, Zenon
    <3>7. QED
      BY <1>2, <1>5, <3>3, <3>5, <3>6, Zenon
  <2> HIDE DEF m
  <2>6. SerialUnlessTroubled'
    BY <1>2, <1>5, <1>9, <2>4, <2>5, EndedSerial, Zenon DEF CauseInv
  <2>7. Classify(t, m) = "mismatch" => g \in trouble
    BY <2>2, <2>5, Zenon DEF Classify
  <2>8. MismatchHasCause'
    BY <1>9, <2>4, <2>7, EndedReported, ReportedCause, Zenon DEF CauseInv
  <2>9. QED
    BY <2>6, <2>8
<1>10. QED
  BY <1>4, <1>7, <1>8, <1>9, Zenon DEF Received

\* What a reduced pipe holds was there before.
LEMMA PipesAsked ==
  ASSUME McpInv, PipesReduced
  PROVE  \A g \in Gens :
           /\ \A i \in Requests(stdin'[g]) : \E j \in Requests(stdin[g]) : stdin'[g][i] = stdin[g][j]
           /\ \A i \in Responses(stdout'[g]) : \E j \in Responses(stdout[g]) : stdout'[g][i] = stdout[g][j]
<1> SUFFICES ASSUME NEW g \in Gens
             PROVE  /\ \A i \in Requests(stdin'[g]) :
                         \E j \in Requests(stdin[g]) : stdin'[g][i] = stdin[g][j]
                    /\ \A i \in Responses(stdout'[g]) :
                         \E j \in Responses(stdout[g]) : stdout'[g][i] = stdout[g][j]
  BY Zenon
<1>1. stdin[g] \in Seq(ToServer) /\ stdout[g] \in Seq(ToClient)
  BY DEF McpInv, McpTypes
<1>2. /\ Reduced(ToServer, stdin[g], stdin'[g])
      /\ Reduced(ToClient, stdout[g], stdout'[g])
  BY DEF PipesReduced
<1>3. (\E d \in {0, 1} : Behind(stdin'[g], stdin[g], d)) /\ (\E d \in {0, 1} : Behind(stdout'[g], stdout[g], d))
  BY <1>1, <1>2, ReducedBehind, ZenonT(30)
<1>4. QED
  BY ONLY <1>3, Zenon DEF Behind

\* A step that is about no request does not disturb the order of a connection.
LEMMA QuietSerial ==
  ASSUME McpInv, CauseInv, PipesReduced, setup' = setup, broken' = broken, trouble \subseteq trouble',
         \A g \in Gens : closed[g] => closed'[g],
         \A t \in Threads :
           /\ pc'[t] \in Identified => pc[t] \in Identified /\ req'[t].gen = req[t].gen
           /\ pc[t] = "wait" => pc'[t] = "wait" /\ req'[t].gen = req[t].gen /\ req'[t].id = req[t].id,
         \A t \in Workers : outcome'[t] = outcome[t] \/ outcome'[t].kind = "none"
  PROVE  SerialUnlessTroubled' /\ MismatchHasCause'
<1>1. StillAsked
  BY PipesAsked, Zenon DEF StillAsked
<1>2. MismatchHasCause'
  BY Zenon DEF CauseInv, MismatchHasCause
<1>3. QED
  BY <1>1, <1>2, StillSerial DEF CauseInv

\* The order of a connection after a step, said of each connection.
LEMMA SerialNext ==
  ASSUME \A h \in Gens \ trouble' :
           /\ ~broken'[h]
           /\ \A u, v \in Threads :
                /\ pc'[u] \in Identified /\ pc'[v] \in Identified /\ req'[u].gen = h /\ req'[v].gen = h
                => u = v
           /\ ~(closed'[h] /\ setup'.kind = "sse") =>
                /\ \A i \in Requests(stdin'[h]) : AwaitedNext(h, stdin'[h][i].id)
                /\ \A i \in Responses(stdout'[h]) : AwaitedNext(h, stdout'[h][i].id)
  PROVE  SerialUnlessTroubled'
BY Zenon DEF SerialUnlessTroubled, Awaited, AwaitedNext

LEMMA TakeIdCause ==
  ASSUME McpInv, CauseInv, NEW t \in Threads, TakeId(t)
  PROVE  SerialUnlessTroubled' /\ MismatchHasCause'
<1> DEFINE g == req[t].gen
<1>1. /\ pc[t] = "id" /\ pc' = [pc EXCEPT ![t] = "send"] /\ req' = [req EXCEPT ![t].id = nextId[g]]
      /\ trouble' = IF InRequest(g) # {t} THEN trouble \cup {g} ELSE trouble
      /\ UNCHANGED <<setup, stdin, stdout, closed, broken, outcome>>
  BY DEF TakeId, NextId, Goto, transport
<1>2. \A u \in Threads : /\ pc'[u] = IF u = t THEN "send" ELSE pc[u]
                         /\ req'[u].gen = req[u].gen
                         /\ u # t => req'[u].id = req[u].id
  BY <1>1 DEF McpInv, McpTypes
<1>3. trouble \subseteq trouble'
  BY <1>1
<1>4. g \notin trouble' => \A u \in Threads : pc[u] \in Identified /\ req[u].gen = g => u = t
  BY <1>1 DEF InRequest, Identified, Waiting
<1>5. \A h \in Gens : \A id : Awaited(h, id) => AwaitedNext(h, id)
  BY <1>1, <1>2 DEF Awaited, AwaitedNext
<1>6. ASSUME NEW h \in Gens \ trouble', NEW u \in Threads, NEW v \in Threads,
             pc'[u] \in Identified, pc'[v] \in Identified, req'[u].gen = h, req'[v].gen = h
      PROVE  u = v
  <2>1. req[u].gen = h /\ req[v].gen = h /\ h \in Gens \ trouble
    BY <1>2, <1>3, <1>6, Zenon
  <2>2. (u # t => pc[u] \in Identified) /\ (v # t => pc[v] \in Identified)
    BY <1>2, <1>6
  <2>3. CASE u # t /\ v # t
    BY <2>1, <2>2, <2>3, Zenon DEF CauseInv, SerialUnlessTroubled
  <2>4. CASE u = t \/ v = t
    BY <1>4, <1>6, <2>1, <2>2, <2>4, Zenon
  <2>5. QED
    BY <2>3, <2>4
<1>7. ASSUME NEW h \in Gens \ trouble', ~(closed[h] /\ setup.kind = "sse")
      PROVE  /\ \A i \in Requests(stdin[h]) : AwaitedNext(h, stdin[h][i].id)
             /\ \A i \in Responses(stdout[h]) : AwaitedNext(h, stdout[h][i].id)
  BY <1>3, <1>5, <1>7, Zenon DEF CauseInv, SerialUnlessTroubled
<1>8. SerialUnlessTroubled'
  <2>1. \A h \in Gens \ trouble' : ~broken[h]
    BY <1>3, Zenon DEF CauseInv, SerialUnlessTroubled
  <2>2. setup' = setup /\ stdin' = stdin /\ stdout' = stdout /\ closed' = closed /\ broken' = broken
    BY <1>1
  <2>3. QED
    BY <1>6, <1>7, <2>1, <2>2, SerialNext, Zenon
<1>9. MismatchHasCause'
  BY <1>1, <1>3 DEF CauseInv, MismatchHasCause
<1>10. QED
  BY <1>8, <1>9

LEMMA WrittenCause ==
  ASSUME McpInv, CauseInv, NEW t \in Threads, pc[t] = "send", Written(t),
         UNCHANGED <<setup, stdout, closed, broken, trouble>>
  PROVE  SerialUnlessTroubled' /\ MismatchHasCause'
<1> DEFINE g == req[t].gen
           m == Request(t)
<1>1. pc[t] \in Busy /\ pc[t] \in Identified
  BY DEF Busy, Identified, Waiting
<1>2. g \in Gens /\ stdin[g] \in Seq(ToServer)
  BY <1>1, Zenon DEF McpInv, McpTypes, TokensIssued
<1>3. m \in ToServer /\ m.id = req[t].id
  <2>1. req[t].id \in Nat /\ req[t].tok \in Nat
    BY DEF McpInv, McpTypes
  <2>2. QED
    BY <2>1, Zenon DEF Request, ToServer, RequestMessage
<1>4. /\ pc' = [pc EXCEPT ![t] = "wait"] /\ stdin' = [stdin EXCEPT ![g] = Append(stdin[g], m)]
      /\ UNCHANGED <<outcome, req>>
  BY DEF Written, Goto
<1> HIDE DEF m
<1>5. \A i \in Requests(Append(stdin[g], m)) :
        \/ i \in Requests(stdin[g]) /\ Append(stdin[g], m)[i] = stdin[g][i]
        \/ Append(stdin[g], m)[i] = m
  <2> HIDE DEF g
  <2>1. stdin[g] \in Seq(ToServer) /\ m \in ToServer
    BY <1>2, <1>3, Zenon
  <2>2. \A i \in Requests(Append(stdin[g], m)) :
          \/ i \in Requests(stdin[g]) /\ Append(stdin[g], m)[i] = stdin[g][i]
          \/ i = Len(stdin[g]) + 1 /\ Append(stdin[g], m)[i] = m /\ m.type = "request"
    BY ONLY <2>1, QueueAppend, Zenon
  <2>3. QED
    BY ONLY <2>2, Zenon
<1>6. \A h \in Gens : \A i \in Requests(stdin'[h]) :
        \/ i \in Requests(stdin[h]) /\ stdin'[h][i] = stdin[h][i]
        \/ h = g /\ stdin'[h][i] = m
  <2>1. \A h \in Gens : stdin'[h] = IF h = g THEN Append(stdin[g], m) ELSE stdin[h]
    BY <1>4 DEF McpInv, McpTypes
  <2> HIDE DEF g
  <2>2. QED
    BY ONLY <1>5, <2>1, Zenon
<1>7. \A u \in Threads : pc'[u] = (IF u = t THEN "wait" ELSE pc[u]) /\ req'[u] = req[u]
  BY <1>4 DEF McpInv, McpTypes
<1>8. \A h \in Gens : \A id : Awaited(h, id) \/ (h = g /\ id = req[t].id) => AwaitedNext(h, id)
  BY <1>7, ZenonT(30) DEF Awaited, AwaitedNext
<1>9. \A h \in Gens \ trouble : \A u, v \in Threads :
        /\ pc'[u] \in Identified /\ pc'[v] \in Identified /\ req'[u].gen = h /\ req'[v].gen = h
        => u = v
  BY <1>1, <1>7 DEF CauseInv, SerialUnlessTroubled
<1>10. ASSUME NEW h \in Gens \ trouble, ~(closed[h] /\ setup.kind = "sse")
       PROVE  /\ \A i \in Requests(stdin'[h]) : AwaitedNext(h, stdin'[h][i].id)
              /\ \A i \in Responses(stdout[h]) : AwaitedNext(h, stdout[h][i].id)
  <2>1. /\ \A i \in Requests(stdin[h]) : Awaited(h, stdin[h][i].id)
        /\ \A i \in Responses(stdout[h]) : Awaited(h, stdout[h][i].id)
    BY <1>10, Zenon DEF CauseInv, SerialUnlessTroubled
  <2> HIDE DEF g
  <2>2. QED
    BY ONLY <1>3, <1>6, <1>8, <2>1, h \in Gens, ZenonT(30)
<1>11. SerialUnlessTroubled'
  <2>1. \A h \in Gens \ trouble : ~broken[h]
    BY Zenon DEF CauseInv, SerialUnlessTroubled
  <2>2. setup' = setup /\ stdout' = stdout /\ closed' = closed /\ broken' = broken /\ trouble' = trouble
    BY Zenon
  <2>3. QED
    BY <1>9, <1>10, <2>1, <2>2, SerialNext, Zenon
<1>12. MismatchHasCause'
  BY <1>4 DEF CauseInv, MismatchHasCause
<1>13. QED
  BY <1>11, <1>12

\* Opening, closing and finishing a connection only ever shorten its pipes or
\* put the notification into them.
LEMMA OwnerPipes ==
  ASSUME McpInv, FinishHandshake \/ Close \/ MarkClosed \/ FinishClose
  PROVE  PipesReduced
<1>0. stdin \in [Gens -> Seq(ToServer)] /\ Initialized \in ToServer
  BY DEF McpInv, McpTypes, ToServer
<1>1. stdout' = stdout
  BY DEF FinishHandshake, Close, MarkClosed, FinishClose, transport
<1>2. \E h : \/ stdin' = stdin
             \/ stdin' = [stdin EXCEPT ![h] = <<>>]
             \/ stdin' = [stdin EXCEPT ![h] = Append(@, Initialized)]
  BY DEF FinishHandshake, Close, MarkClosed, FinishClose, transport, Terminate, Notify
<1>3. \A k \in Gens : \/ stdin'[k] = stdin[k]
                      \/ stdin'[k] = <<>>
                      \/ stdin'[k] = Append(stdin[k], Initialized)
  BY <1>0, <1>2
<1>4. Initialized.type \notin {"request", "response"}
  BY DEF Initialized
<1>5. QED
  BY <1>0, <1>1, <1>3, <1>4, Zenon DEF PipesReduced, Reduced

LEMMA OwnerCause ==
  ASSUME McpInv, CauseInv, FinishHandshake \/ Close \/ MarkClosed \/ FinishClose
  PROVE  SerialUnlessTroubled' /\ MismatchHasCause'
<1>0. Owner \in Threads /\ Owner \notin Workers
  BY McpAssumption DEF Threads
<1>1. setup' = setup /\ broken' = broken /\ outcome' = outcome /\ trouble' = trouble
  BY DEF FinishHandshake, Close, MarkClosed, FinishClose, transport, threads
<1>2. \A g \in Gens : closed[g] => closed'[g]
  BY SMTT(30), ZenonT(30) DEF McpInv, McpTypes, FinishHandshake, Close, MarkClosed, FinishClose, transport
<1>3. /\ pc[Owner] \notin Identified /\ pc'[Owner] \notin Identified
      /\ \A t \in Threads \ {Owner} : pc'[t] = pc[t] /\ req'[t] = req[t]
  BY <1>0 DEF FinishHandshake, Close, MarkClosed, FinishClose, Goto, threads, McpInv, McpTypes, Identified
<1>4. \A t \in Threads :
        /\ pc'[t] \in Identified => pc[t] \in Identified /\ req'[t].gen = req[t].gen
        /\ pc[t] = "wait" => pc'[t] = "wait" /\ req'[t].gen = req[t].gen /\ req'[t].id = req[t].id
  BY <1>3 DEF Identified
<1>5. QED
  BY <1>1, <1>2, <1>4, OwnerPipes, QuietSerial, Zenon

\* The server's steps: an answer has the id of the request it is taken for.
LEMMA ServerCause ==
  ASSUME McpInv, CauseInv, NEW g \in Gens, Serve(g) \/ MakeNoise(g) \/ Die(g)
  PROVE  SerialUnlessTroubled' /\ MismatchHasCause'
<1>0. /\ stdin \in [Gens -> Seq(ToServer)] /\ stdout \in [Gens -> Seq(ToClient)]
      /\ Progress \in ToClient /\ Garbage \in ToClient
  BY DEF McpInv, McpTypes, ToClient
<1>1. UNCHANGED <<setup, broken, trouble, outcome, closed, pc, req>>
  BY DEF Serve, MakeNoise, Die, threads
<1>2. CASE PipesReduced
  <2>1. /\ \A t \in Threads : pc'[t] = pc[t] /\ req'[t] = req[t]
        /\ \A t \in Workers : outcome'[t] = outcome[t]
    BY <1>1
  <2>2. QED
    BY <1>1, <1>2, <2>1, QuietSerial, ZenonT(30)
<1>3. CASE MakeNoise(g)
  <2>1. PICK m \in {Progress, Garbage} : stdout' = [stdout EXCEPT ![g] = Append(stdout[g], m)]
    BY <1>3, Zenon DEF MakeNoise
  <2>2. stdin' = stdin
    BY <1>3 DEF MakeNoise
  <2>3. m \in ToClient /\ m.type \notin {"request", "response"}
    BY <1>0 DEF Progress, Garbage
  <2>4. \A h \in Gens : stdout'[h] = IF h = g THEN Append(stdout[g], m) ELSE stdout[h]
    BY <1>0, <2>1
  <2>5. PipesReduced
    BY ONLY <2>2, <2>3, <2>4, Zenon DEF PipesReduced, Reduced
  <2>6. QED
    BY <1>2, <2>5
<1>4. CASE Die(g)
  <2>1. stdin' = [stdin EXCEPT ![g] = <<>>] /\ stdout' = stdout
    BY <1>4 DEF Die
  <2>2. \A h \in Gens : stdin'[h] = stdin[h] \/ stdin'[h] = <<>>
    BY <1>0, <2>1
  <2>3. PipesReduced
    BY ONLY <2>1, <2>2, Zenon DEF PipesReduced, Reduced
  <2>4. QED
    BY <1>2, <2>3
<1>5. CASE Serve(g)
  <2> DEFINE m == Head(stdin[g])
  <2>1. stdin[g] # <<>> /\ stdin' = [stdin EXCEPT ![g] = Tail(@)]
    BY <1>5 DEF Serve
  <2>2. CASE HandleNotification(g, m)
    <3>1. stdout' = stdout
      BY <2>2 DEF HandleNotification
    <3>2. \A h \in Gens : stdin'[h] = IF h = g THEN Tail(stdin[g]) ELSE stdin[h]
      BY <1>0, <2>1
    <3>3. PipesReduced
      BY ONLY <2>1, <3>1, <3>2, Zenon DEF PipesReduced, Reduced
    <3>4. QED
      BY <1>2, <3>3
  <2>3. ASSUME NEW status \in {"ok", "notready", "toolerror"}, m.type = "request", Reply(g, m, status)
        PROVE  SerialUnlessTroubled' /\ MismatchHasCause'
    <3>1. Moved(g, m, Response(m, status))
      BY <2>1, <2>3, AnswerMoves, Zenon
    <3>2. Response(m, status).id = m.id
      BY Zenon DEF Response
    <3> HIDE DEF m
    <3>3. \A h \in Gens :
            /\ \A i \in Requests(stdin'[h]) :
                 \E j \in Requests(stdin[h]) : stdin'[h][i].id = stdin[h][j].id
            /\ \A i \in Responses(stdout'[h]) :
                 \/ \E j \in Responses(stdout[h]) : stdout'[h][i].id = stdout[h][j].id
                 \/ \E j \in Requests(stdin[h]) : stdout'[h][i].id = stdin[h][j].id
      BY ONLY <3>1, <3>2, ZenonT(30) DEF Moved
    <3>4. /\ setup' = setup /\ broken' = broken /\ trouble' = trouble /\ closed' = closed
          /\ pc' = pc /\ req' = req /\ outcome' = outcome
      BY <1>1
    <3>5. StillAsked
      BY <3>3, <3>4, Zenon DEF StillAsked
    <3>6. MismatchHasCause'
      BY <3>4 DEF CauseInv, MismatchHasCause
    <3>7. QED
      BY <3>5, <3>6, StillSerial DEF CauseInv
  <2>4. CASE OnInitialize(g, m)
    BY <2>3, <2>4 DEF OnInitialize
  <2>5. CASE OnToolsCall(g, m)
    BY <2>3, <2>5, Zenon DEF OnToolsCall, Status
  <2>6. QED
    BY <1>5, <2>2, <2>4, <2>5 DEF Serve, HandleMessage
<1>6. QED
  BY <1>3, <1>4, <1>5

LEMMA CauseStep ==
  ASSUME McpInv, CauseInv, [Next]_vars
  PROVE  CauseInv'
<1> DEFINE Goal == SerialUnlessTroubled' /\ MismatchHasCause'
<1>1. ASSUME UNCHANGED <<setup, stdin, stdout, closed, broken>>, trouble \subseteq trouble',
             \A t \in Threads :
               /\ pc'[t] \in Identified => pc[t] \in Identified /\ req'[t].gen = req[t].gen
               /\ pc[t] = "wait" =>
                    pc'[t] = "wait" /\ req'[t].gen = req[t].gen /\ req'[t].id = req[t].id,
             \A t \in Workers : outcome'[t] = outcome[t] \/ outcome'[t].kind = "none"
      PROVE  Goal
  <2>1. PipesReduced
    BY <1>1, KeepsQueue, Zenon DEF PipesReduced
  <2>2. QED
    BY <1>1, <2>1, QuietSerial, Zenon
<1>2. ASSUME UNCHANGED vars PROVE Goal
  BY <1>1, <1>2, Zenon DEF vars, transport, threads
<1>3. ASSUME NEW t \in Threads, NEW g, Issue(t, g), pc[t] \notin Busy,
             UNCHANGED <<setup, stdin, stdout, closed, broken, trouble>>,
             outcome' = outcome \/ outcome' = [outcome EXCEPT ![t] = NoOutcome]
      PROVE  Goal
  <2>1. /\ pc'[t] \in {"lock", "id"} /\ pc[t] # "wait"
        /\ \A u \in Threads \ {t} : pc'[u] = pc[u] /\ req'[u] = req[u]
    BY <1>3, ZenonT(30) DEF Issue, Goto, McpInv, McpTypes, Busy, Waiting
  <2>2. \A u \in Workers : outcome'[u] = outcome[u] \/ outcome'[u].kind = "none"
    BY <1>3 DEF NoOutcome, McpInv, McpTypes
  <2>3. QED
    BY <1>1, <1>3, <2>1, <2>2, Zenon DEF Identified
<1>4. ASSUME NEW t \in Workers, CallTool(t) PROVE Goal
  BY <1>3, <1>4, Zenon DEF CallTool, transport, Threads, Busy, Waiting
<1>5. ASSUME Connect PROVE Goal
  BY <1>3, <1>5, ZenonT(30) DEF Connect, Threads, Busy, Waiting
<1>6. ASSUME NEW t \in Threads, TakeLock(t) PROVE Goal
  <2>1. /\ pc[t] = "lock" /\ pc' = [pc EXCEPT ![t] = "id"] /\ req' = req /\ outcome' = outcome
        /\ UNCHANGED <<setup, stdin, stdout, closed, broken, trouble>>
    BY <1>6, Zenon DEF TakeLock, Goto, transport
  <2>2. QED
    BY <1>1, <2>1 DEF McpInv, McpTypes, Identified
<1>7. ASSUME NEW t \in Workers, CancelAwait(t) PROVE Goal
  <2>1. /\ UNCHANGED <<setup, stdin, stdout, closed, broken, outcome>>
        /\ trouble \subseteq trouble'
    BY <1>7 DEF CancelAwait, transport
  <2>2. /\ \A u \in Threads \ {t} : pc'[u] = pc[u] /\ req'[u] = req[u]
        /\ \/ pc'[t] = "idle" /\ pc[t] = "lock"
           \/ pc'[t] = pc[t] /\ req'[t].gen = req[t].gen /\ req'[t].id = req[t].id
    BY <1>7 DEF CancelAwait, Goto, McpInv, McpTypes, Threads
  <2>3. QED
    BY <1>1, <2>1, <2>2, Zenon DEF Identified
<1>8. ASSUME NEW t \in Threads, SendStdio(t) \/ SendSse(t) PROVE Goal
  <2>1. /\ pc[t] = "send" /\ UNCHANGED <<setup, stdout, closed, broken, trouble>>
        /\ (Return(t, "failed") /\ stdin' = stdin) \/ Written(t)
    BY <1>8, Zenon DEF SendStdio, SendSse
  <2>2. QED
    BY <2>1, SendCause, WrittenCause
<1>9. ASSUME SseOpenFails PROVE Goal
  <2>0. PICK t \in Threads : t = Owner
    BY DEF Threads
  <2>1. /\ pc[t] = "send" /\ UNCHANGED <<setup, stdin, stdout, closed, broken, trouble>>
        /\ Return(t, "failed")
    BY <1>9, <2>0 DEF SseOpenFails, transport
  <2>2. QED
    BY <2>1, SendCause
<1>10. ASSUME NEW t \in Threads, pc[t] = "wait", Return(t, "failed"),
              UNCHANGED <<setup, stdin, stdout, closed>>, trouble \subseteq trouble',
              \A h \in Gens \ {req[t].gen} : broken'[h] = broken[h],
              \/ req[t].gen \in trouble'
              \/ /\ broken' = broken
                 /\ \/ closed[req[t].gen] /\ setup.kind = "sse"
                    \/ StreamEnded(req[t].gen)
       PROVE  Goal
  <2> DEFINE g == req[t].gen
  <2>1. pc[t] \in Busy
    BY <1>10, SMTT(30), ZenonT(30) DEF Busy, Waiting
  <2>2. g \in Gens
    BY <2>1, SMTT(30), ZenonT(30) DEF McpInv, TokensIssued
  <2>3. RequestEnded(t, "failed")
    BY <1>10, ReturnEnds DEF McpInv, Kinds
  <2>4. StreamEnded(g) => Requests(stdin[g]) = {} /\ Responses(stdout[g]) = {}
    BY <2>2, QueueEmpty DEF StreamEnded, CauseInv, DeadReadsNothing
  <2>5. SerialUnlessTroubled'
    BY <1>10, <2>2, <2>3, <2>4, EndedSerial, Zenon DEF CauseInv
  <2>6. MismatchHasCause'
    BY <1>10, <2>3, EndedReported, ReportedCause, Zenon DEF CauseInv
  <2>7. QED
    BY <2>5, <2>6, SMTT(30), ZenonT(30)
<1>11. ASSUME NEW t \in Threads, Timeout(t) PROVE Goal
  <2>1. /\ pc[t] = "wait" /\ Return(t, "failed") /\ trouble' = trouble \cup {req[t].gen}
        /\ UNCHANGED <<setup, stdin, stdout, closed>>
        /\ broken' = [broken EXCEPT ![req[t].gen] = @ \/ setup.kind = "sse"]
    BY <1>11, Zenon DEF Timeout
  <2>2. \A h \in Gens \ {req[t].gen} : broken'[h] = broken[h]
    BY <2>1, Zenon DEF McpInv, McpTypes
  <2>3. trouble \subseteq trouble' /\ req[t].gen \in trouble'
    BY <2>1, Zenon
  <2>4. QED
    BY <1>10, <2>1, <2>2, <2>3, Zenon
<1>12. ASSUME NEW t \in Threads, ReceiveStdio(t) \/ ReceiveSse(t) PROVE Goal
  <2>1. /\ pc[t] = "wait" /\ UNCHANGED <<setup, stdin, closed, broken>>
        /\ \/ /\ Return(t, "failed") /\ stdout' = stdout /\ trouble' = trouble
              /\ \/ StreamEnded(req[t].gen)
                 \/ setup.kind = "sse" /\ (closed[req[t].gen] \/ broken[req[t].gen])
           \/ /\ stdout[req[t].gen] # <<>> /\ Take(req[t].gen)
              /\ setup.kind = "sse" => ~closed[req[t].gen]
              /\ Received(t, Head(stdout[req[t].gen]))
    BY <1>12, Zenon DEF ReceiveStdio, ReceiveSse
  <2>2. req[t].gen \in Gens
    BY <2>1, Zenon DEF McpInv, TokensIssued, Busy, Waiting
  <2>3. broken[req[t].gen] => req[t].gen \in trouble
    BY <2>2, Zenon DEF CauseInv, SerialUnlessTroubled
  <2>4. CASE /\ Return(t, "failed") /\ stdout' = stdout /\ trouble' = trouble
             /\ \/ StreamEnded(req[t].gen)
                \/ setup.kind = "sse" /\ (closed[req[t].gen] \/ broken[req[t].gen])
    BY <1>10, <2>1, <2>3, <2>4, Zenon
  <2>5. CASE /\ stdout[req[t].gen] # <<>> /\ Take(req[t].gen)
             /\ setup.kind = "sse" => ~closed[req[t].gen]
             /\ Received(t, Head(stdout[req[t].gen]))
    BY <2>1, <2>5, ReceivedCause, ZenonT(30)
  <2>6. QED
    BY <2>1, <2>4, <2>5, Zenon
<1>13. Goal
  BY <1>2, <1>4, <1>5, <1>6, <1>7, <1>8, <1>9, <1>11, <1>12, TakeIdCause, OwnerCause, ServerCause
     DEF Next
<1>14. QED
  BY <1>13, DeadStep DEF CauseInv

\* A connection keeps its order, and says so when it has lost it.
LEMMA InitCause == Init => CauseInv
<1> SUFFICES ASSUME Init PROVE CauseInv
  OBVIOUS
<1>1. /\ stdin = [g \in Gens |-> <<>>] /\ stdout = [g \in Gens |-> <<>>]
      /\ broken = [g \in Gens |-> FALSE] /\ pc = [t \in Threads |-> "idle"]
      /\ outcome = [t \in Workers |-> NoOutcome]
  BY DEF Init
<1>2. \A g \in Gens : Requests(stdin[g]) = {} /\ Responses(stdout[g]) = {} /\ ~broken[g]
  BY <1>1, QueueEmpty
<1>3. \A t \in Threads : pc[t] \notin Identified
  BY <1>1 DEF Identified
<1>4. SerialUnlessTroubled
  BY <1>2, <1>3, ZenonT(30) DEF SerialUnlessTroubled
<1>5. DeadReadsNothing /\ MismatchHasCause
  BY <1>1 DEF DeadReadsNothing, MismatchHasCause, NoOutcome
<1>6. QED
  BY <1>4, <1>5 DEF CauseInv

-----------------------------------------------------------------------------
(* The results *)

(***************************************************************************)
(* The invariant behind the two results below, for any number of threads,  *)
(* connections and calls: a request is in one place at a time, ids are not *)
(* used twice on a connection, and a connection on which nothing went      *)
(* wrong holds one request and its answer (client.py _request, protocol.py *)
(* RequestIdGenerator, server.py serve_forever).                           *)
(***************************************************************************)
THEOREM McpInvariance == Spec => [](McpInv /\ cached \in Nat /\ CauseInv)
<1>1. Init => McpInv /\ cached \in Nat /\ CauseInv
  BY InitMcpInv, InitCause DEF Init
<1>2. McpInv /\ cached \in Nat /\ CauseInv /\ [Next]_vars
      => (McpInv /\ cached \in Nat /\ CauseInv)'
  BY McpStep, CauseStep
<1>3. QED
  BY <1>1, <1>2, PTL DEF Spec

(***************************************************************************)
(* A caller that is told its tool ran has had it run, exactly once, and    *)
(* one that is told it was refused has not, whatever other threads do on   *)
(* the client, whatever late answers are in the pipe and however often the *)
(* connection is replaced (client.py _request).                            *)
(***************************************************************************)
THEOREM AnswersAreOwn == Spec => []AnswerIsOwn
<1>1. McpInv => AnswerIsOwn
  BY DEF McpInv, OutcomesSettled, AnswerIsOwn
<1>2. QED
  BY <1>1, McpInvariance, PTL

(***************************************************************************)
(* A response is given to a caller it was not meant for only on a          *)
(* connection that has had a timeout, a concurrent or abandoned request or *)
(* a malformed line (client.py _request, registry.py reconnect).           *)
(***************************************************************************)
THEOREM MismatchAlwaysHasCause == Spec => []MismatchHasCause
<1>1. CauseInv => MismatchHasCause
  BY DEF CauseInv
<1>2. QED
  BY <1>1, McpInvariance, PTL
=============================================================================
