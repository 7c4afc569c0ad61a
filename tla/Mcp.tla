-------------------------------- MODULE Mcp --------------------------------
(***************************************************************************)
(* The MCP link: MCPServerRegistry, MCPClient / AsyncMCPClient, the stdio  *)
(* and SSE transports and MCPServer (kinetic_sdk/mcp/).                    *)
(*                                                                         *)
(* One owner thread connects, closes and reconnects.  Worker threads call  *)
(* tools through adapters, on the client the adapter was built with, which *)
(* may be one that has been closed since.  Every connection is a           *)
(* generation g with its own process (or SSE connection), pipes, reader    *)
(* queue, id generator and server state.  `setup` fixes the flavour of the *)
(* run: the transport, whether the client is the asyncio facade (callers   *)
(* take its lock and may be cancelled while their worker thread goes on),  *)
(* and who calls.                                                          *)
(*                                                                         *)
(* A request is a token: `executed` counts how often the server ran the    *)
(* tool for it.  Payloads, argument schemas and redaction are left out.    *)
(* The reader thread's queue and the pipe behind it are one sequence: a    *)
(* reader cannot tell a line that is still in the pipe from a slow server. *)
(***************************************************************************)
EXTENDS Naturals, Sequences, FiniteSets

CONSTANTS
  Workers,      \* threads that call tools
  Owner,        \* the thread that owns the registry
  None,         \* no thread
  Denied,       \* the workers whose tool the server's policy refuses
  Setups,       \* the set of run flavours [kind, locked, callers, stalls], each with
                \* its bounds: [calls] issued, handshakes included, and [noise]
  MaxGens       \* bound: connections made

ASSUME McpAssumption ==
  /\ Owner \notin Workers
  /\ \A s \in Setups : s.calls \in Nat

VARIABLES
  setup,
  proc,      \* generation -> "none" | "up" | "dead": the subprocess or the SSE peer
  stdin,     \* generation -> messages on their way to the server
  stdout,    \* generation -> messages the server wrote, not yet received
  closed,    \* generation -> Transport._closed
  broken,    \* generation -> an SSE read has timed out: the stream is unusable
  served,    \* generation -> MCPServer._state
  inited,    \* generation -> MCPClient._initialized
  nextId,    \* generation -> RequestIdGenerator._next
  lock,      \* generation -> holder of AsyncMCPClient._lock
  cached,    \* MCPServerRegistry._clients: the generation in use, or 0
  pc,        \* thread -> where it is in _request, connect or close
  req,       \* thread -> its request [gen, id, tok, abandoned]
  outcome,   \* worker -> how its last call ended [kind, gen, tok]
  executed,  \* token -> times the tool ran
  calls, noise,
  trouble    \* ghost: generations with a timeout, a concurrent or abandoned
             \* request or a malformed line

transport == <<proc, stdin, stdout, closed, broken>>
server == <<served, executed>>
client == <<inited, nextId, lock, cached>>
threads == <<pc, req, outcome>>
vars == <<setup, transport, server, client, threads, calls, noise, trouble>>

Threads == Workers \cup {Owner}
Gens == 1..MaxGens
Waiting == {"id", "send", "wait"}
NoReq == [gen |-> 0, id |-> 0, tok |-> 0, abandoned |-> FALSE]
NoOutcome == [kind |-> "none", gen |-> 0, tok |-> 0]

Request(t) == [type |-> "request", id |-> req[t].id, tok |-> req[t].tok,
               method |-> IF t = Owner THEN "initialize" ELSE "call",
               allowed |-> t \notin Denied]
Initialized == [type |-> "initialized"]
Response(m, status) == [type |-> "response", id |-> m.id, tok |-> m.tok, status |-> status]
Progress == [type |-> "notification"]
Garbage == [type |-> "garbage"]

Init ==
  /\ setup \in Setups
  /\ proc = [g \in Gens |-> "none"]
  /\ stdin = [g \in Gens |-> <<>>] /\ stdout = stdin
  /\ closed = [g \in Gens |-> FALSE] /\ broken = closed /\ inited = closed
  /\ served = [g \in Gens |-> "awaiting_initialize"]
  /\ nextId = [g \in Gens |-> 1] /\ lock = [g \in Gens |-> None] /\ cached = 0
  /\ pc = [t \in Threads |-> "idle"] /\ req = [t \in Threads |-> NoReq]
  /\ outcome = [t \in Workers |-> NoOutcome]
  /\ executed = [k \in 1..setup.calls |-> 0] /\ calls = 0 /\ noise = 0
  /\ trouble = {}

---------------------------------------------------------------------------
(* Requests: MCPClient._request and the facade's lock around it *)

\* The threads that are inside _request on generation g.
InRequest(g) == {t \in Threads : pc[t] \in Waiting /\ req[t].gen = g}

Goto(t, where) == pc' = [pc EXCEPT ![t] = where]

\* A new request of thread t on generation g; `async with self._lock` first
\* in the facade.
Issue(t, g) ==
  /\ calls < setup.calls
  /\ calls' = calls + 1
  /\ req' = [req EXCEPT ![t] = [gen |-> g, id |-> 0, tok |-> calls + 1,
                                abandoned |-> FALSE]]
  /\ Goto(t, IF setup.locked THEN "lock" ELSE "id")

\* call_tool: an adapter exists only for a client whose handshake completed.
CallTool(t) ==
  /\ t \in setup.callers /\ pc[t] = "idle"
  /\ \E g \in Gens : inited[g] /\ Issue(t, g)
  /\ outcome' = [outcome EXCEPT ![t] = NoOutcome]
  /\ UNCHANGED <<setup, transport, server, client, noise, trouble>>

\* asyncio.Lock: one coroutine at a time enters the synchronous client.
TakeLock(t) ==
  LET g == req[t].gen IN
  /\ pc[t] = "lock" /\ lock[g] = None
  /\ lock' = [lock EXCEPT ![g] = t]
  /\ Goto(t, "id")
  /\ UNCHANGED <<setup, transport, server, inited, nextId, cached, req, outcome, calls,
                 noise, trouble>>

\* Mutant: the id is read without being advanced (no lock in the generator).
NextId_Repeats(t) ==
  /\ req' = [req EXCEPT ![t].id = nextId[req[t].gen]]
  /\ nextId' = nextId

\* RequestIdGenerator.next
NextId(t) ==
  /\ req' = [req EXCEPT ![t].id = nextId[req[t].gen]]
  /\ nextId' = [nextId EXCEPT ![req[t].gen] = @ + 1]

TakeId(t) ==
  LET g == req[t].gen IN
  /\ pc[t] = "id"
  /\ NextId(t)
  /\ trouble' = IF InRequest(g) # {t} THEN trouble \cup {g} ELSE trouble
  /\ Goto(t, "send")
  /\ UNCHANGED <<setup, transport, server, inited, lock, cached, outcome, calls, noise>>

\* Mutant: the lock of the facade stays taken when the request raises.
Unlock_OnSuccessOnly(t, kind) ==
  lock' = [lock EXCEPT ![req[t].gen] = IF @ = t /\ kind = "ok" THEN None ELSE @]

\* `async with self._lock` ends when the request returns or raises; a cancelled
\* caller has already let go of it.
Unlock(t, kind) ==
  lock' = [lock EXCEPT ![req[t].gen] = IF @ = t THEN None ELSE @]

\* connect: a handshake that raises closes the transport.
AfterInitialize(kind) == IF kind = "ok" THEN "handshake" ELSE "closing"

\* MCPToolAdapter.execute: every failure becomes an error result; the result of
\* an abandoned call is dropped.
Report(t, kind) ==
  IF req[t].abandoned THEN NoOutcome ELSE [kind |-> kind, gen |-> req[t].gen, tok |-> req[t].tok]

\* _request returns or raises.
Return(t, kind) ==
  /\ Unlock(t, kind)
  /\ IF t = Owner
       THEN Goto(t, AfterInitialize(kind)) /\ UNCHANGED <<outcome, req>>
       ELSE /\ Goto(t, "idle")
            /\ req' = [req EXCEPT ![t] = NoReq]
            /\ outcome' = [outcome EXCEPT ![t] = Report(t, kind)]

\* The message goes to the server and the thread waits for the answer.
Written(t) ==
  /\ stdin' = [stdin EXCEPT ![req[t].gen] = Append(@, Request(t))]
  /\ Goto(t, "wait")
  /\ UNCHANGED <<lock, outcome, req>>

\* StdioTransport.send: refused when closed, a broken pipe when the child died.
SendStdio(t) ==
  LET g == req[t].gen IN
  /\ setup.kind = "stdio" /\ pc[t] = "send"
  /\ \/ (closed[g] \/ proc[g] = "dead") /\ Return(t, "failed") /\ UNCHANGED stdin
     \/ ~closed[g] /\ proc[g] = "up" /\ Written(t)
  /\ UNCHANGED <<setup, proc, stdout, closed, broken, server, inited, nextId, cached, calls, noise,
                 trouble>>

\* SSETransport.send: a POST on a connection of its own, so a broken event
\* stream does not stop it; the POST itself may fail.
SendSse(t) ==
  LET g == req[t].gen IN
  /\ setup.kind = "sse" /\ pc[t] = "send"
  /\ \/ Return(t, "failed") /\ UNCHANGED stdin
     \/ ~closed[g] /\ proc[g] = "up" /\ Written(t)
  /\ UNCHANGED <<setup, proc, stdout, closed, broken, server, inited, nextId, cached, calls, noise,
                 trouble>>

\* SSETransport._open, at the first send: no connection, a bad status, another
\* event than `endpoint` first, or none in time.
SseOpenFails ==
  /\ setup.kind = "sse" /\ pc[Owner] = "send"
  /\ Return(Owner, "failed")
  /\ UNCHANGED <<setup, transport, server, inited, nextId, cached, calls, noise, trouble>>

\* _request: what the response means for the thread that read it.
Classify(t, m) == IF m.id # req[t].id THEN "mismatch" ELSE m.status

\* Mutant: the message stays at the head of the queue.
Take_Peeks(g) == UNCHANGED stdout

\* Queue.get, or the next SSE event: the message is consumed.
Take(g) == stdout' = [stdout EXCEPT ![g] = Tail(@)]

\* decode: a response, a notification, or MCPProtocolError.
Decode(m) == IF m = Garbage THEN "error" ELSE m.type

\* _request: a notification keeps the caller waiting, a malformed line raises.
Received(t, m) ==
  \/ /\ Decode(m) = "notification"
     /\ UNCHANGED <<threads, lock, trouble>>
  \/ /\ Decode(m) = "error"
     /\ Return(t, "malformed")
     /\ trouble' = trouble \cup {req[t].gen}
  \/ /\ Decode(m) = "response"
     /\ Return(t, Classify(t, m))
     /\ UNCHANGED trouble

\* The end of the stream: the peer is gone and nothing is left to read.
StreamEnded(g) == stdout[g] = <<>> /\ proc[g] = "dead"

\* StdioTransport.receive: the next line, or _StreamEnd, put back for the next
\* reader.  A closed transport still delivers what was read before.
ReceiveStdio(t) ==
  LET g == req[t].gen IN
  /\ setup.kind = "stdio" /\ pc[t] = "wait"
  /\ \/ stdout[g] # <<>> /\ Take(g) /\ Received(t, Head(stdout[g]))
     \/ StreamEnded(g) /\ Return(t, "failed") /\ UNCHANGED <<stdout, trouble>>
  /\ UNCHANGED <<setup, proc, stdin, closed, broken, server, inited, nextId, cached, calls, noise>>

\* SSETransport.receive: the next message event; a stream that timed out once
\* cannot be read again.
ReceiveSse(t) ==
  LET g == req[t].gen IN
  /\ setup.kind = "sse" /\ pc[t] = "wait"
  /\ \/ ~closed[g] /\ ~broken[g] /\ stdout[g] # <<>> /\ Take(g) /\ Received(t, Head(stdout[g]))
     \/ /\ closed[g] \/ broken[g] \/ StreamEnded(g)
        /\ Return(t, "failed")
        /\ UNCHANGED <<stdout, trouble>>
  /\ UNCHANGED <<setup, proc, stdin, closed, broken, server, inited, nextId, cached, calls, noise>>

\* The deadline passes; the answer may still be on its way.
Timeout(t) ==
  LET g == req[t].gen IN
  /\ pc[t] = "wait"
  /\ Return(t, "failed")
  /\ trouble' = trouble \cup {g}
  /\ broken' = [broken EXCEPT ![g] = @ \/ setup.kind = "sse"]
  /\ UNCHANGED <<setup, proc, stdin, stdout, closed, server, inited, nextId, cached, calls, noise>>

\* The awaiting coroutine is cancelled (a tool timeout): the lock is released,
\* the worker thread keeps running the request.
CancelAwait(t) ==
  LET g == req[t].gen IN
  /\ setup.locked /\ t # Owner /\ pc[t] \in {"lock"} \cup Waiting /\ ~req[t].abandoned
  /\ IF pc[t] = "lock"
       THEN /\ Goto(t, "idle")
            /\ req' = [req EXCEPT ![t] = NoReq]
            /\ UNCHANGED <<lock, trouble>>
       ELSE /\ req' = [req EXCEPT ![t].abandoned = TRUE]
            /\ lock' = [lock EXCEPT ![g] = None]
            /\ trouble' = trouble \cup {g}
            /\ UNCHANGED pc
  /\ UNCHANGED <<setup, transport, server, inited, nextId, cached, outcome, calls, noise>>

---------------------------------------------------------------------------
(* The registry *)

\* The next unused generation.
Fresh(g) == proc[g] = "none" /\ \A h \in 1..(g - 1) : proc[h] # "none"

\* StdioTransport.__init__ starts the process; the SSE peer is simply there.
Spawn(g) == proc' = [proc EXCEPT ![g] = "up"]

\* connect: spawn the transport, then initialize().
Connect ==
  /\ \/ pc[Owner] = "idle" /\ cached = 0
     \/ pc[Owner] = "reopen"
  /\ \E g \in Gens :
       /\ Fresh(g)
       /\ Spawn(g)
       /\ Issue(Owner, g)
  /\ UNCHANGED <<setup, stdin, stdout, closed, broken, server, client, outcome, noise,
                 trouble>>

Notify(g) == stdin' = [stdin EXCEPT ![g] = Append(@, Initialized)]

\* initialize, last step: the notification; connect then caches the client.
\* When it cannot be sent the handshake has failed and connect closes.
FinishHandshake ==
  LET g == req[Owner].gen IN
  /\ pc[Owner] = "handshake"
  /\ \/ /\ proc[g] = "up"
        /\ Notify(g)
        /\ inited' = [inited EXCEPT ![g] = TRUE]
        /\ cached' = g
        /\ Goto(Owner, "idle")
     \/ /\ proc[g] = "dead" \/ setup.kind = "sse"
        /\ Goto(Owner, "closing")
        /\ UNCHANGED <<stdin, inited, cached>>
  /\ UNCHANGED <<setup, proc, stdout, closed, broken, server, nextId, lock, req, outcome,
                 calls, noise, trouble>>

\* close pops the client; reconnect goes on to connect.
Close ==
  /\ pc[Owner] = "idle" /\ cached # 0
  /\ req' = [req EXCEPT ![Owner] = [NoReq EXCEPT !.gen = cached]]
  /\ cached' = 0
  /\ Goto(Owner, "closing")
  /\ UNCHANGED <<setup, transport, server, inited, nextId, lock, outcome, calls, noise, trouble>>

\* Transport.close, first half: no more sends, the server's stdin is closed.
\* The facade does it under its lock.
MarkClosed ==
  LET g == req[Owner].gen IN
  /\ pc[Owner] = "closing" /\ ~closed[g] /\ lock[g] = None
  /\ closed' = [closed EXCEPT ![g] = TRUE]
  /\ lock' = [lock EXCEPT ![g] = IF setup.locked THEN Owner ELSE @]
  /\ UNCHANGED <<setup, proc, stdin, stdout, broken, server, inited, nextId, cached, threads, calls,
                 noise, trouble>>

\* terminate, wait, kill: the process is gone afterwards, or the SSE connection
\* is cut (what the remote server still does then has no reader).
Terminate(g) ==
  /\ proc' = [proc EXCEPT ![g] = "dead"]
  /\ stdin' = [stdin EXCEPT ![g] = <<>>]

\* reconnect: close() is followed by connect().
Reconnects == req[Owner].tok = 0 /\ (\E h \in Gens : Fresh(h)) /\ calls < setup.calls

\* Transport.close, second half; then connect raises, or reconnect connects.
FinishClose ==
  LET g == req[Owner].gen IN
  /\ pc[Owner] = "closing" /\ closed[g]
  /\ Terminate(g)
  /\ lock' = [lock EXCEPT ![g] = None]
  /\ (Goto(Owner, "idle") \/ (Reconnects /\ Goto(Owner, "reopen")))
  /\ UNCHANGED <<setup, stdout, closed, broken, server, inited, nextId, cached, req, outcome, calls,
                 noise, trouble>>

---------------------------------------------------------------------------
(* The server process *)

Reply(g, m, status) == stdout' = [stdout EXCEPT ![g] = Append(@, Response(m, status))]

\* _handle_notification
HandleNotification(g, m) ==
  /\ m.type = "initialized"
  /\ served' = [served EXCEPT ![g] = IF @ = "awaiting_notification" THEN "ready" ELSE @]
  /\ UNCHANGED <<stdout, executed>>

\* _on_initialize
OnInitialize(g, m) ==
  /\ m.type = "request" /\ m.method = "initialize"
  /\ served' = [served EXCEPT ![g] = "awaiting_notification"]
  /\ Reply(g, m, "ok")
  /\ UNCHANGED executed

\* _require_ready, then the permission policy.
Status(g, m) ==
  IF served[g] # "ready" THEN "notready" ELSE IF m.allowed THEN "ok" ELSE "toolerror"

\* _on_tools_call
OnToolsCall(g, m) ==
  /\ m.type = "request" /\ m.method = "call"
  /\ Reply(g, m, Status(g, m))
  /\ executed' = [executed EXCEPT ![m.tok] = @ + IF Status(g, m) = "ok" THEN 1 ELSE 0]
  /\ UNCHANGED served

\* handle_message
HandleMessage(g, m) == HandleNotification(g, m) \/ OnInitialize(g, m) \/ OnToolsCall(g, m)

\* serve_forever: receive, handle, send.
Serve(g) ==
  /\ proc[g] = "up" /\ stdin[g] # <<>>
  /\ stdin' = [stdin EXCEPT ![g] = Tail(@)]
  /\ HandleMessage(g, Head(stdin[g]))
  /\ UNCHANGED <<setup, proc, closed, broken, client, threads, calls, noise, trouble>>

\* A server of another make may send progress, or a line that is not JSON-RPC.
MakeNoise(g) ==
  /\ proc[g] = "up" /\ noise < setup.noise
  /\ noise' = noise + 1
  /\ \E m \in {Progress, Garbage} : stdout' = [stdout EXCEPT ![g] = Append(@, m)]
  /\ UNCHANGED <<setup, proc, stdin, closed, broken, server, client, threads, calls, trouble>>

\* The process crashes, or ends because its stdin was closed.
Die(g) ==
  /\ proc[g] = "up"
  /\ proc' = [proc EXCEPT ![g] = "dead"]
  /\ stdin' = [stdin EXCEPT ![g] = <<>>]
  /\ UNCHANGED <<setup, stdout, closed, broken, server, client, threads, calls, noise,
                 trouble>>

---------------------------------------------------------------------------
Next ==
  \/ \E t \in Workers : CallTool(t) \/ CancelAwait(t)
  \/ \E t \in Threads : TakeLock(t) \/ TakeId(t) \/ SendStdio(t) \/ SendSse(t)
                        \/ ReceiveStdio(t) \/ ReceiveSse(t) \/ Timeout(t)
  \/ SseOpenFails \/ Connect \/ FinishHandshake \/ Close \/ MarkClosed \/ FinishClose
  \/ \E g \in Gens : Serve(g) \/ MakeNoise(g) \/ Die(g)

Spec == Init /\ [][Next]_vars

(***************************************************************************)
(* A peer that stalls can hold up a call of the transport for ever, which  *)
(* no deadline ends: a write to a pipe it does not read (transport.py:202), *)
(* the read of a stderr that a child of it keeps open (242), an event      *)
(* stream it keeps alive with comments (377-387) or unknown events         *)
(* (447-454), a reply to a POST that trickles (432).                       *)
(***************************************************************************)
Held == setup.stalls

\* Threads run, and a deadline that is due passes unless the peer stalls.
\* Nothing else is assumed of the server: it may never answer.
Fairness ==
  /\ \A t \in Threads : /\ SF_vars(TakeLock(t)) /\ WF_vars(TakeId(t))
                        /\ WF_vars(~Held /\ Timeout(t))
                        /\ WF_vars(~Held /\ SendStdio(t)) /\ WF_vars(~Held /\ SendSse(t))
  /\ WF_vars(~Held /\ FinishHandshake) /\ SF_vars(MarkClosed) /\ WF_vars(FinishClose)

FairSpec == Spec /\ Fairness

---------------------------------------------------------------------------
(* Properties *)

\* A worker that is told a call succeeded got the answer to that call: the tool
\* ran for it, exactly once, whatever late, foreign or abandoned responses were
\* in the pipe (client.py _request compares ids; RequestIdGenerator never
\* repeats one).  A call reported as refused by the server did not run.
AnswerIsOwn ==
  \A t \in Workers :
    /\ outcome[t].kind = "ok" => executed[outcome[t].tok] = 1
    /\ outcome[t].kind = "toolerror" => executed[outcome[t].tok] = 0

\* Responses go to the wrong reader only on a connection with a history: a
\* timeout, an abandoned or concurrent request or a malformed line on that same
\* generation.  Serial, timely calls are never disturbed, and a reconnect starts
\* clean (client.py _request, registry.py reconnect).
MismatchHasCause ==
  \A t \in Workers : outcome[t].kind = "mismatch" => outcome[t].gen \in trouble

\* Every request ends unless its peer stalls: nobody waits for the facade's lock
\* or for a dead or silent server for ever, whatever was cancelled, timed out or
\* closed before (client.py _request deadline, async_client.py lock).
CallsReturn == \A t \in Workers : pc[t] # "idle" /\ ~Held ~> pc[t] = "idle"
=============================================================================
