------------------------------- MODULE Server -------------------------------
(***************************************************************************)
(* AgentServer (kinetic_sdk/server/app.py): one handler thread per HTTP    *)
(* request, the run records, the cached session agents with their idle     *)
(* time-out, the per-client rate limiter, and the draining stop().         *)
(*                                                                         *)
(* There is one lock.  It guards every table, it is the lock of the drain  *)
(* condition, and a run on a session agent holds it from start to end; all *)
(* other critical sections are one step of this module, taken when the     *)
(* lock is free.  A request is a handler and a kind; messages, schemas and *)
(* bodies are left out, and an agent run is a step that begins and one     *)
(* that ends, completed or failed (AgentLoop is about what is in between). *)
(***************************************************************************)
EXTENDS Naturals, Sequences, FiniteSets, Functions

CONSTANTS
  Handlers,       \* handler threads, one per request
  None,           \* nobody holds the lock; no agent
  MaxConcurrent,  \* max_concurrent_requests
  MaxRunRecords,  \* max_runs
  RateWindow,     \* the limiter's sixty seconds, in ticks
  MaxNow,         \* bound: clock ticks
  Settings        \* [kind, stalls, limit, ttl]: what each request asks, the handlers
                  \* whose client may stop sending and reading, and the limiter and
                  \* session_ttl, 0 when they are not configured

ASSUME ServerAssumption ==
  /\ MaxConcurrent \in Nat \ {0} /\ MaxRunRecords \in Nat \ {0} /\ RateWindow \in Nat \ {0}
  /\ None \notin Handlers

VARIABLES
  settings,
  lock,       \* the handler whose session run holds _lock, or None
  stopping,   \* _stopping
  inflight,   \* _in_flight_requests, and the slots taken
  runRecords, \* _runs: the handlers whose run record can be looked up
  order,      \* _run_order
  session,    \* the cached agent of the one session id, or None
  activity,   \* its _session_activity, or None
  times,      \* _request_times of the one client
  clock,      \* time.monotonic()
  place,      \* handler -> where it is
  stamp,      \* handler -> the clock value it read for the limiter
  agent,      \* handler -> the agent it runs on, named after its maker, or None
  reply,      \* handler -> the status it sent
  stopper     \* stop(): "off", "drain", "done", or "gave_up"

tables == <<runRecords, order, session, activity, times>>
handlers == <<place, stamp, agent, reply>>
serverVars == <<settings, lock, stopping, inflight, tables, clock, handlers, stopper>>

Runs == {"run", "session", "openai"}
Accepted == {"limit", "window", "dispatch", "record", "make", "start", "running", "store",
             "finish"}

ServerInit ==
  /\ settings \in Settings
  /\ lock = None /\ stopping = FALSE /\ inflight = 0
  /\ runRecords = {} /\ order = <<>> /\ session = None /\ activity = None /\ times = <<>>
  /\ clock = 0
  /\ place = [h \in Handlers |-> "new"]
  /\ stamp = [h \in Handlers |-> 0] /\ agent = [h \in Handlers |-> None]
  /\ reply = [h \in Handlers |-> "none"]
  /\ stopper = "off"

MoveTo(h, where) == place' = [place EXCEPT ![h] = where]

Answer(h, status) == reply' = [reply EXCEPT ![h] = status]

---------------------------------------------------------------------------
(* Admission: _begin_request, _allow_request, _finish_request *)

\* Mutant: the drain marker is not looked at.
Refused_IgnoresDrain == inflight >= MaxConcurrent

Refused == stopping \/ inflight >= MaxConcurrent

\* _begin_request: 503 while stopping or when every slot is taken.
Begin(h) ==
  /\ place[h] = "new" /\ lock = None
  /\ IF Refused
       THEN MoveTo(h, "done") /\ Answer(h, "503") /\ UNCHANGED inflight
       ELSE /\ MoveTo(h, IF settings.limit = 0 THEN "dispatch" ELSE "limit")
            /\ inflight' = inflight + 1
            /\ UNCHANGED reply
  /\ UNCHANGED <<settings, lock, stopping, tables, clock, stamp, agent, stopper>>

\* _allow_request reads the clock before it has the lock.
ReadClock(h) ==
  /\ place[h] = "limit"
  /\ stamp' = [stamp EXCEPT ![h] = clock]
  /\ MoveTo(h, "window")
  /\ UNCHANGED <<settings, lock, stopping, inflight, tables, clock, agent, reply, stopper>>

\* The stamps still inside the window that ends at clock value t: popleft
\* stops at the first one that is.
InWindow(t) ==
  LET stale(i) == \A j \in 1..i : times[j] + RateWindow <= t
  IN  SubSeq(times, Cardinality({i \in 1..Len(times) : stale(i)}) + 1, Len(times))

\* _allow_request under the lock: 429, or the stamp is added.
Allow(h) ==
  LET recent == InWindow(stamp[h]) IN
  /\ place[h] = "window" /\ lock = None
  /\ IF Len(recent) >= settings.limit
       THEN times' = recent /\ MoveTo(h, "finish") /\ Answer(h, "429")
       ELSE times' = Append(recent, stamp[h]) /\ MoveTo(h, "dispatch") /\ UNCHANGED reply
  /\ UNCHANGED <<settings, lock, stopping, inflight, runRecords, order, session, activity, clock, stamp,
                 agent, stopper>>

\* _finish_request, in a finally: the slot is free and the drain is notified.
Finish(h) ==
  /\ place[h] = "finish" /\ lock = None
  /\ inflight' = inflight - 1
  /\ MoveTo(h, "done")
  /\ stamp' = [stamp EXCEPT ![h] = 0]
  /\ UNCHANGED <<settings, lock, stopping, tables, clock, agent, reply, stopper>>

---------------------------------------------------------------------------
(* The endpoints *)

ToRun(h) == place[h] = "dispatch" /\ MoveTo(h, "record") /\ UNCHANGED reply

Turned(h, status) == place[h] = "dispatch" /\ MoveTo(h, "finish") /\ Answer(h, status)

\* _do_post, up to the fields of POST /runs: a run, with a session or without.
PostRun(h) == settings.kind[h] \in {"run", "session"} /\ ToRun(h)

\* _openai_completion: a run whose session is the model's name.
OpenAiCompletion(h) == settings.kind[h] = "openai" /\ ToRun(h)

\* _workspace_post: what the workspace answers, or why it was not asked.
WorkspacePost(h) ==
  settings.kind[h] = "workspace" /\ \E status \in {"200", "4xx"} : Turned(h, status)

\* _authed, and the paths nobody serves.
Unauthorised(h) == settings.kind[h] = "bad" /\ Turned(h, "4xx")

\* _read_body answers for a body it cannot use; an empty object, or a length
\* that is no number, gets no answer at all.
BadBody(h) == settings.kind[h] = "bad" /\ \E status \in {"4xx", "none"} : Turned(h, status)

\* _websocket_run: the upgrade and the one frame it reads.
OpenSocket(h) ==
  /\ settings.kind[h] = "socket"
  /\ \/ place[h] = "dispatch" /\ MoveTo(h, "make") /\ UNCHANGED reply
     \/ Turned(h, "4xx")

\* _ws_receive: the peer closed, or sent no text frame.
NoFrame(h) == settings.kind[h] = "socket" /\ Turned(h, "none")

\* _do_get and _do_post choose the endpoint.
Dispatch(h) ==
  /\ \/ PostRun(h) \/ OpenAiCompletion(h) \/ WorkspacePost(h) \/ Unauthorised(h) \/ BadBody(h)
     \/ OpenSocket(h) \/ NoFrame(h)
  /\ UNCHANGED <<settings, lock, stopping, inflight, tables, clock, stamp, agent, stopper>>

\* _purge_expired_sessions
SessionExpired == settings.ttl # 0 /\ activity # None /\ activity + settings.ttl < clock

\* GET /health: purges, then counts.
Health(h) ==
  /\ place[h] = "dispatch" /\ settings.kind[h] = "health" /\ lock = None
  /\ session' = IF SessionExpired THEN None ELSE session
  /\ activity' = IF SessionExpired THEN None ELSE activity
  /\ Answer(h, "200") /\ MoveTo(h, "finish")
  /\ UNCHANGED <<settings, lock, stopping, inflight, runRecords, order, times, clock, stamp, agent,
                 stopper>>

\* GET /runs/<id>: a run that is known, or not.
Poll(h) ==
  /\ place[h] = "dispatch" /\ settings.kind[h] = "poll" /\ lock = None
  /\ \E r \in Handlers : Answer(h, IF r \in runRecords THEN "200" ELSE "4xx")
  /\ MoveTo(h, "finish")
  /\ UNCHANGED <<settings, lock, stopping, inflight, tables, clock, stamp, agent, stopper>>

\* The oldest records, down to MaxRunRecords - 1.
Evicted == IF Len(order) < MaxRunRecords THEN <<>> ELSE SubSeq(order, 1, Len(order) - MaxRunRecords + 1)

\* _run_agent: make room, record the run as running.
RecordRun(h) ==
  /\ place[h] = "record" /\ lock = None
  /\ runRecords' = (runRecords \ Range(Evicted)) \cup {h}
  /\ order' = Append(SelectSeq(order, LAMBDA r : r \notin Range(Evicted)), h)
  /\ MoveTo(h, "make")
  /\ UNCHANGED <<settings, lock, stopping, inflight, session, activity, times, clock, stamp, agent,
                 reply, stopper>>

\* _make_agent finds the session's agent after the purge.
Cached == session # None /\ ~SessionExpired

\* _make_agent: without a session a new agent, else the cached one; the
\* session is stamped.
MakeAgent(h) ==
  /\ place[h] = "make"
  /\ IF settings.kind[h] = "run"
       THEN agent' = [agent EXCEPT ![h] = h] /\ UNCHANGED <<session, activity>>
       ELSE /\ lock = None
            /\ session' = IF Cached THEN session ELSE h
            /\ agent' = [agent EXCEPT ![h] = session']
            /\ activity' = clock
  /\ MoveTo(h, "start")
  /\ UNCHANGED <<settings, lock, stopping, inflight, runRecords, order, times, clock, stamp, reply,
                 stopper>>

\* The agent factory raises: an error record, or the end of the socket.
FactoryRaises(h) ==
  /\ place[h] = "make" /\ (settings.kind[h] # "run" => lock = None /\ ~Cached)
  /\ MoveTo(h, IF settings.kind[h] = "socket" THEN "finish" ELSE "store")
  /\ reply' = [reply EXCEPT ![h] = IF settings.kind[h] = "socket" THEN "none" ELSE "500"]
  /\ session' = IF settings.kind[h] = "run" \/ ~SessionExpired THEN session ELSE None
  /\ activity' = IF settings.kind[h] = "run" \/ ~SessionExpired THEN activity ELSE None
  /\ UNCHANGED <<settings, lock, stopping, inflight, runRecords, order, times, clock, stamp, agent,
                 stopper>>

\* Mutant: a session run starts without the lock.
Locks_Never(h) == FALSE

\* _run_agent serialises the runs on a session agent; a plain run and a
\* WebSocket run do not take the lock.
Locks(h) == settings.kind[h] \in {"session", "openai"}

StartAgentRun(h) ==
  /\ place[h] = "start"
  /\ IF Locks(h) THEN lock = None /\ lock' = h ELSE UNCHANGED lock
  /\ MoveTo(h, "running")
  /\ UNCHANGED <<settings, stopping, inflight, tables, clock, stamp, agent, reply, stopper>>

\* Mutant: the lock stays taken when the run raises.
FreeLock_OnSuccessOnly(h, status) == lock' = IF lock = h /\ status = "200" THEN None ELSE lock

FreeLock(h, status) == lock' = IF lock = h THEN None ELSE lock

\* agent.run returns or raises; a completed session run stamps the session.
EndHttpRun(h) ==
  /\ place[h] = "running" /\ settings.kind[h] # "socket"
  /\ \E status \in {"200", "500"} :
       /\ FreeLock(h, status) /\ Answer(h, status)
       /\ activity' = IF Locks(h) /\ status = "200" THEN clock ELSE activity
  /\ MoveTo(h, "store")
  /\ UNCHANGED <<settings, stopping, inflight, runRecords, order, session, times, clock, stamp, agent,
                 stopper>>

\* _websocket_run, after its run: the last frame, or the exception goes up; the
\* session is not stamped again and no record is kept.
EndSocketRun(h) ==
  /\ place[h] = "running" /\ settings.kind[h] = "socket"
  /\ \E status \in {"200", "none"} : Answer(h, status)
  /\ MoveTo(h, "finish")
  /\ UNCHANGED <<settings, lock, stopping, inflight, tables, clock, stamp, agent, stopper>>

\* _run_agent, at the end: the record is put back under its id.
StoreRecord(h) ==
  /\ place[h] = "store" /\ lock = None
  /\ runRecords' = runRecords \cup {h}
  /\ MoveTo(h, "finish")
  /\ UNCHANGED <<settings, lock, stopping, inflight, order, session, activity, times, clock, stamp,
                 agent, reply, stopper>>

---------------------------------------------------------------------------
(* stop() and the clock *)

\* The drain marker.
Stop ==
  /\ stopper = "off" /\ lock = None
  /\ stopping' = TRUE /\ stopper' = "drain"
  /\ UNCHANGED <<settings, lock, inflight, tables, clock, handlers>>

\* The condition is met, or the deadline passed; both are seen under the lock.
Drained ==
  /\ stopper = "drain" /\ lock = None
  /\ stopper' = IF inflight = 0 THEN "done" ELSE "gave_up"
  /\ UNCHANGED <<settings, lock, stopping, inflight, tables, clock, handlers>>

\* The clock matters to the limiter and to session_ttl only.
ClockTicks ==
  /\ clock < MaxNow /\ (settings.limit # 0 \/ settings.ttl # 0)
  /\ clock' = clock + 1
  /\ UNCHANGED <<settings, lock, stopping, inflight, tables, handlers, stopper>>

Handle(h) ==
  \/ Begin(h) \/ ReadClock(h) \/ Allow(h) \/ Dispatch(h) \/ Health(h) \/ Poll(h) \/ RecordRun(h)
  \/ MakeAgent(h) \/ FactoryRaises(h) \/ StartAgentRun(h) \/ EndHttpRun(h) \/ EndSocketRun(h)
  \/ StoreRecord(h) \/ Finish(h)

ServerNext == (\E h \in Handlers : Handle(h)) \/ Stop \/ Drained \/ ClockTicks

ServerSpec == ServerInit /\ [][ServerNext]_serverVars

(***************************************************************************)
(* No socket has a time-out: a client that does not send the body it       *)
(* announced or its frame (app.py:353, 594) keeps its handler, and so does *)
(* one that does not read the frames of its WebSocket (app.py:586, 625).   *)
(* The events of a session agent go to every WebSocket on it, so the       *)
(* latter also holds up the other runs on its agent.                       *)
(***************************************************************************)
Stalled(h) ==
  /\ h \in settings.stalls
  /\ place[h] = "dispatch" \/ (place[h] = "running" /\ settings.kind[h] = "socket")

HeldUp(h) ==
  place[h] = "running" /\ \E k \in Handlers : Stalled(k) /\ place[k] = "running" /\ agent[k] = agent[h]

\* Threads run, a run that is not held up ends, a client that does not stall
\* sends its request, and a stop that was asked for looks again.
Fairness ==
  /\ \A h \in Handlers : WF_serverVars(~Stalled(h) /\ ~HeldUp(h) /\ Handle(h))
  /\ WF_serverVars(Drained)

ServerFairSpec == ServerSpec /\ Fairness

---------------------------------------------------------------------------
(* Properties *)

\* "concurrent requests cannot interleave turns on the same cached agent"
\* (app.py _run_agent): two requests answered over HTTP never run on one agent
\* at the same time.  The WebSocket endpoint is not part of the promise here:
\* it takes no lock.
TurnsDoNotInterleave ==
  \A h, k \in Handlers :
    /\ h # k /\ place[h] = "running" /\ place[k] = "running"
    /\ settings.kind[h] \in Runs /\ settings.kind[k] \in Runs
    => agent[h] # agent[k]

\* "Handlers accepted before the drain marker finish normally; later requests
\* receive 503" (app.py stop): when stop() returns drained, every handler that
\* was let in has finished, and none that comes later starts a run.
DrainHonoured ==
  stopper = "done" => \A h \in Handlers : place[h] \notin Accepted

\* Every request that was let in is counted out again, whatever failed on the
\* way, provided agent runs end and its own client does not stall: the handler
\* of another that waits for its client holds nothing but its slot; and stop()
\* returns.  Only a WebSocket that is not read can be in the way, by a run that
\* it holds up (app.py _handle_request, _finish_request, stop).
EveryoneLeaves ==
  LET inTheWay == \E k \in Handlers : HeldUp(k)
  IN  /\ \A h \in Handlers : place[h] \in Accepted ~> place[h] = "done" \/ Stalled(h) \/ inTheWay
      /\ stopper = "drain" ~> stopper \in {"done", "gave_up"} \/ inTheWay
=============================================================================
