---------------------------- MODULE SubagentTree ----------------------------
(***************************************************************************)
(* Delegation (kinetic_sdk/subagent): a tree of agents that share one      *)
(* SpawnBudget while every guarded agent has its own circuit breaker.      *)
(*                                                                         *)
(* Sub-agents come from DelegateTool, where the delegating agent waits for *)
(* its child, or from SubagentPool, where a bounded number of worker       *)
(* threads run the specs.  A _GuardedLLMClient bills every requested call  *)
(* before any of them executes; billing one call is one step, because the  *)
(* budget's lock is taken once per call and other workers may get between. *)
(* In the async variants (async_delegation.py, async_tool.py) the agents   *)
(* are coroutines of one event loop, which bill without giving way.        *)
(*                                                                         *)
(* The root may run its calls in parallel and under a timeout; sub-agents  *)
(* inherit neither.  The thread of a call that timed out goes on, a        *)
(* coroutine is cancelled with everything it awaits.                       *)
(***************************************************************************)
EXTENDS Integers, Sequences, FiniteSets, FiniteSetsExt, Functions

CONSTANTS
  MaxAgents,     \* bound: sub-agents ever spawned
  MaxTotalCalls, \* SpawnBudget.max_total_tool_calls
  MaxRepeats,    \* max_consecutive_repeats
  Setups,        \* the trees considered, see setup
  Tools,         \* tool calls other than delegation, with their arguments
  MaxBatch       \* tool calls in one response

ASSUME TreeAssumption ==
  /\ MaxAgents \in Nat
  /\ MaxTotalCalls \in Nat \ {0} /\ MaxRepeats \in Nat \ {0}
  /\ MaxBatch \in Nat \ {0}
  /\ Setups \subseteq [pool : 0..MaxAgents, concurrency : Nat \ {0},
                       rootGuarded : BOOLEAN, factory : BOOLEAN, async : BOOLEAN,
                       parallel : BOOLEAN, timeout : BOOLEAN, slots : Nat \ {0},
                       rounds : Nat]
  /\ "delegate" \notin Tools /\ "nothing" \notin Tools

Root      == 0
Subagents == 1..MaxAgents
Agents    == 0..MaxAgents
Keys      == Tools \cup {"delegate"}

Failures == {"budget_exceeded", "repetition_limit", "error"}
Finished == Failures \cup {"completed", "cancelled"}

VARIABLES
  setup,      \* pool: specs handed to spawn_subagent_pool, 0 for a root that
              \* delegates; concurrency: max_concurrency; rootGuarded:
              \* charge_root_tool_calls; factory: an llm_factory is given;
              \* async: AsyncAgents; parallel, timeout: the root's
              \* parallel_tool_execution and tool_timeout; slots: its _tool_slots;
              \* rounds: its own iteration cap
  status,
  parent,     \* the agent that spawned a sub-agent
  abandoned,  \* sub-agents whose delegating call timed out in a thread
  todo,       \* calls of the current response that have not executed yet
  bill,       \* charges still to be made for them: [payer, key]
  used,       \* SpawnBudget._used
  perAgent,   \* SpawnBudget._per_agent
  lastKey, repeats,   \* the agent's breaker: _last_key, _count
  rounds      \* responses with tool calls the root has had

budget  == <<used, perAgent>>
breaker == <<lastKey, repeats>>
vars == <<setup, status, parent, abandoned, todo, bill, budget, breaker, rounds>>

PoolSize == setup.pool

Guarded(a) == a # Root \/ setup.rootGuarded

\* The pool serializes the clients its workers inherit.
Serialized == PoolSize > 0 /\ ~setup.factory /\ setup.concurrency > 1

\* spawn_subagent unwraps a guarded client, but not through the pool's wrapper.
StacksGuards == Serialized /\ setup.rootGuarded

Init ==
  /\ setup \in Setups
  /\ status = [a \in Agents |->
                 IF a = Root THEN IF PoolSize > 0 THEN "waiting" ELSE "llm"
                 ELSE IF a <= PoolSize THEN "queued" ELSE "unborn"]
  /\ parent = [a \in Agents |-> Root] /\ abandoned = {}
  /\ todo = [a \in Agents |-> <<>>] /\ bill = [a \in Agents |-> <<>>]
  /\ used = 0 /\ perAgent = [a \in Agents |-> 0]
  /\ lastKey = [a \in Agents |-> "nothing"] /\ repeats = [a \in Agents |-> 0]
  /\ rounds = 0

Children(a) == {c \in Subagents : parent[c] = a /\ status[c] # "unborn"}

\* A worker inside the shared client: in a request, or in the root's guard.
InsideClient(a) ==
  \/ status[a] = "inflight"
  \/ status[a] = "billing" /\ bill[a] # <<>> /\ Head(bill[a]).payer # a

-----------------------------------------------------------------------------
(***************************************************************************)
(* The pool.                                                               *)
(***************************************************************************)
Running(c) == status[c] \notin {"unborn", "queued"} \cup Finished

\* A free worker thread takes the next spec.
StartWorker(c) ==
  /\ status[c] = "queued" /\ \A d \in 1..(c - 1) : status[d] # "queued"
  /\ Cardinality({d \in 1..PoolSize : Running(d)}) < setup.concurrency
  /\ status' = [status EXCEPT ![c] = "llm"]
  /\ UNCHANGED <<setup, parent, abandoned, todo, bill, budget, breaker, rounds>>

\* run_all: the executor joins its threads before a failure is re-raised; the
\* first failure in the order of the specs is the one that is raised.
CollectPool ==
  /\ PoolSize > 0 /\ status[Root] = "waiting"
  /\ \A c \in 1..PoolSize : status[c] \in Finished
  /\ LET failed == {c \in 1..PoolSize : status[c] \in Failures}
     IN  status' = [status EXCEPT ![Root] =
                      IF failed = {} THEN "completed" ELSE status[Min(failed)]]
  /\ UNCHANGED <<setup, parent, abandoned, todo, bill, budget, breaker, rounds>>

-----------------------------------------------------------------------------
(***************************************************************************)
(* One agent's loop, as far as delegation sees it.                         *)
(***************************************************************************)
CallLlm(a) ==
  /\ status[a] = "llm"
  /\ Serialized => \A b \in Subagents : ~InsideClient(b)
  /\ status' = [status EXCEPT ![a] = "inflight"]
  /\ UNCHANGED <<setup, parent, abandoned, todo, bill, budget, breaker, rounds>>

Charges(payer, calls) == [k \in DOMAIN calls |-> [payer |-> payer, key |-> calls[k]]]

\* The response asks for tools: what the guards around the client will charge.
RequestTools(a, calls) ==
  /\ status[a] = "inflight"
  /\ a = Root => rounds < setup.rounds
  /\ rounds' = IF a = Root THEN rounds + 1 ELSE rounds
  /\ todo' = [todo EXCEPT ![a] = calls]
  /\ bill' = [bill EXCEPT ![a] =
                IF ~Guarded(a) THEN <<>>
                ELSE IF StacksGuards /\ a # Root
                     THEN Charges(Root, calls) \o Charges(a, calls)
                     ELSE Charges(a, calls)]
  /\ status' = [status EXCEPT ![a] = "billing"]
  /\ UNCHANGED <<setup, parent, abandoned, budget, breaker>>

\* A text answer, an exception of the client, or the agent's own limits.
End(a, how) ==
  /\ status[a] = "inflight"
  /\ status' = [status EXCEPT ![a] = how]
  /\ UNCHANGED <<setup, parent, abandoned, todo, bill, budget, breaker, rounds>>

\* run_subagent
EndRun(a, how) == ~setup.async /\ End(a, how)

\* run_async_subagent
EndAwaitedRun(a, how) == setup.async /\ End(a, how)

\* The run ends with an exception; the calls of the response are dropped.
Fail(a, how) ==
  /\ status' = [status EXCEPT ![a] = how]
  /\ todo' = [todo EXCEPT ![a] = <<>>] /\ bill' = [bill EXCEPT ![a] = <<>>]

\* Mutant: the cap is compared one too late.
Exhausted_Late == used > MaxTotalCalls

Exhausted == used >= MaxTotalCalls

\* Every guard has its own RepetitionCircuitBreaker.
Breaker(payer) == payer

\* RepetitionCircuitBreaker.record
Count(b, key) == IF lastKey[b] = key THEN repeats[b] + 1 ELSE 1

\* record_tool_call, then record: one call is charged to one payer.
ChargeNext(a) ==
  /\ status[a] = "billing" /\ bill[a] # <<>>
  /\ LET p == Head(bill[a]).payer
         k == Head(bill[a]).key
         b == Breaker(p)
     IN  IF Exhausted
         THEN Fail(a, "budget_exceeded") /\ UNCHANGED <<budget, breaker>>
         ELSE /\ used' = used + 1
              /\ perAgent' = [perAgent EXCEPT ![p] = @ + 1]
              /\ lastKey' = [lastKey EXCEPT ![b] = k]
              /\ repeats' = [repeats EXCEPT ![b] = Count(b, k)]
              /\ IF Count(b, k) > MaxRepeats
                 THEN Fail(a, "repetition_limit")
                 ELSE bill' = [bill EXCEPT ![a] = Tail(@)] /\ UNCHANGED <<status, todo>>
  /\ UNCHANGED <<setup, parent, abandoned, rounds>>

\* Every call is charged: chat() returns and the calls execute.
Billed(a) ==
  /\ status[a] = "billing" /\ bill[a] = <<>>
  /\ status' = [status EXCEPT ![a] = "acting"]
  /\ UNCHANGED <<setup, parent, abandoned, todo, bill, budget, breaker, rounds>>

Execute(a) == todo' = [todo EXCEPT ![a] = Tail(@)]

\* An ordinary tool, or a delegation that spawns nobody (unknown name, model
\* mismatch, no slot): a tool result either way.
UseTool(a) ==
  /\ status[a] = "acting" /\ todo[a] # <<>>
  /\ Execute(a)
  /\ UNCHANGED <<setup, status, parent, abandoned, bill, budget, breaker, rounds>>

\* Mutant: the slot is given back when the caller stops waiting.
FreeSlot_OnTimeout(a) ==
  a = Root /\ ~setup.async /\ (setup.timeout \/ setup.parallel) =>
    Cardinality({c \in Children(Root) \ abandoned : Running(c)}) < setup.slots

\* _submit_timed_tool: a slot is held until the call's thread is done.
FreeSlot(a) ==
  a = Root /\ ~setup.async /\ (setup.timeout \/ setup.parallel) =>
    Cardinality({c \in Children(Root) : Running(c)}) < setup.slots

\* A delegation, up to the child's run.  In parallel mode the root goes on to the next
\* call of the batch.
Delegate(a) ==
  /\ status[a] = "acting" /\ todo[a] # <<>> /\ Head(todo[a]) = "delegate"
  /\ \E c \in Subagents :
       /\ status[c] = "unborn" /\ \A d \in 1..(c - 1) : status[d] # "unborn"
       /\ parent' = [parent EXCEPT ![c] = a]
       /\ status' = [status EXCEPT ![c] = "llm",
                                    ![a] = IF a = Root /\ setup.parallel THEN @ ELSE "waiting"]
  /\ Execute(a)
  /\ UNCHANGED <<setup, abandoned, bill, budget, breaker, rounds>>

\* spawn_subagent
Spawn(a) == ~setup.async /\ FreeSlot(a) /\ Delegate(a)

\* spawn_async_subagent
SpawnAsync(a) == setup.async /\ Delegate(a)

\* The delegating call of c is over.
Returned(c) == status[c] \in Finished \/ c \in abandoned

\* The child's run ended, with a message or with an exception that was turned
\* into an error result.
GoOn(a) ==
  /\ status[a] = "waiting" /\ ~(a = Root /\ PoolSize > 0)
  /\ \A c \in Children(a) : Returned(c)
  /\ status' = [status EXCEPT ![a] = "acting"]
  /\ UNCHANGED <<setup, parent, abandoned, todo, bill, budget, breaker, rounds>>

\* Mutant: a child's exception is not turned into a result.
ChildReturns_SuccessOnly(a) ==
  ~setup.async /\ GoOn(a) /\ \A c \in Children(a) : status[c] = "completed"

\* DelegateTool.execute returns.
ChildReturns(a) == ~setup.async /\ GoOn(a)

\* AsyncDelegateTool.execute_async returns.
AwaitedChildReturns(a) == setup.async /\ GoOn(a)

\* c and the sub-agents it waits for.
Subtree(c) ==
  LET under[d \in Agents] == d = c \/ (parent[d] < d /\ under[parent[d]])
  IN  {d \in Agents : under[d]}

\* The coroutines that end with the one that is cancelled.
Cancelled(c) == {d \in Subtree(c) : Running(d)}

TimesOut(c) ==
  setup.timeout /\ PoolSize = 0 /\ parent[c] = Root /\ Running(c) /\ c \notin abandoned

\* _run_tool of the root: the thread of the call is left to itself.
TimeOut(c) ==
  /\ ~setup.async /\ TimesOut(c)
  /\ abandoned' = abandoned \cup {c}
  /\ UNCHANGED <<setup, status, parent, todo, bill, budget, breaker, rounds>>

\* wait_for cancels the coroutine of the call.
TimeOutAwait(c) ==
  /\ setup.async /\ TimesOut(c)
  /\ \A d \in Agents : status[d] # "billing"
  /\ status' = [d \in Agents |-> IF d \in Cancelled(c) THEN "cancelled" ELSE status[d]]
  /\ todo' = [d \in Agents |-> IF d \in Cancelled(c) THEN <<>> ELSE todo[d]]
  /\ UNCHANGED <<setup, parent, abandoned, bill, budget, breaker, rounds>>

NextRound(a) ==
  /\ status[a] = "acting" /\ todo[a] = <<>>
  /\ \A c \in Children(a) : Returned(c)
  /\ status' = [status EXCEPT ![a] = "llm"]
  /\ UNCHANGED <<setup, parent, abandoned, todo, bill, budget, breaker, rounds>>

-----------------------------------------------------------------------------
Responses == UNION {[1..n -> Keys] : n \in 1..MaxBatch}

\* A coroutine that bills does not await.
HasTheLoop(a) == setup.async => \A b \in Agents \ {a} : status[b] # "billing"

Step(a) ==
  /\ HasTheLoop(a)
  /\ \/ CallLlm(a) \/ ChargeNext(a) \/ Billed(a) \/ UseTool(a) \/ Spawn(a) \/ SpawnAsync(a)
     \/ ChildReturns(a) \/ AwaitedChildReturns(a) \/ NextRound(a)
     \/ \E calls \in Responses : RequestTools(a, calls)
     \/ \E how \in {"completed", "error"} : EndRun(a, how) \/ EndAwaitedRun(a, how)

Next ==
  \/ \E c \in Subagents : StartWorker(c) \/ TimeOut(c) \/ TimeOutAwait(c)
  \/ CollectPool
  \/ \E a \in Agents : Step(a)

Spec == Init /\ [][Next]_vars

\* Every thread is scheduled, and a client or a tool that is called returns.
FairSpec ==
  /\ Spec
  /\ \A a \in Agents : WF_vars(Step(a))
  /\ \A c \in Subagents : WF_vars(StartWorker(c))
  /\ WF_vars(CollectPool)

-----------------------------------------------------------------------------
(***************************************************************************)
(* However many workers charge at once, the tree never spends more than    *)
(* its budget and the breakdown by agent adds up to what was spent         *)
(* (subagent/budget.py:82, 101).                                           *)
(***************************************************************************)
BudgetHeld == used <= MaxTotalCalls /\ used = SumFunction(perAgent)

(***************************************************************************)
(* No sub-agent is queued or at work when the agent that spawned it went   *)
(* on or finished: a failure is reported only after every thread of the    *)
(* pool is joined (pool.py:104), and a timed-out AsyncDelegateTool leaves  *)
(* nobody of the sub-agent's tree behind.  Only threads outlive a timeout, *)
(* and never more of them than the root has slots (agent.py:1294, "without *)
(* allowing an unbounded queue").                                          *)
(***************************************************************************)
NoOrphans ==
  /\ \A c \in Subagents \ abandoned :
       status[c] = "queued" \/ Running(c) =>
         \/ status[parent[c]] = "waiting"
         \/ setup.parallel /\ status[parent[c]] = "acting"
  /\ PoolSize = 0 /\ ~setup.async /\ (setup.timeout \/ setup.parallel) =>
       Cardinality({c \in Children(Root) : Running(c)}) <= setup.slots

(***************************************************************************)
(* "Runaway recursion is bounded by cost/behaviour guardrails"             *)
(* (delegation.py:14): every agent of the tree finishes, although nothing  *)
(* bounds the depth or the rounds of a sub-agent but the shared budget.    *)
(***************************************************************************)
TreeTerminates ==
  \A a \in Agents : (status[a] # "unborn") ~> (status[a] \in Finished)
=============================================================================
