------------------------------ MODULE ToolBreaker ------------------------------
(***************************************************************************)
(* The circuit breaker of one tool (Agent._circuit_is_open and             *)
(* _record_circuit_result).  The calls of a round are all prepared before  *)
(* the first result is recorded when rounds run in parallel, and one by    *)
(* one otherwise; both ends of a call are on the agent's own thread.  A     *)
(* call that a human has approved is recorded but not checked.             *)
(***************************************************************************)
EXTENDS Naturals

CONSTANTS
  BreakerSettings,  \* [threshold, batch]: of the policy, and the largest round
  Cooldown,         \* circuit_breaker_cooldown_seconds, in ticks
  MaxTicks,         \* bound: ticks of the clock
  MaxApproved       \* bound: calls run on a human's approval

ASSUME ToolBreakerAssumption ==
  /\ Cooldown \in Nat \ {0} /\ MaxTicks \in Nat /\ MaxApproved \in Nat
  /\ \A s \in BreakerSettings : s.threshold \in Nat \ {0} /\ s.batch \in Nat

VARIABLES
  policy,      \* the setting; batch = 0: the breaker is not used
  failures,    \* _circuit_breakers[name][0]
  openUntil,   \* _circuit_breakers[name][1]; 0 stands for None
  clock,
  running,     \* calls prepared whose results are not recorded
  streak,      \* history variable: failures recorded since a success or a reset
  lastFailure, \* history variable: when the last of them was recorded
  approved     \* history variable: calls run on a human's approval

breakerVars == <<policy, failures, openUntil, clock, running, streak, lastFailure,
                 approved>>

NoPolicy == [threshold |-> 1, batch |-> 0]

BreakerInit(settings) ==
  /\ policy \in settings
  /\ failures = 0 /\ openUntil = 0 /\ clock = 1 /\ running = 0
  /\ streak = 0 /\ lastFailure = 0 /\ approved = 0

Tick ==
  /\ policy # NoPolicy /\ clock < MaxTicks
  /\ clock' = clock + 1
  /\ UNCHANGED <<policy, failures, openUntil, running, streak, lastFailure, approved>>

CircuitIsOpen == openUntil # 0 /\ clock < openUntil

\* A breaker whose time is over forgets the failures.
Reset ==
  IF openUntil # 0
  THEN failures' = 0 /\ openUntil' = 0 /\ streak' = 0
  ELSE UNCHANGED <<failures, openUntil, streak>>

\* _prepare_call for the calls of a round, n of which are run; the others are
\* refused for their input, after the breaker has been asked.
PrepareRound(n) ==
  /\ running = 0 /\ ~CircuitIsOpen
  /\ Reset
  /\ running' = n
  /\ UNCHANGED <<policy, clock, lastFailure, approved>>

\* _resolve_pending_confirmation runs the approved call without asking the breaker.
RunApproved ==
  /\ policy # NoPolicy /\ running = 0 /\ approved < MaxApproved
  /\ running' = 1 /\ approved' = approved + 1
  /\ UNCHANGED <<policy, failures, openUntil, clock, streak, lastFailure>>

\* The task is cancelled, or a hook raises: the rest is never recorded.
AbandonRound ==
  /\ running > 0 /\ running' = 0
  /\ UNCHANGED <<policy, failures, openUntil, clock, streak, lastFailure, approved>>

\* Mutant: one failure more than the threshold is needed.
OpenUntil_Late(count) == IF count > policy.threshold THEN clock + Cooldown ELSE 0

OpenUntil(count) == IF count >= policy.threshold THEN clock + Cooldown ELSE 0

\* _record_circuit_result of a success: it also closes a breaker that an earlier
\* result of the same round has opened.
RecordSuccess ==
  /\ running > 0
  /\ failures' = 0 /\ openUntil' = 0 /\ streak' = 0 /\ running' = running - 1
  /\ UNCHANGED <<policy, clock, lastFailure, approved>>

RecordFailure ==
  /\ running > 0
  /\ failures' = failures + 1 /\ openUntil' = OpenUntil(failures + 1)
  /\ streak' = streak + 1 /\ lastFailure' = clock /\ running' = running - 1
  /\ UNCHANGED <<policy, clock, approved>>

-----------------------------------------------------------------------------
(***************************************************************************)
(* After as many failures in a row as the threshold the tool is refused    *)
(* for the whole cooldown that follows the last of them, and a row is      *)
(* longer than the threshold only by what the round that reached it had    *)
(* already prepared and by the calls a human approved (agent.py:1451, 1469,*)
(* 1676).                                                                  *)
(***************************************************************************)
BreakerHolds ==
  /\ streak >= policy.threshold /\ clock < lastFailure + Cooldown => CircuitIsOpen
  /\ policy # NoPolicy => streak < policy.threshold + policy.batch + approved
=============================================================================
