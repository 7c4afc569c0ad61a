--------------------------- MODULE MCSubagentTree ---------------------------
(***************************************************************************)
(* Instances of SubagentTree: pools and delegating roots.                  *)
(***************************************************************************)
EXTENDS SubagentTree

Delegating == [pool |-> 0, concurrency |-> 1, rootGuarded |-> FALSE, factory |-> FALSE,
               async |-> FALSE, parallel |-> FALSE, timeout |-> FALSE, slots |-> 1,
               rounds |-> 2]

Pool(n, m) == [Delegating EXCEPT !.pool = n, !.concurrency = m]

\* A pool with more specs than threads, a pool with a client for every worker,
\* whose workers can delegate, a root that delegates, guarded or not, a root whose
\* calls time out, and coroutines that delegate in parallel under a timeout.
SafeSetups ==
  {Pool(3, 2), [Pool(2, 2) EXCEPT !.factory = TRUE],
   Delegating, [Delegating EXCEPT !.rootGuarded = TRUE],
   [Delegating EXCEPT !.rootGuarded = TRUE, !.timeout = TRUE],
   [Delegating EXCEPT !.async = TRUE, !.parallel = TRUE, !.timeout = TRUE, !.rounds = 1]}
=============================================================================
