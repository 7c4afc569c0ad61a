------------------------------ MODULE MCEvents ------------------------------
(***************************************************************************)
(* Instances of EventStream, with ReplayTools, for TLC.                                       *)
(***************************************************************************)
EXTENDS ReplayTools

Alone == [agents |-> {"main"}, bus |-> <<"recorder", "coroutine", "tracer", "metrics">>,
          async |-> FALSE, parallel |-> TRUE, ops |-> {"forget"}, toggles |-> {},
          turns |-> 2, batch |-> 2]

\* One recorded run, on either loop; a run whose tracer comes and goes; every memory
\* operation of one run; a run and a sub-agent's run that share the memory.
MCConfigs ==
  {Alone, [Alone EXCEPT !.async = TRUE, !.parallel = FALSE],
   [Alone EXCEPT !.bus = <<"tracer", "metrics">>, !.toggles = {"tracer"},
                 !.batch = 1],
   [Alone EXCEPT !.bus = <<"metrics">>, !.parallel = FALSE,
                 !.ops = {"store", "scratch", "forget", "purge_expired"}],
   [Alone EXCEPT !.agents = {"main", "sub"}, !.bus = <<"tracer">>,
                 !.ops = {"store", "clear"}, !.turns = 1, !.batch = 1]}
=============================================================================
