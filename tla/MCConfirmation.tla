--------------------------- MODULE MCConfirmation ---------------------------
(***************************************************************************)
(* Instances of Confirmation: which agents, and where they may crash.      *)
(***************************************************************************)
EXTENDS Confirmation

Plain ==
  [async |-> FALSE, parallel |-> FALSE, recorder |-> FALSE, durable |-> TRUE,
   before |-> <<>>, confirmers |-> <<>>, rules |-> <<>>,
   inputs |-> {"plain", "danger"}, crashPoints |-> {}]

Agents == {[Plain EXCEPT !.async = a, !.parallel = p] : a \in BOOLEAN, p \in BOOLEAN}

\* Dangerous commands, and some the schema refuses, are confirmed, then listed
\* tools are allowed.
Rules ==
  <<[tool |-> Inputs, path |-> Inputs, domain |-> Inputs,
     command |-> {"danger", "invalid"}, decision |-> "confirm"],
    [tool |-> Inputs \ {"foreign"}, path |-> Inputs, domain |-> Inputs, command |-> Inputs,
     decision |-> "allowed"]>>

\* Hooks that stop a call after one has failed, that replace its arguments, that
\* confirm (a coroutine only where it is awaited), that cannot agree, that
\* decline, and that do not decide, with and without a checkpoint manager.
Hooked ==
  {[Plain EXCEPT !.before = <<"raise", "stop">>], [Plain EXCEPT !.before = <<"edit">>]}
    \cup {[Plain EXCEPT !.async = a, !.confirmers = <<"coroutine">>] : a \in BOOLEAN}
    \cup {[Plain EXCEPT !.confirmers = h] : h \in {<<"stop", "go">>, <<"stop">>}}
    \cup {[Plain EXCEPT !.confirmers = <<"observe", "raise">>, !.durable = d] : d \in BOOLEAN}

Policies == {[Plain EXCEPT !.rules = r, !.inputs = Inputs] : r \in {<<>>, Rules}}

\* Any agent, with and without a recorder, that does not crash or that crashes
\* anywhere, between the writes of one checkpoint included.
SafeSetups ==
  {[s EXCEPT !.recorder = r, !.crashPoints = points] :
     s \in Agents, r \in BOOLEAN, points \in {{}, PCs \ {"down"}}}
    \cup Hooked \cup Policies
=============================================================================
