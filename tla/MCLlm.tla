------------------------------- MODULE MCLlm --------------------------------
(***************************************************************************)
(* LlmClient with up to three profiles.  The fallback graphs have a chain, *)
(* a cycle through the first profile, a profile reached twice, and a       *)
(* profile that only a fallback of a fallback leads to.                    *)
(***************************************************************************)
EXTENDS LlmClient

ThreeProfiles == {"a", "b", "c"}

Graph(a, b, c) == [p \in ThreeProfiles |-> IF p = "a" THEN a ELSE IF p = "b" THEN b ELSE c]

NoFallbacks == Graph(<<>>, <<>>, <<>>)

SomeSetups ==
  [client : {"lite", "async", "bridge"}, stream : BOOLEAN, route : {<<"a">>}, fallbacks : {NoFallbacks}]
  \cup
  [client : {"fallback"}, stream : BOOLEAN, route : {<<"a">>, <<"b", "a">>},
   fallbacks : {NoFallbacks, Graph(<<"b">>, <<"c">>, <<>>), Graph(<<"b", "c">>, <<"a">>, <<"b">>),
                Graph(<<"c">>, <<"c">>, <<"a">>)}]

SomeErrors ==
  {[status |-> 429, network |-> FALSE], [status |-> 401, network |-> TRUE],
   [status |-> 503, network |-> FALSE], [status |-> 0, network |-> TRUE],
   [status |-> 0, network |-> FALSE]}

SomeTurns ==
  {[text |-> 2, calls |-> <<>>], [text |-> 1, calls |-> <<2, 1>>],
   [text |-> 0, calls |-> <<1, 0, 2>>]}

\* Every valid history of up to four messages over two calls.
Alphabet ==
  {UserTurn(0), AssistantText, ElidedMessage(0), ToolResult(1), ToolResult(2),
   AssistantCalls(<<1>>), AssistantCalls(<<1, 2>>)}

ValidHistories ==
  {h \in UNION {[1..n -> Alphabet] : n \in 1..4} : h[1].kind = "user" /\ ReplayValid(h)}
=============================================================================
