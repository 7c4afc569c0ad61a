----------------------------- MODULE LlmClient ------------------------------
(***************************************************************************)
(* One agent's LLM requests (kinetic_sdk/llm, and Agent._call_llm that     *)
(* makes them): the history is translated to the provider's format, the    *)
(* request goes to a client - LiteLLMClient, its async twin,               *)
(* FallbackLLMClient over a registry of profiles, or SyncToAsyncLLMClient  *)
(* over a LiteLLMClient - is retried and handed from profile to profile,   *)
(* and comes back whole or as a stream of fragments.  A request that is    *)
(* awaited may be cancelled.                                               *)
(*                                                                         *)
(* A provider's turn is the number of its text fragments and, per tool     *)
(* call, the number of fragments of its arguments; the fragments are       *)
(* numbered, so a lost, repeated or misplaced one shows.  Backoff delays,  *)
(* model names, keys and prices are left out.                              *)
(***************************************************************************)
EXTENDS Conversation, SequencesExt

CONSTANTS
  Setups,      \* the configurations of the client, see Init
  Profiles,    \* names of the registered LLMProfiles
  MaxRetries,  \* LiteLLMClient.max_retries
  Errors,      \* what litellm.completion may raise: [status, network]
  Turns,       \* what the provider may say: [text, calls]
  Histories,   \* the histories a request is made with
  MaxCalls     \* bound: requests the agent makes

ASSUME LlmAssumption == MaxRetries \in Nat /\ MaxCalls \in Nat

VARIABLES
  setup,     \* [client, stream, route, fallbacks]
  history,   \* ConversationState.messages of the request
  pc,        \* "idle", "asking", "streaming", "answered" or "failed"
  streamed,  \* the request in progress is chat_stream's
  names,     \* profiles FallbackLLMClient.chat has still to try, the current one first
  attempt,   \* local of _completion_with_retry
  turn,      \* what the provider answers with
  sent,      \* fragments the provider has sent: [text, calls]
  textBuf,   \* text_buf of chat_stream
  slots,     \* tool_fragments of chat_stream, in insertion order
  usage,     \* the response reports its token usage
  events,    \* text events the client has yielded and the agent not yet seen
  shown,     \* fragments published as agent.text_delta during this request
  response,  \* the LLMResponse _call_llm returns
  error,     \* the exception it raises instead
  tries,     \* how often each profile was asked during this request
  recorded,  \* UsageAccumulator: calls recorded
  calls      \* requests made

request == <<names, attempt, turn, sent, textBuf, slots, usage, events, response>>
vars == <<setup, history, pc, streamed, request, shown, error, tries, recorded, calls>>

NoTurn == [text |-> 0, calls |-> <<>>]
NoResponse == [text |-> <<>>, calls |-> <<>>]
NoError == [status |-> 0, network |-> FALSE]

-----------------------------------------------------------------------------
(***************************************************************************)
(* Translation of the history to the provider's (OpenAI) format            *)
(***************************************************************************)
\* An assistant turn becomes one message; its tool_use blocks its tool_calls.
TranslateAssistant(m) == <<[role |-> "assistant", ids |-> m.ids]>>

\* A result block becomes a "tool" message with the id of its call.
TranslateResults(m) == [i \in DOMAIN m.ids |-> [role |-> "tool", ids |-> <<m.ids[i]>>]]

\* Mutant: results stay user turns, as they are in the history.
TranslateMessage_UserResults(m) ==
  IF m.kind \in {"text", "use"} THEN TranslateAssistant(m)
  ELSE <<[role |-> "user", ids |-> <<>>]>>

TranslateMessage(m) ==
  CASE m.kind \in {"text", "use"} -> TranslateAssistant(m)
    [] m.kind = "result" -> TranslateResults(m)
    [] OTHER -> <<[role |-> "user", ids |-> <<>>]>>

\* The messages of _build_request; the system prompt comes first.
Wire(h) ==
  <<[role |-> "system", ids |-> <<>>]>> \o FlattenSeq([i \in DOMAIN h |-> TranslateMessage(h[i])])

-----------------------------------------------------------------------------
(***************************************************************************)
(* Retry and fallback                                                      *)
(***************************************************************************)
IsRetryable(e) ==
  \/ e.status \in {408, 409, 429} \/ e.status >= 500
  \/ e.status \notin 400..499 /\ e.network

\* FallbackLLMClient._names: the fallbacks of a profile come before the
\* rest of the route, and a name already listed is not listed again.
RECURSIVE NamesFrom(_, _, _)
NamesFrom(fallbacks, pending, found) ==
  IF pending = <<>> THEN found
  ELSE LET name == Head(pending) IN
       IF name \in ToSet(found)
       THEN NamesFrom(fallbacks, Tail(pending), found)
       ELSE NamesFrom(fallbacks, fallbacks[name] \o Tail(pending), Append(found, name))

\* Mutant: only the fallbacks the route's own profiles declare.
Names_OneLevel(s) ==
  IF s.client = "fallback"
  THEN NamesFrom([p \in Profiles |-> <<>>], <<s.route[1]>> \o s.fallbacks[s.route[1]] \o Tail(s.route), <<>>)
  ELSE <<s.route[1]>>

Names(s) ==
  IF s.client = "fallback" THEN NamesFrom(s.fallbacks, s.route, <<>>) ELSE <<s.route[1]>>

Init ==
  /\ setup \in Setups
  /\ history \in Histories
  /\ pc = "idle" /\ streamed = FALSE
  /\ names = <<>> /\ attempt = 0
  /\ turn = NoTurn /\ sent = NoTurn
  /\ textBuf = <<>> /\ slots = <<>> /\ usage = FALSE
  /\ events = <<>> /\ shown = <<>>
  /\ response = NoResponse /\ error = NoError
  /\ tries = [p \in Profiles |-> 0]
  /\ recorded = 0 /\ calls = 0

\* Agent._call_llm.  FallbackLLMClient has no chat_stream of its own: the
\* inherited one raises NotImplementedError and the agent asks again with chat.
CallLlm ==
  /\ pc = "idle" /\ calls < MaxCalls
  /\ pc' = "asking"
  /\ calls' = calls + 1
  /\ streamed' = (setup.stream /\ setup.client # "fallback")
  /\ names' = Names(setup)
  /\ tries' = [p \in Profiles |-> 0]
  /\ attempt' = 0 /\ textBuf' = <<>> /\ slots' = <<>> /\ usage' = FALSE
  /\ turn' = NoTurn /\ sent' = NoTurn
  /\ events' = <<>> /\ shown' = <<>> /\ response' = NoResponse /\ error' = NoError
  /\ UNCHANGED <<setup, history, recorded>>

Asked == [tries EXCEPT ![Head(names)] = @ + 1]

Retries(e) == attempt < MaxRetries /\ IsRetryable(e)

\* _completion_with_retry: a transient error is retried after a delay.
Retry(e) ==
  /\ pc = "asking" /\ Retries(e)
  /\ attempt' = attempt + 1
  /\ tries' = Asked
  /\ UNCHANGED <<setup, history, pc, streamed, names, turn, sent, textBuf, slots, usage,
                 events, shown, response, error, recorded, calls>>

Fail(e) ==
  /\ pc' = "failed"
  /\ error' = e
  /\ UNCHANGED <<names, attempt>>

\* FallbackLLMClient.chat: the next profile is asked only after a
\* transient error; a single client has no next profile.
TryNext(e) ==
  IF IsRetryable(e) /\ Len(names) > 1
  THEN names' = Tail(names) /\ attempt' = 0 /\ UNCHANGED <<pc, error>>
  ELSE Fail(e)

GiveUp(e) ==
  /\ pc = "asking" /\ ~Retries(e)
  /\ TryNext(e)
  /\ tries' = Asked
  /\ UNCHANGED <<setup, history, streamed, turn, sent, textBuf, slots, usage, events, shown,
                 response, recorded, calls>>

-----------------------------------------------------------------------------
(***************************************************************************)
(* A whole response                                                        *)
(***************************************************************************)
Fragments(n) == [k \in 1..n |-> k]

\* json.loads of no text at all fails, and the call keeps the raw text.
ParsedArguments(n) == IF n = 0 THEN <<"_raw">> ELSE Fragments(n)

ParseResponse(t) ==
  [text |-> Fragments(t.text),
   calls |-> [i \in DOMAIN t.calls |-> [id |-> i, args |-> ParsedArguments(t.calls[i])]]]

Complete(t, reported) ==
  /\ pc = "asking" /\ ~streamed
  /\ pc' = "answered"
  /\ tries' = Asked
  /\ turn' = t
  /\ response' = ParseResponse(t)
  /\ usage' = reported
  /\ UNCHANGED <<setup, history, streamed, names, attempt, sent, textBuf, slots, events, shown,
                 error, recorded, calls>>

-----------------------------------------------------------------------------
(***************************************************************************)
(* A streamed response                                                     *)
(***************************************************************************)
OpenStream(t) ==
  /\ pc = "asking" /\ streamed
  /\ pc' = "streaming"
  /\ tries' = Asked
  /\ turn' = t
  /\ sent' = [text |-> 0, calls |-> [i \in DOMAIN t.calls |-> -1]]
  /\ UNCHANGED <<setup, history, streamed, names, attempt, textBuf, slots, usage, events, shown,
                 response, error, recorded, calls>>

\* chat_stream yields each text fragment; the agent publishes it at once,
\* except behind SyncToAsyncLLMClient, which collects the events first.
TextChunk ==
  /\ pc = "streaming" /\ sent.text < turn.text
  /\ sent' = [sent EXCEPT !.text = @ + 1]
  /\ textBuf' = Append(textBuf, sent'.text)
  /\ IF setup.client = "bridge"
     THEN events' = Append(events, sent'.text) /\ UNCHANGED shown
     ELSE shown' = Append(shown, sent'.text) /\ UNCHANGED events
  /\ UNCHANGED <<setup, history, pc, streamed, names, attempt, turn, slots, usage, response,
                 error, tries, recorded, calls>>

\* tool_fragments.setdefault: the slot of an index, made on first use.
WithSlot(ss, index) ==
  IF \E k \in DOMAIN ss : ss[k].index = index THEN ss
  ELSE Append(ss, [index |-> index, id |-> 0, args |-> <<>>])

\* The id comes with the first fragment of a call, later ones have none.
Accumulated(ss, index, id, frag) ==
  LET all == WithSlot(ss, index)
      k == CHOOSE j \in DOMAIN all : all[j].index = index
  IN  [all EXCEPT ![k].id = IF id # 0 THEN id ELSE @, ![k].args = @ \o frag]

\* The fragments of different calls, and of the text, come in any order.
\* The first one names the call, the others carry its arguments.
ToolChunk(i) ==
  /\ pc = "streaming" /\ sent.calls[i] < turn.calls[i]
  /\ sent' = [sent EXCEPT !.calls[i] = @ + 1]
  /\ slots' = IF sent'.calls[i] = 0
              THEN Accumulated(slots, i, i, <<>>)
              ELSE Accumulated(slots, i, 0, <<sent'.calls[i]>>)
  /\ UNCHANGED <<setup, history, pc, streamed, names, attempt, turn, textBuf, usage, events,
                 shown, response, error, tries, recorded, calls>>

AllSent == sent = [text |-> turn.text, calls |-> turn.calls]

\* The usage comes with the last chunk.  A chunk without choices is skipped
\* before its usage is read, which here is a stream without this step.
UsageChunk ==
  /\ pc = "streaming" /\ AllSent /\ ~usage
  /\ usage' = TRUE
  /\ UNCHANGED <<setup, history, pc, streamed, names, attempt, turn, sent, textBuf, slots,
                 events, shown, response, error, tries, recorded, calls>>

\* _tool_call_from_fragments: no text at all is an empty argument object here.
ToolCallFromFragments(slot) == [id |-> slot.id, args |-> slot.args]

Assembled(ss) ==
  LET sorted == SortSeq(ss, LAMBDA a, b : a.index < b.index)
  IN  [k \in DOMAIN sorted |-> ToolCallFromFragments(sorted[k])]

\* The end of the stream: the done event, and behind the bridge every
\* event that was collected.
EndStream ==
  /\ pc = "streaming" /\ AllSent
  /\ pc' = "answered"
  /\ response' = [text |-> textBuf, calls |-> Assembled(slots)]
  /\ shown' = shown \o events
  /\ events' = <<>>
  /\ UNCHANGED <<setup, history, streamed, names, attempt, turn, sent, textBuf, slots, usage,
                 error, tries, recorded, calls>>

\* Mutant: a broken stream is asked for again.
BreakStream_Retries(e) ==
  /\ pc = "streaming"
  /\ IF Retries(e)
     THEN pc' = "asking" /\ attempt' = attempt + 1 /\ UNCHANGED error
     ELSE pc' = "failed" /\ error' = e /\ UNCHANGED attempt
  /\ textBuf' = <<>> /\ slots' = <<>> /\ events' = <<>>
  /\ UNCHANGED <<setup, history, streamed, names, turn, sent, usage, shown, response, tries,
                 recorded, calls>>

\* An error between two chunks propagates; what the bridge has collected is lost.
BreakStream(e) ==
  /\ pc = "streaming"
  /\ pc' = "failed"
  /\ error' = e
  /\ events' = <<>>
  /\ UNCHANGED <<setup, history, streamed, names, attempt, turn, sent, textBuf, slots, usage,
                 shown, response, tries, recorded, calls>>

-----------------------------------------------------------------------------
\* UsageAccumulator.record ignores a response without usage, its call included.
Recorded == recorded + (IF usage THEN 1 ELSE 0)

Return ==
  /\ pc = "answered"
  /\ pc' = "idle"
  /\ recorded' = Recorded
  /\ UNCHANGED <<setup, history, streamed, request, shown, error, tries, calls>>

Raise ==
  /\ pc = "failed"
  /\ pc' = "idle"
  /\ UNCHANGED <<setup, history, streamed, request, shown, error, tries, recorded, calls>>

Ask == \E e \in Errors : Retry(e) \/ GiveUp(e)
Answer == \E t \in Turns, reported \in BOOLEAN : Complete(t, reported)
Stream ==
  \/ \E t \in Turns : OpenStream(t)
  \/ TextChunk \/ UsageChunk \/ EndStream
  \/ \E i \in DOMAIN turn.calls : ToolChunk(i)
  \/ \E e \in Errors : BreakStream(e)

\* LiteLLMClient, also below FallbackLLMClient.
CompletionWithRetry == setup.client \in {"lite", "fallback"} /\ Ask
Chat == setup.client \in {"lite", "fallback"} /\ Answer
ChatStream == setup.client = "lite" /\ Stream

\* AsyncLiteLLMClient: the same steps, with awaits between them.
ACompletionWithRetry == setup.client = "async" /\ Ask
AsyncChat == setup.client = "async" /\ Answer
AsyncChatStream == setup.client = "async" /\ Stream

\* SyncToAsyncLLMClient: the same steps, in a thread.
BridgeChat == setup.client = "bridge" /\ (Ask \/ Answer)
BridgeChatStream == setup.client = "bridge" /\ Stream

\* The awaiting task is cancelled: CancelledError is not an Exception, so it is
\* neither retried nor turned into a response.  What the bridge's thread goes on to
\* read is lost.
CancelAwait ==
  /\ setup.client \in {"async", "bridge"} /\ pc \in {"asking", "streaming"}
  /\ pc' = "failed"
  /\ error' = NoError
  /\ events' = <<>>
  /\ UNCHANGED <<setup, history, streamed, names, attempt, turn, sent, textBuf, slots, usage,
                 shown, response, tries, recorded, calls>>

Next ==
  \/ CallLlm \/ Return \/ Raise \/ CancelAwait
  \/ CompletionWithRetry \/ Chat \/ ChatStream
  \/ ACompletionWithRetry \/ AsyncChat \/ AsyncChatStream \/ BridgeChat \/ BridgeChatStream

Spec == Init /\ [][Next]_vars

-----------------------------------------------------------------------------
(***************************************************************************)
(* What the client promises                                                *)
(***************************************************************************)
\* What _call_llm returns is the provider's turn: every text fragment once
\* and in order, every tool call with its own id and all of its arguments, in
\* the order of the provider's indexes, however the fragments of the stream
\* were interleaved.  A call without arguments has none of the fragments.  And
\* what a user was shown on the way is a prefix of that one turn's text, whether
\* the request is in progress, has failed or was retried: "once chunks are
\* flowing, an error propagates rather than risking duplicated text"
\* (llm/client.py).
TurnDelivered ==
  /\ pc = "answered" =>
       /\ response.text = Fragments(turn.text)
       /\ Len(response.calls) = Len(turn.calls)
       /\ \A i \in DOMAIN turn.calls :
            /\ response.calls[i].id = i
            /\ turn.calls[i] > 0 => response.calls[i].args = Fragments(turn.calls[i])
  /\ shown = Fragments(Len(shown))
  /\ pc \in {"streaming", "failed"} => Len(shown) <= turn.text
  /\ pc = "answered" /\ streamed => Len(shown) = turn.text

\* The profiles a route leads to, by definition: the smallest set that has
\* the route and, with a profile, its fallbacks.
Closed(S) == \A p \in S : ToSet(setup.fallbacks[p]) \subseteq S
Reachable ==
  IF setup.client = "fallback"
  THEN {p \in Profiles : \A S \in SUBSET Profiles :
          ToSet(setup.route) \subseteq S /\ Closed(S) => p \in S}
  ELSE {setup.route[1]}

\* A request fails with a transient error only when every profile the route
\* leads to, through fallbacks of fallbacks and cycles, has been asked as often
\* as its client may, and none is ever asked more often; a broken stream is
\* the exception, it is asked for once.
FallbackExhausted ==
  /\ \A p \in Profiles : tries[p] <= IF p \in Reachable THEN MaxRetries + 1 ELSE 0
  /\ pc = "failed" /\ IsRetryable(error) /\ turn = NoTurn =>
       \A p \in Reachable : tries[p] = MaxRetries + 1

\* The provider's own pairing rule: an assistant message is followed by one
\* "tool" message for each of its tool_calls, and a "tool" message answers one.
\* Every history the agent may replay is translated to a request that obeys it.
WirePaired ==
  LET w == Wire(history) IN
  \A i \in DOMAIN w :
    /\ w[i].role = "assistant" =>
         \A id \in ToSet(w[i].ids) :
           \E k \in 1..Len(w[i].ids) : i + k <= Len(w) /\ w[i + k] = [role |-> "tool", ids |-> <<id>>]
    /\ w[i].role = "tool" =>
         \E j \in 1..(i - 1) :
           /\ w[j].role = "assistant" /\ w[i].ids[1] \in ToSet(w[j].ids)
           /\ \A k \in (j + 1)..(i - 1) : w[k].role = "tool"
=============================================================================
