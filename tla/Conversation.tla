---------------------------- MODULE Conversation ----------------------------
(***************************************************************************)
(* The conversation history of an agent (kinetic_sdk/conversation/state.py)*)
(* and the compaction applied to it before an LLM request                  *)
(* (kinetic_sdk/context/manager.py).                                       *)
(*                                                                         *)
(* A message keeps what the providers' pairing rule looks at: who wrote    *)
(* it and which tool_use ids it carries.  Texts are abstracted to a serial *)
(* number, so that two user turns can be told apart.                       *)
(***************************************************************************)
EXTENDS Integers, Sequences, FiniteSets, FiniteSetsExt

CONSTANTS
  Keep,         \* keep_last_tool_results of the context manager
  TailBudget,   \* TRUE when tail_token_budget is set
  MaxMessages   \* ConversationState.max_messages, 0 for None

ASSUME ConversationAssumption ==
  /\ Keep \in Nat
  /\ TailBudget \in BOOLEAN
  /\ MaxMessages \in Nat

Kinds == {"user", "text", "use", "result", "elided"}

Message == [kind : Kinds, ids : Seq(Nat)]

UserTurn(n) == [kind |-> "user", ids |-> <<n>>]

AssistantText == [kind |-> "text", ids |-> <<>>]

AssistantCalls(callIds) == [kind |-> "use", ids |-> callIds]

ToolResult(id) == [kind |-> "result", ids |-> <<id>>]

ElidedMessage(removed) == [kind |-> "elided", ids |-> <<removed>>]

-----------------------------------------------------------------------------
(***************************************************************************)
(* ConversationState: every add_* method appends and then enforces the cap *)
(***************************************************************************)
EnforceCap(h) ==
  IF MaxMessages = 0 \/ Len(h) <= MaxMessages
  THEN h
  ELSE SubSeq(h, Len(h) - MaxMessages + 1, Len(h))

Add(h, m) == EnforceCap(Append(h, m))

-----------------------------------------------------------------------------
(***************************************************************************)
(* The pairing rule of the providers: an assistant turn with tool_use      *)
(* blocks is followed by one result per block, in the order of the blocks, *)
(* and a result occurs nowhere else.                                       *)
(***************************************************************************)
AnsweredFrom(h, i) ==
  \A k \in DOMAIN h[i].ids :
    i + k <= Len(h) /\ h[i + k] = ToolResult(h[i].ids[k])

AnswersSomeUse(h, i) ==
  \E j \in 1..(i - 1) :
    /\ h[j].kind = "use"
    /\ i - j \in DOMAIN h[j].ids
    /\ h[i] = ToolResult(h[j].ids[i - j])

ReplayValid(h) ==
  \A i \in DOMAIN h :
    /\ h[i].kind = "use" => AnsweredFrom(h, i)
    /\ h[i].kind = "result" => AnswersSomeUse(h, i)

-----------------------------------------------------------------------------
(***************************************************************************)
(* SimpleTruncateContextManager.compact.  A cut is the number of messages  *)
(* before the protected tail (the code's 0-based tail_start).              *)
(***************************************************************************)
HasToolContent(m) == m.kind \in {"use", "result"}

ResultIndexes(h) == {i \in DOMAIN h : h[i].kind = "result"}

\* The index of the n-th most recent tool result.
NthLastResult(h, n) ==
  CHOOSE i \in ResultIndexes(h) :
    Cardinality({j \in ResultIndexes(h) : j >= i}) = n

\* Mutant: the tail is anchored at the newest message only.
Anchors_NewestOnly(h) == {Len(h)}

\* The message the tail is anchored at.  With a token budget the number of
\* results that fit depends on their sizes, so any number up to Keep may fit.
Anchors(h) ==
  LET n == Cardinality(ResultIndexes(h))
  IN  IF TailBudget
      THEN {Len(h)} \cup {NthLastResult(h, k) : k \in 1..Min({n, Keep})}
      ELSE IF n >= Keep THEN {NthLastResult(h, Keep)}
      ELSE IF n > 0 THEN {NthLastResult(h, n)}
      ELSE {Len(h)}

NeededIds(h, cut) ==
  {h[i].ids[1] : i \in {j \in ResultIndexes(h) : j > cut}}

ProvidedIds(h, cut) ==
  UNION {{h[i].ids[k] : k \in DOMAIN h[i].ids} :
           i \in {j \in DOMAIN h : j > cut /\ h[j].kind = "use"}}

\* Mutant: the cut may fall inside the results of one assistant turn.
ExpandToGroupBoundary_Missing(h, start) == start

ExpandToGroupBoundary(h, start) ==
  Max({cut \in 0..start :
         cut = 0 \/ NeededIds(h, cut) \subseteq ProvidedIds(h, cut)})

TailStarts(h) ==
  IF Keep = 0
  THEN {Len(h)}
  ELSE {ExpandToGroupBoundary(h, Max({0, a - 2})) : a \in Anchors(h)}

CutAt(h, tailStart) ==
  LET headEnd == IF tailStart > 0 /\ ~HasToolContent(h[1]) THEN 1 ELSE 0
  IN  IF tailStart - headEnd <= 0
      THEN h
      ELSE SubSeq(h, 1, headEnd) \o <<ElidedMessage(tailStart - headEnd)>>
             \o SubSeq(h, tailStart + 1, Len(h))

\* The possible results of compact(): a singleton without a tail budget.
Compactions(h) ==
  IF Len(h) <= 2 THEN {h} ELSE {CutAt(h, t) : t \in TailStarts(h)}
=============================================================================
