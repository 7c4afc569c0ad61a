--------------------------- MODULE ConversationLog ---------------------------
(***************************************************************************)
(* A ConversationState under its context manager and its store, in every   *)
(* order the agent loop uses them: turns are appended, the calls of an     *)
(* assistant turn are answered in order, a completed turn is saved, between *)
(* rounds SummarizingContextManager may replace the history by a compacted *)
(* copy, any number of times, the caller may rewind it, and the process    *)
(* may die and resume from the store.                                      *)
(*                                                                         *)
(* The finding a summary may hold of a message is the message's number, and *)
(* a tool output is its length in characters.  Token estimates decide only *)
(* when to compact and are left out: compaction may come at any time.      *)
(***************************************************************************)
EXTENDS Conversation, SequencesExt

CONSTANTS
  MaxLen,      \* bound: no turn is added to a history of this length
  MaxSerial,   \* bound: user turns and tool calls ever made
  MaxBatch,    \* tool calls in one assistant turn
  Setups,      \* the configurations: see setup
  MinTarget,   \* what _compact_tool_output_to_budget leaves of an output at least
  Marker,      \* length of TRUNCATION_MARKER
  BatchSize,   \* bound: messages that fit in one call of the summarizer
  MaxItems,    \* max_items_per_field
  MaxFindings  \* findings that fit in max_structured_chars

ASSUME LogAssumption ==
  /\ MaxLen \in Nat /\ MaxSerial \in Nat /\ MaxBatch \in Nat \ {0}
  /\ MinTarget \in Nat /\ Marker \in Nat
  /\ MaxItems \in Nat \ {0} /\ BatchSize \in Nat \ {0} /\ MaxFindings \in Nat

VARIABLES
  setup,      \* summarizer: "none" or "progressive"; allowed characters of tool output and
              \* max_tool_result_chars, 0 for None; a ToolOutputCompressor; a ConversationStore;
              \* bounds: lengths of tool outputs (sizes), calls of rewind_state (rewinds)
  messages,   \* ConversationState.messages
  open,       \* tool_use ids of the last assistant turn not answered yet
  serial,     \* serial number of the last user turn or tool call
  size,       \* tool_use id -> length of its result's text, for the results in the history
  summary,    \* metadata["structured_summary"], None before there is one
  disk,       \* what the store holds: [messages, size]
  found,      \* ghost: the findings ever merged, field by field
  unsaved,    \* ghost: completed turns the store does not have
  rewinds,    \* counter of the bound
  split       \* ghost: calls whose turn a rewind cut between two results

rewindVars == <<rewinds, split>>

vars == <<setup, messages, open, serial, size, summary, disk, found, unsaved, rewindVars>>

Fields == <<"goal", "errors_encountered">>   \* two of the five, in their order

None == [f \in ToSet(Fields) |-> <<0>>]

NoFindings == [f \in ToSet(Fields) |-> <<>>]

-----------------------------------------------------------------------------
(***************************************************************************)
(* StructuredSummary and ProgressiveSummarizer                             *)
(***************************************************************************)
Carried(h, kind) == FoldLeft(LAMBDA acc, m : IF m.kind = kind THEN acc \o m.ids ELSE acc, <<>>, h)

\* What the model extracts from a batch; it may repeat an error it was shown.
Extracted(batch, again) ==
  LET of(kind) == Carried(batch, kind)
  IN  [f \in ToSet(Fields) |-> IF f = "goal" THEN of("user") ELSE again \o of("result")]

Repeats(previous) == {<<>>} \cup {<<x>> : x \in ToSet(previous["errors_encountered"])}

\* merged: earlier findings first, without duplicates.
Merged(old, newer) ==
  [f \in DOMAIN old |-> old[f] \o SelectSeq(newer[f], LAMBDA x : x \notin ToSet(old[f]))]

\* _batches: consecutive messages, as many as a call takes.
Batches(span) ==
  [k \in 1..((Len(span) + BatchSize - 1) \div BatchSize) |->
     SubSeq(span, (k - 1) * BatchSize + 1, Min({k * BatchSize, Len(span)}))]

\* ProgressiveSummarizer.summarize: one call per batch, each merged into the rest.
Accumulated(previous, span, again) ==
  FoldLeft(LAMBDA acc, batch : Merged(acc, Extracted(batch, again)), previous, Batches(span))

LastOf(s, n) == IF Len(s) <= n THEN s ELSE SubSeq(s, Len(s) - n + 1, Len(s))

Count(fields) == FoldLeft(LAMBDA n, f : n + Len(fields[f]), 0, Fields)

\* The most verbose field; the first of them.
Longest(fields) ==
  FoldLeft(LAMBDA best, f : IF Len(fields[f]) > Len(fields[best]) THEN f ELSE best,
           Head(Fields), Fields)

\* The oldest finding of the most verbose field goes, until the rest fits.
RECURSIVE Shortened(_)
Shortened(fields) ==
  IF Count(fields) <= MaxFindings THEN fields
  ELSE Shortened([fields EXCEPT ![Longest(fields)] = Tail(@)])

Limited(fields) == Shortened([f \in DOMAIN fields |-> LastOf(fields[f], MaxItems)])

-----------------------------------------------------------------------------
(***************************************************************************)
(* Tool outputs that are too long                                          *)
(***************************************************************************)
\* _head_tail keeps limit characters and puts a marker between them.
HeadTail(limit) == limit + Marker

\* compress keeps whole salient lines, within the limit.
Compressed(limit) == limit

\* _truncate_block
Truncated(length, limit) ==
  IF length <= limit THEN length
  ELSE IF setup.compressor THEN Compressed(limit) ELSE HeadTail(limit)

\* _truncate_oversized_tool_results
TruncateOversized(sizes) ==
  IF setup.limit = 0 THEN sizes ELSE [id \in DOMAIN sizes |-> Truncated(sizes[id], setup.limit)]

Results(h) == Carried(h, "result")

Total(h, sizes) == FoldLeft(LAMBDA n, id : n + sizes[id], 0, Results(h))

\* One block of the loop in _compact_tool_output_to_budget.
ReduceBlock(sizes, remaining, id) ==
  LET target == Max({MinTarget, sizes[id] - (remaining - setup.allowed)})
  IN  IF remaining <= setup.allowed \/ target >= sizes[id] THEN sizes[id]
      ELSE Truncated(sizes[id], target)

BlockOrder(h) == Results(h)

\* _compact_tool_output_to_budget: until the outputs fit, block after block.
CompactToolOutput(h, sizes) ==
  LET step(acc, id) ==
        LET n == ReduceBlock(acc.sizes, acc.remaining, id)
        IN  [sizes |-> [acc.sizes EXCEPT ![id] = n], remaining |-> acc.remaining - (acc.sizes[id] - n)]
  IN  FoldLeft(step, [sizes |-> sizes, remaining |-> Total(h, sizes)], BlockOrder(h)).sizes

-----------------------------------------------------------------------------
Init ==
  /\ setup \in Setups
  /\ messages = <<>> /\ open = <<>> /\ serial = 0 /\ size = <<>>
  /\ summary = None /\ found = NoFindings
  /\ disk = [messages |-> <<>>, size |-> <<>>] /\ unsaved = 0
  /\ rewinds = 0 /\ split = {}

MayAdd == Len(messages) < MaxLen

\* Agent._persist_state: json.dump raises on a StructuredSummary in the metadata,
\* and the failure is logged.
Persist ==
  IF setup.store /\ summary = None
  THEN disk' = [messages |-> messages', size |-> size'] /\ unsaved' = 0
  ELSE unsaved' = (IF setup.store THEN Min({unsaved + 1, 2}) ELSE 0) /\ UNCHANGED disk

AddUserMessage ==
  /\ MayAdd /\ open = <<>> /\ serial < MaxSerial
  /\ messages' = Add(messages, UserTurn(serial + 1))
  /\ serial' = serial + 1
  /\ UNCHANGED <<setup, open, size, summary, disk, found, unsaved, rewindVars>>

AddAssistantText ==
  /\ MayAdd /\ open = <<>> /\ messages # <<>>
  /\ messages' = Add(messages, AssistantText)
  /\ UNCHANGED <<setup, open, serial, size, summary, found, rewindVars>>
  /\ Persist

AddAssistantCalls ==
  \E n \in 1..MaxBatch :
    /\ MayAdd /\ open = <<>> /\ messages # <<>> /\ serial + n <= MaxSerial
    /\ open' = [k \in 1..n |-> serial + k]
    /\ messages' = Add(messages, AssistantCalls(open'))
    /\ serial' = serial + n
    /\ UNCHANGED <<setup, size, summary, disk, found, unsaved, rewindVars>>

\* The last result of a turn completes it.
AddToolResult(n) ==
  /\ open # <<>>
  /\ messages' = Add(messages, ToolResult(Head(open)))
  /\ open' = Tail(open)
  /\ size' = [id \in DOMAIN size \cup {Head(open)} |-> IF id = Head(open) THEN n ELSE size[id]]
  /\ IF open' = <<>> THEN Persist ELSE UNCHANGED <<disk, unsaved>>
  /\ UNCHANGED <<setup, serial, summary, found, rewindVars>>

\* The outputs are over their share of the budget and can be reduced.
Reducible == setup.allowed # 0 /\ CompactToolOutput(messages, size) # size

ReduceToolOutput ==
  /\ open = <<>> /\ Reducible
  /\ size' = CompactToolOutput(messages, size)
  /\ UNCHANGED <<setup, messages, open, serial, summary, disk, found, unsaved, rewindVars>>

\* Mutant: the summary of earlier rounds is not read back from the metadata.
Previous_Forgotten == NoFindings

\* compact: _progressive_previous.
Previous == IF summary = None THEN NoFindings ELSE summary

\* A call raises or returns no valid JSON: the findings of earlier batches go
\* with it and the plain placeholder stays.
SummaryFails == UNCHANGED <<summary, found>>

SummarySucceeds(span) ==
  \E again \in Repeats(Previous) :
    /\ summary' = Limited(Accumulated(Previous, span, again))
    /\ found' = Merged(found, Extracted(span, again))

\* _elided_message and _summarize.
Summarize(span) ==
  IF setup.summarizer = "none" \/ span = <<>>
  THEN UNCHANGED <<summary, found>>
  ELSE SummarySucceeds(span) \/ SummaryFails

\* The span a cut drops.
Elided(h, tailStart) ==
  LET headEnd == IF tailStart > 0 /\ ~HasToolContent(h[1]) THEN 1 ELSE 0
  IN  IF Len(h) <= 2 THEN <<>> ELSE SubSeq(h, headEnd + 1, tailStart)

Compact ==
  /\ open = <<>> /\ ~Reducible
  /\ \E t \in TailStarts(messages) :
       /\ messages' = IF Len(messages) <= 2 THEN messages ELSE CutAt(messages, t)
       /\ Summarize(Elided(messages, t))
  /\ size' = TruncateOversized([id \in ToSet(Results(messages')) |-> size[id]])
  /\ UNCHANGED <<setup, open, serial, disk, unsaved, rewindVars>>

\* rewind_state refuses a cut right behind a message with tool_use blocks.
Rewindable(h, keep) == keep > 0 => h[keep].kind # "use"

\* The calls of the last kept result's turn whose results the cut dropped.
SplitOff(kept) ==
  {id \in ToSet(Carried(kept, "use")) \ ToSet(Results(kept)) :
     \E k \in DOMAIN kept : {id, Last(kept).ids[1]} \subseteq ToSet(kept[k].ids)}

\* rewind_state, and an agent that goes on with what it returns: the messages are
\* cut, the metadata kept, and nothing is saved.
Rewind(keep) ==
  /\ rewinds < setup.rewinds /\ Rewindable(messages, keep)
  /\ rewinds' = rewinds + 1
  /\ messages' = SubSeq(messages, 1, keep) /\ open' = <<>>
  /\ size' = [id \in ToSet(Results(messages')) |-> size[id]]
  /\ split' = IF keep > 0 /\ messages[keep].kind = "result"
              THEN split \cup SplitOff(messages') ELSE split
  /\ UNCHANGED <<setup, serial, summary, disk, found, unsaved>>

\* The process dies; a new agent loads the state.
CrashAndRestart ==
  /\ setup.store
  /\ messages' = disk.messages /\ size' = disk.size /\ open' = <<>>
  /\ summary' = None /\ found' = NoFindings /\ unsaved' = 0
  /\ UNCHANGED <<setup, serial, disk, rewindVars>>

Next ==
  \/ AddUserMessage \/ AddAssistantText \/ AddAssistantCalls
  \/ (\E n \in setup.sizes : AddToolResult(n))
  \/ ReduceToolOutput \/ Compact \/ CrashAndRestart
  \/ (\E keep \in 0..Len(messages) : Rewind(keep))

Spec == Init /\ [][Next]_vars

-----------------------------------------------------------------------------
(***************************************************************************)
(* Whenever the loop may send the history to the model, every tool_use has *)
(* its result right behind it and no result is orphaned, however often the *)
(* history was compacted ("Tool-block integrity is guaranteed",            *)
(* context/manager.py:562) and wherever rewind_state cut it, a history     *)
(* with an open turn included ("never on an assistant message carrying     *)
(* tool_use without its results", conversation/checkpoint.py:11-14).  The  *)
(* only calls ever left without a result are those of a turn that a rewind *)
(* cut between two of its results, which checkpoint.py:54-55 takes for a   *)
(* valid boundary: no other turn suffers from it, then or later.           *)
(***************************************************************************)
PairingSurvives ==
  open = <<>> => \A i \in DOMAIN messages :
    /\ messages[i].kind = "use" => \A k \in DOMAIN messages[i].ids :
         \/ messages[i].ids[k] \in split
         \/ i + k \in DOMAIN messages /\ messages[i + k] = ToolResult(messages[i].ids[k])
    /\ messages[i].kind = "result" => AnswersSomeUse(messages, i)

LastResults(h, n) ==
  LET results == SelectSeq(h, LAMBDA m : m.kind = "result")
  IN  IF Len(results) <= n
      THEN results
      ELSE SubSeq(results, Len(results) - n + 1, Len(results))

(***************************************************************************)
(* Compaction keeps the Keep most recent tool results, in order, when no   *)
(* token budget is set, and always the newest message, which is what the   *)
(* model must act on next (context/manager.py:7-9).                        *)
(***************************************************************************)
RecentPastSurvives ==
  [][Compact /\ messages # <<>> =>
       /\ Last(messages') = Last(messages)
       /\ ~TailBudget => LastResults(messages', Keep) = LastResults(messages, Keep)]_vars

(***************************************************************************)
(* Findings survive: what the summaries of earlier rounds found is still in *)
(* the metadata, whatever rounds failed in between, except that the oldest *)
(* findings of a field give way when a limit is reached                    *)
(* (context/manager.py:183-188, 217-238, 857-873).                         *)
(***************************************************************************)
FindingsSurvive ==
  summary # None =>
    \A f \in DOMAIN summary :
      /\ summary[f] = LastOf(found[f], Len(summary[f]))
      /\ \/ summary[f] = found[f]
         \/ Len(summary[f]) = MaxItems
         \/ Count(summary) = MaxFindings

(***************************************************************************)
(* "persists after every turn, so a crash mid-run loses at most the        *)
(* in-flight turn" (conversation/store.py:5-6).                            *)
(***************************************************************************)
CrashLosesInFlightTurn == unsaved <= 1
=============================================================================
