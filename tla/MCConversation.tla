--------------------------- MODULE MCConversation ---------------------------
(***************************************************************************)
(* Instances of ConversationLog for TLC.                                   *)
(***************************************************************************)
EXTENDS ConversationLog

Plain == [summarizer |-> "none", allowed |-> 0, limit |-> 0, compressor |-> FALSE, store |-> FALSE,
          sizes |-> {1}, rewinds |-> 0]

\* Truncation with a store and rewinds, summaries, and a budget for tool outputs, without a
\* compressor and with one.
MCSetups ==
  {[Plain EXCEPT !.store = TRUE, !.rewinds = 1],
   [Plain EXCEPT !.summarizer = "progressive"],
   [Plain EXCEPT !.allowed = 8, !.sizes = {1, 4, 6}],
   [Plain EXCEPT !.allowed = 8, !.compressor = TRUE, !.limit = 4, !.sizes = {1, 6}]}

\* Summaries with a store: what the store cannot save.
SummariesSaved == {[Plain EXCEPT !.summarizer = "progressive", !.store = TRUE]}
=============================================================================
