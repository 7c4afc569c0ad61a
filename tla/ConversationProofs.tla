------------------------- MODULE ConversationProofs -------------------------
(***************************************************************************)
(* Facts about the operators of Conversation that hold for every history:  *)
(* which messages an append, the cap and a compaction leave behind, and    *)
(* that a compaction separates no tool call from its result.               *)
(***************************************************************************)
EXTENDS Conversation, FiniteSetTheorems, WellFoundedInduction, TLAPS

\* A set of naturals has a least element (what minimal counterexamples need).
LEMMA LeastNatural ==
  ASSUME NEW S \in SUBSET Nat, S # {}
  PROVE  \E x \in S : \A y \in S : x <= y
<1>1. PICK x \in S : \A y \in S : ~(<<y, x>> \in OpToRel(<, Nat))
  BY NatLessThanWellFounded, WFMin, Zenon
<1>2. \A y \in S : <<y, x>> \in OpToRel(<, Nat) <=> y < x
  BY DEF OpToRel
<1>3. \A y \in S : ~(y < x)
  BY <1>1, <1>2, Zenon
<1>4. \A y \in S : x <= y
  BY <1>3
<1>5. QED
  BY <1>4

\* A bounded set of naturals has a greatest element, and Max returns it.
LEMMA MaxOfBounded ==
  ASSUME NEW n \in Nat, NEW S \in SUBSET (0..n), S # {}
  PROVE  Max(S) \in S /\ \A y \in S : y <= Max(S)
<1> DEFINE T == {t \in Nat : n - t \in S}
<1>1. PICK s : s \in S
  OBVIOUS
<1>2. n - s \in T
  BY <1>1
<1>3. PICK t \in T : \A u \in T : t <= u
  BY <1>2, LeastNatural, Zenon
<1>4. n - t \in S /\ \A y \in S : n - y \in T
  BY <1>3
<1>5. ASSUME NEW y \in S PROVE n - t >= y
  <2>1. t <= n - y
    BY <1>3, <1>4
  <2>2. t \in Nat /\ y \in Nat
    OBVIOUS
  <2>3. QED
    BY <2>1, <2>2
<1>6. \E x \in S : \A y \in S : x >= y
  BY <1>4, <1>5
<1>7. QED
  BY <1>6, Zenon DEF Max

-----------------------------------------------------------------------------
\* The cap keeps a suffix of the history, so its messages are messages.
LEMMA EnforceCapType ==
  ASSUME NEW h \in Seq(Message)
  PROVE  EnforceCap(h) \in Seq(Message)
BY ConversationAssumption DEF EnforceCap

LEMMA MessageTypes ==
  /\ AssistantText \in Message
  /\ \A ids \in Seq(Nat) : AssistantCalls(ids) \in Message
  /\ \A n \in Nat : /\ UserTurn(n) \in Message /\ ToolResult(n) \in Message
                    /\ ElidedMessage(n) \in Message
<1>1. <<>> \in Seq(Nat) /\ \A n \in Nat : <<n>> \in Seq(Nat)
  OBVIOUS
<1>2. QED
  BY <1>1 DEF UserTurn, AssistantText, AssistantCalls, ToolResult, ElidedMessage,
              Message, Kinds

\* Every add_* method of ConversationState leaves a sequence of messages.
LEMMA AddType ==
  ASSUME NEW h \in Seq(Message), NEW m \in Message
  PROVE  Add(h, m) \in Seq(Message)
<1>1. Append(h, m) \in Seq(Message)
  OBVIOUS
<1>2. QED
  BY <1>1, EnforceCapType, Zenon DEF Add

\* Without a cap on the messages nothing but the addition happens.
LEMMA NoCap ==
  ASSUME MaxMessages = 0
  PROVE  \A h, m : EnforceCap(h) = h /\ Add(h, m) = Append(h, m)
BY DEF EnforceCap, Add

\* A cut inside the history, or at one of its ends, leaves messages only.
LEMMA CutAtType ==
  ASSUME NEW h \in Seq(Message), NEW t \in 0..Len(h)
  PROVE  CutAt(h, t) \in Seq(Message)
<1> DEFINE headEnd == IF t > 0 /\ ~HasToolContent(h[1]) THEN 1 ELSE 0
<1>1. CASE t - headEnd <= 0
  BY <1>1 DEF CutAt
<1>2. CASE ~(t - headEnd <= 0)
  <2>1. t - headEnd \in Nat /\ headEnd \in 0..Len(h)
    BY <1>2
  <2> HIDE DEF headEnd
  <2>2. ElidedMessage(t - headEnd) \in Message
    BY <2>1, MessageTypes
  <2>3. SubSeq(h, 1, headEnd) \in Seq(Message)
    BY <2>1
  <2>4. SubSeq(h, t + 1, Len(h)) \in Seq(Message)
    OBVIOUS
  <2>5. SubSeq(h, 1, headEnd) \o <<ElidedMessage(t - headEnd)>>
          \o SubSeq(h, t + 1, Len(h)) \in Seq(Message)
    BY <2>2, <2>3, <2>4
  <2>6. QED
    BY <1>2, <2>5 DEF CutAt, headEnd
<1>3. QED
  BY <1>1, <1>2

-----------------------------------------------------------------------------
\* The k-th greatest element of a finite set of naturals exists: the least k
\* without one would have a predecessor, and an element below it.
LEMMA RankExists ==
  ASSUME NEW n \in Nat, NEW S \in SUBSET (0..n), NEW k \in 1..Cardinality(S)
  PROVE  \E i \in S : Cardinality({j \in S : j >= i}) = k
<1> DEFINE Above(i) == {j \in S : j >= i}
           Ranked(m) == \E i \in S : Cardinality(Above(i)) = m
           Missing   == {m \in Nat : m \in 1..Cardinality(S) /\ ~Ranked(m)}
<1>1. IsFiniteSet(S) /\ Cardinality(S) \in Nat
  <2>1. IsFiniteSet(0..n)
    BY FS_Interval
  <2>2. IsFiniteSet(S)
    BY <2>1, FS_Subset, Zenon
  <2>3. QED
    BY <2>2, FS_CardinalityType
<1>2. SUFFICES ASSUME Missing # {} PROVE FALSE
  BY <1>1
<1>3. PICK m \in Missing : \A l \in Missing : m <= l
  BY <1>2, LeastNatural, Zenon
<1>4. m \in 1..Cardinality(S) /\ ~Ranked(m)
  OBVIOUS
<1>5. ASSUME NEW T \in SUBSET S, T # S, IsFiniteSet(T), Cardinality(T) = m - 1,
             \A t \in T, s \in S : s >= t => s \in T
      PROVE  FALSE
  <2> DEFINE i == Max(S \ T)
  <2>1. i \in S \ T /\ \A y \in S \ T : y <= i
    <3>1. S \ T \in SUBSET (0..n) /\ S \ T # {}
      BY <1>5, Zenon
    <3>2. QED
      BY <3>1, MaxOfBounded, Zenon
  <2> HIDE DEF i
  <2>2. Above(i) = T \cup {i}
    <3>1. ASSUME NEW s \in S PROVE s >= i <=> s \in T \/ s = i
      <4>1. s \in Int /\ i \in Int
        BY <2>1
      <4>2. ASSUME s >= i, s \notin T PROVE s = i
        BY <2>1, <4>1, <4>2
      <4>3. ASSUME s \in T PROVE s >= i
        BY <1>5, <2>1, <4>1, <4>3
      <4>4. QED
        BY <4>1, <4>2, <4>3
    <3>2. QED
      BY <3>1, <2>1, Zenon
  <2>3. Cardinality(T \cup {i}) = m
    <3>1. Cardinality(T \cup {i}) = Cardinality(T) + 1
      BY <1>5, <2>1, FS_AddElement, Zenon
    <3>2. QED
      BY <3>1, <1>5
  <2>4. QED
    BY <2>1, <2>2, <2>3, <1>4
<1>6. CASE m = 1
  <2>1. Cardinality({}) = m - 1 /\ IsFiniteSet({}) /\ {} # S
    BY <1>6, <1>4, FS_EmptySet
  <2>2. QED
    BY <2>1, <1>5
<1>7. CASE m # 1
  <2>1. Ranked(m - 1)
    <3>1. m - 1 \in 1..Cardinality(S) /\ m - 1 \notin Missing
      BY <1>1, <1>3, <1>4, <1>7
    <3>2. QED
      BY <3>1
  <2>2. PICK i \in S : Cardinality(Above(i)) = m - 1
    BY <2>1, SMTT(30), ZenonT(30)
  <2>3. IsFiniteSet(Above(i)) /\ Above(i) \in SUBSET S
    BY <1>1, FS_Subset
  <2>4. Above(i) # S
    <3>1. m - 1 # Cardinality(S)
      BY <1>1, <1>4
    <3> HIDE DEF Above
    <3>2. QED
      BY <2>2, <3>1
  <2>5. \A t \in Above(i), s \in S : s >= t => s \in Above(i)
    OBVIOUS
  <2> HIDE DEF Above
  <2>6. QED
    BY <2>2, <2>3, <2>4, <2>5, <1>5
<1>8. QED
  BY <1>6, <1>7

\* The number of tool results is a natural number, and each k up to it has a
\* k-th most recent result inside the history.
LEMMA NthLastResultType ==
  ASSUME NEW h \in Seq(Message)
  PROVE  /\ Cardinality(ResultIndexes(h)) \in Nat
         /\ \A k \in 1..Cardinality(ResultIndexes(h)) : NthLastResult(h, k) \in 1..Len(h)
<1>1. ResultIndexes(h) \subseteq 1..Len(h)
  BY DEF ResultIndexes
<1>2. Cardinality(ResultIndexes(h)) \in Nat
  <2>1. IsFiniteSet(1..Len(h))
    BY FS_Interval
  <2>2. IsFiniteSet(ResultIndexes(h))
    BY <1>1, <2>1, FS_Subset
  <2>3. QED
    BY <2>2, FS_CardinalityType
<1>3. ASSUME NEW k \in 1..Cardinality(ResultIndexes(h))
      PROVE  NthLastResult(h, k) \in 1..Len(h)
  <2>1. ResultIndexes(h) \in SUBSET (0..Len(h)) /\ Len(h) \in Nat
    BY <1>1
  <2>2. \E i \in ResultIndexes(h) :
          Cardinality({j \in ResultIndexes(h) : j >= i}) = k
    BY <2>1, RankExists, Zenon
  <2>3. NthLastResult(h, k) \in ResultIndexes(h)
    BY <2>2, Zenon DEF NthLastResult
  <2>4. QED
    BY <1>1, <2>3
<1>4. QED
  BY <1>2, <1>3

LEMMA MinOfTwo ==
  ASSUME NEW a \in Nat, NEW b \in Nat
  PROVE  Min({a, b}) \in Nat /\ Min({a, b}) <= a
<1>1. \E x \in {a, b} : \A y \in {a, b} : x =< y
  OBVIOUS
<1>2. Min({a, b}) \in {a, b} /\ \A y \in {a, b} : Min({a, b}) =< y
  BY <1>1 DEF Min
<1>3. QED
  BY <1>2

LEMMA AnchorsType ==
  ASSUME NEW h \in Seq(Message), Len(h) > 0, Keep # 0
  PROVE  Anchors(h) \subseteq 1..Len(h)
<1> DEFINE n == Cardinality(ResultIndexes(h))
<1>1. n \in Nat /\ \A k \in 1..n : NthLastResult(h, k) \in 1..Len(h)
  BY NthLastResultType
<1>2. Len(h) \in 1..Len(h)
  OBVIOUS
<1> HIDE DEF n
<1>3. CASE TailBudget
  <2>1. \A k \in 1..Min({n, Keep}) : k \in 1..n
    BY <1>1, MinOfTwo, ConversationAssumption
  <2>2. {NthLastResult(h, k) : k \in 1..Min({n, Keep})} \subseteq 1..Len(h)
    BY <1>1, <2>1, Zenon
  <2>3. QED
    BY <1>2, <1>3, <2>2, Zenon DEF Anchors, n
<1>4. CASE ~TailBudget
  <2>1. CASE n >= Keep
    <3>1. NthLastResult(h, Keep) \in 1..Len(h)
      BY <1>1, <2>1, ConversationAssumption
    <3>2. QED
      BY <1>4, <2>1, <3>1 DEF Anchors, n
  <2>2. CASE ~(n >= Keep) /\ n > 0
    <3>1. NthLastResult(h, n) \in 1..Len(h)
      BY <1>1, <2>2
    <3>2. QED
      BY <1>4, <2>2, <3>1 DEF Anchors, n
  <2>3. CASE ~(n >= Keep) /\ ~(n > 0)
    BY <1>2, <1>4, <2>3 DEF Anchors, n
  <2>4. QED
    BY <2>1, <2>2, <2>3
<1>5. QED
  BY <1>3, <1>4

\* The tail compact() protects starts inside the history.
LEMMA TailStartsType ==
  ASSUME NEW h \in Seq(Message), Len(h) > 0
  PROVE  TailStarts(h) \subseteq 0..Len(h)
<1>1. CASE Keep = 0
  BY <1>1 DEF TailStarts
<1>2. CASE Keep # 0
  <2>1. ASSUME NEW a \in 1..Len(h)
        PROVE  ExpandToGroupBoundary(h, Max({0, a - 2})) \in 0..Len(h)
    <3> DEFINE start == Max({0, a - 2})
               cuts  == {cut \in 0..start :
                           cut = 0 \/ NeededIds(h, cut) \subseteq ProvidedIds(h, cut)}
    <3>1. start \in 0..Len(h)
      <4>1. \E x \in {0, a - 2} : \A y \in {0, a - 2} : x >= y
        OBVIOUS
      <4>2. start \in {0, a - 2} /\ \A y \in {0, a - 2} : start >= y
        BY <4>1, Zenon DEF Max
      <4>3. QED
        BY <4>2
    <3> HIDE DEF start
    <3>2. start \in Nat /\ cuts \in SUBSET (0..start) /\ 0 \in cuts
      BY <3>1
    <3>3. Max(cuts) \in 0..start
      BY <3>2, MaxOfBounded, Zenon
    <3>4. QED
      BY <3>1, <3>3 DEF ExpandToGroupBoundary, start
  <2>2. QED
    BY <1>2, <2>1, AnchorsType, Zenon DEF TailStarts
<1>3. QED
  BY <1>1, <1>2

(***************************************************************************)
(* Whatever the history, every outcome of SimpleTruncateContextManager's   *)
(* compact() is a sequence of messages: the anchor, the group boundary and *)
(* the cut all exist.                                                      *)
(***************************************************************************)
THEOREM CompactionsType ==
  ASSUME NEW h \in Seq(Message), NEW c \in Compactions(h)
  PROVE  c \in Seq(Message)
<1>1. CASE Len(h) <= 2
  BY <1>1 DEF Compactions
<1>2. CASE ~(Len(h) <= 2)
  <2>1. PICK t \in TailStarts(h) : c = CutAt(h, t)
    BY <1>2 DEF Compactions
  <2>2. t \in 0..Len(h)
    BY <1>2, TailStartsType
  <2>3. QED
    BY <2>1, <2>2, CutAtType
<1>3. QED
  BY <1>1, <1>2

-----------------------------------------------------------------------------
\* Appending keeps what is there.
LEMMA AppendKeeps ==
  ASSUME NEW h \in Seq(Message), NEW m \in Message
  PROVE  /\ Append(h, m) \in Seq(Message) /\ Len(Append(h, m)) = Len(h) + 1
         /\ DOMAIN Append(h, m) = 1..(Len(h) + 1) /\ DOMAIN h = 1..Len(h) /\ Len(h) \in Nat
         /\ \A i \in 1..Len(h) : Append(h, m)[i] = h[i]
         /\ Append(h, m)[Len(h) + 1] = m
OBVIOUS

\* A longer history g answers the calls the shorter one h does.
LEMMA PrefixAnswers ==
  ASSUME NEW h \in Seq(Message), NEW g \in Seq(Message), Len(h) <= Len(g),
         \A i \in 1..Len(h) : g[i] = h[i],
         NEW i \in 1..Len(h)
  PROVE  /\ AnsweredFrom(h, i) => AnsweredFrom(g, i)
         /\ AnswersSomeUse(h, i) => AnswersSomeUse(g, i)
<1>1. /\ Len(h) \in Nat /\ Len(g) \in Nat /\ DOMAIN h[i].ids = 1..Len(h[i].ids)
      /\ Len(h[i].ids) \in Nat
  <2>1. h[i] \in Message
    OBVIOUS
  <2>2. h[i].ids \in Seq(Nat)
    BY <2>1 DEF Message
  <2>3. QED
    BY <2>2
<1>2. ASSUME AnsweredFrom(h, i) PROVE AnsweredFrom(g, i)
  <2>1. \A k \in DOMAIN h[i].ids : i + k \in 1..Len(h) /\ h[i + k] = ToolResult(h[i].ids[k])
    BY <1>1, <1>2 DEF AnsweredFrom
  <2>2. QED
    BY <1>1, <2>1, SMTT(30), ZenonT(30) DEF AnsweredFrom
<1>3. ASSUME AnswersSomeUse(h, i) PROVE AnswersSomeUse(g, i)
  BY <1>3, SMTT(30), ZenonT(30) DEF AnswersSomeUse
<1>4. QED
  BY <1>2, <1>3

\* A user turn, a text answer or a placeholder disturbs no pair.
LEMMA PlainKeepsPairing ==
  ASSUME NEW h \in Seq(Message), NEW m \in Message, ReplayValid(h), ~HasToolContent(m)
  PROVE  ReplayValid(Append(h, m))
<1> DEFINE g == Append(h, m)
<1>1. /\ g \in Seq(Message) /\ Len(g) = Len(h) + 1 /\ DOMAIN g = 1..(Len(h) + 1)
      /\ DOMAIN h = 1..Len(h) /\ Len(h) \in Nat
      /\ \A i \in 1..Len(h) : g[i] = h[i]
      /\ g[Len(h) + 1] = m
  BY AppendKeeps
<1> HIDE DEF g
<1>2. ASSUME NEW i \in 1..Len(h)
      PROVE  /\ g[i].kind = "use" => AnsweredFrom(g, i)
             /\ g[i].kind = "result" => AnswersSomeUse(g, i)
  BY <1>1, PrefixAnswers DEF ReplayValid
<1>3. QED
  BY <1>1, <1>2 DEF ReplayValid, HasToolContent, g

\* The history ends with an assistant turn that asked for the calls ids and with
\* the results of the first r of them; nothing else is open.
RoundOpen(h, ids, r) ==
  \E u \in DOMAIN h :
    /\ Len(h) = u + r /\ r <= Len(ids)
    /\ h[u] = AssistantCalls(ids)
    /\ \A k \in 1..r : h[u + k] = ToolResult(ids[k])
    /\ \A i \in DOMAIN h :
         /\ h[i].kind = "use" /\ i # u => AnsweredFrom(h, i)
         /\ h[i].kind = "result" => AnswersSomeUse(h, i)

\* The assistant's turn opens a round.
LEMMA RoundBegins ==
  ASSUME NEW h \in Seq(Message), NEW ids \in Seq(Nat), ReplayValid(h)
  PROVE  RoundOpen(Append(h, AssistantCalls(ids)), ids, 0)
<1> DEFINE m == AssistantCalls(ids)
           g == Append(h, m)
<1>1. m \in Message
  BY MessageTypes
<1>2. /\ g \in Seq(Message) /\ Len(g) = Len(h) + 1 /\ DOMAIN g = 1..(Len(h) + 1)
      /\ DOMAIN h = 1..Len(h) /\ Len(h) \in Nat
      /\ \A i \in 1..Len(h) : g[i] = h[i]
      /\ g[Len(h) + 1] = m
  BY <1>1, AppendKeeps
<1> HIDE DEF g
<1>3. ASSUME NEW i \in 1..Len(h)
      PROVE  /\ g[i].kind = "use" => AnsweredFrom(g, i)
             /\ g[i].kind = "result" => AnswersSomeUse(g, i)
  BY <1>2, PrefixAnswers, SMTT(30), ZenonT(30) DEF ReplayValid
<1>4. m.kind = "use" /\ Len(ids) \in Nat
  BY DEF AssistantCalls
<1> DEFINE u == Len(h) + 1
<1>5. /\ u \in DOMAIN g /\ Len(g) = u + 0 /\ 0 <= Len(ids) /\ g[u] = AssistantCalls(ids)
  BY <1>2, <1>4
<1>6. ASSUME NEW i \in DOMAIN g
      PROVE  /\ g[i].kind = "use" /\ i # u => AnsweredFrom(g, i)
             /\ g[i].kind = "result" => AnswersSomeUse(g, i)
  BY <1>2, <1>3, <1>4
<1>7. \A k \in 1..0 : g[u + k] = ToolResult(ids[k])
  OBVIOUS
<1> HIDE DEF u
<1>8. QED
  BY <1>5, <1>6, <1>7 DEF RoundOpen, g

\* The results of the next calls, one or several, continue it.
LEMMA RoundContinues ==
  ASSUME NEW h \in Seq(Message), NEW ids \in Seq(Nat), NEW r \in Nat, NEW s \in Seq(Message),
         RoundOpen(h, ids, r), r + Len(s) <= Len(ids),
         \A k \in 1..Len(s) : s[k] = ToolResult(ids[r + k])
  PROVE  RoundOpen(h \o s, ids, r + Len(s))
<1> DEFINE g == h \o s
           n == Len(s)
<1>1. /\ g \in Seq(Message) /\ Len(g) = Len(h) + n /\ DOMAIN g = 1..(Len(h) + n)
      /\ DOMAIN h = 1..Len(h) /\ Len(h) \in Nat /\ n \in Nat /\ Len(ids) \in Nat
      /\ DOMAIN ids = 1..Len(ids)
      /\ \A i \in 1..Len(h) : g[i] = h[i]
      /\ \A k \in 1..n : g[Len(h) + k] = s[k]
  OBVIOUS
<1> HIDE DEF g, n
<1>2. PICK u \in DOMAIN h :
        /\ Len(h) = u + r /\ r <= Len(ids)
        /\ h[u] = AssistantCalls(ids)
        /\ \A k \in 1..r : h[u + k] = ToolResult(ids[k])
        /\ \A i \in DOMAIN h :
             /\ h[i].kind = "use" /\ i # u => AnsweredFrom(h, i)
             /\ h[i].kind = "result" => AnswersSomeUse(h, i)
  BY Zenon DEF RoundOpen
<1>3. u \in DOMAIN g /\ Len(g) = u + (r + n) /\ r + n <= Len(ids) /\ g[u] = AssistantCalls(ids)
  BY <1>1, <1>2, SMTT(30), ZenonT(30) DEF n
<1>4. ASSUME NEW k \in 1..(r + n) PROVE g[u + k] = ToolResult(ids[k])
  <2>1. CASE k <= r
    BY <1>1, <1>2, <2>1, SMTT(30), ZenonT(30)
  <2>2. CASE k > r
    <3>1. k - r \in 1..n /\ u + k = Len(h) + (k - r) /\ r + (k - r) = k
      BY <1>1, <1>2, <2>2
    <3>2. g[u + k] = s[k - r] /\ s[k - r] = ToolResult(ids[r + (k - r)])
      BY <1>1, <3>1, Zenon DEF n
    <3>3. QED
      BY <3>1, <3>2
  <2>3. QED
    BY <1>1, <2>1, <2>2
<1>5. ASSUME NEW i \in 1..Len(h)
      PROVE  /\ g[i].kind = "use" /\ i # u => AnsweredFrom(g, i)
             /\ g[i].kind = "result" => AnswersSomeUse(g, i)
  <2>1. Len(h) <= Len(g)
    BY <1>1
  <2>2. QED
    BY <1>1, <1>2, <2>1, PrefixAnswers, Zenon
<1>6. ASSUME NEW i \in DOMAIN g, i \notin 1..Len(h)
      PROVE  g[i].kind # "use" /\ AnswersSomeUse(g, i)
  <2>1. i - u \in 1..(r + n) /\ u \in 1..(i - 1) /\ u + (i - u) = i
    BY <1>1, <1>2, <1>6, SMTT(30), ZenonT(30)
  <2>2. g[i] = ToolResult(ids[i - u])
    BY <1>4, <2>1
  <2>3. g[u].kind = "use" /\ g[u].ids = ids /\ i - u \in DOMAIN ids
    BY <1>1, <1>3, <2>1, SMTT(30), ZenonT(30) DEF AssistantCalls
  <2>4. AnswersSomeUse(g, i)
    BY <2>1, <2>2, <2>3, Zenon DEF AnswersSomeUse
  <2>5. QED
    BY <2>2, <2>4 DEF ToolResult
<1>7. \A i \in DOMAIN g : /\ g[i].kind = "use" /\ i # u => AnsweredFrom(g, i)
                          /\ g[i].kind = "result" => AnswersSomeUse(g, i)
  BY <1>5, <1>6
<1>8. QED
  BY <1>3, <1>4, <1>7, Zenon DEF RoundOpen, g, n

LEMMA RoundContinuesByOne ==
  ASSUME NEW h \in Seq(Message), NEW ids \in Seq(Nat), NEW r \in Nat, RoundOpen(h, ids, r),
         r < Len(ids)
  PROVE  RoundOpen(Append(h, ToolResult(ids[r + 1])), ids, r + 1)
<1> DEFINE s == <<ToolResult(ids[r + 1])>>
<1>1. ids[r + 1] \in Nat
  OBVIOUS
<1>2. ToolResult(ids[r + 1]) \in Message
  BY <1>1, MessageTypes
<1>3. s \in Seq(Message) /\ Len(s) = 1 /\ \A k \in 1..1 : s[k] = ToolResult(ids[r + k])
  BY <1>2
<1>4. RoundOpen(h \o s, ids, r + 1)
  <2>1. r + Len(s) <= Len(ids) /\ \A k \in 1..Len(s) : s[k] = ToolResult(ids[r + k])
    BY <1>3
  <2> HIDE DEF s
  <2>2. QED
    BY <1>3, <2>1, RoundContinues, Zenon
<1>5. h \o s = Append(h, ToolResult(ids[r + 1]))
  BY <1>2
<1>6. QED
  BY <1>4, <1>5, Zenon

\* With the last result it is over.
LEMMA RoundEnds ==
  ASSUME NEW h \in Seq(Message), NEW ids \in Seq(Nat), RoundOpen(h, ids, Len(ids))
  PROVE  ReplayValid(h)
<1>1. PICK u \in DOMAIN h :
        /\ Len(h) = u + Len(ids)
        /\ h[u] = AssistantCalls(ids)
        /\ \A k \in 1..Len(ids) : h[u + k] = ToolResult(ids[k])
        /\ \A i \in DOMAIN h :
             /\ h[i].kind = "use" /\ i # u => AnsweredFrom(h, i)
             /\ h[i].kind = "result" => AnswersSomeUse(h, i)
  BY DEF RoundOpen
<1>2. AnsweredFrom(h, u)
  <2>1. h[u].ids = ids /\ DOMAIN ids = 1..Len(ids) /\ Len(ids) \in Nat /\ u \in Nat
    BY <1>1 DEF AssistantCalls
  <2>2. QED
    BY <1>1, <2>1 DEF AnsweredFrom
<1>3. QED
  BY <1>1, <1>2 DEF ReplayValid

-----------------------------------------------------------------------------
\* No two assistant turns use the same tool_use id, and no id is above n.
DistinctCalls(h, n) ==
  \A i \in DOMAIN h : h[i].kind = "use" =>
    /\ \A k \in DOMAIN h[i].ids : h[i].ids[k] <= n
    /\ \A j \in DOMAIN h : h[j].kind = "use" =>
         \A k \in DOMAIN h[i].ids, l \in DOMAIN h[j].ids : h[i].ids[k] = h[j].ids[l] => i = j

LEMMA EmptyHistory == ReplayValid(<<>>) /\ \A n : DistinctCalls(<<>>, n)
<1>1. DOMAIN <<>> = {}
  OBVIOUS
<1>2. QED
  BY <1>1 DEF ReplayValid, DistinctCalls

\* A history whose assistant turns are among those of another one, in place or
\* shifted, has distinct calls if the other one has.
ShiftedUses(g, h, d) ==
  \A i \in DOMAIN g : g[i].kind = "use" => i + d \in DOMAIN h /\ g[i] = h[i + d]

LEMMA ShiftedCalls ==
  ASSUME NEW h \in Seq(Message), NEW g \in Seq(Message), NEW d \in Int, NEW n,
         ShiftedUses(g, h, d), DistinctCalls(h, n)
  PROVE  DistinctCalls(g, n)
<1> USE DEF ShiftedUses
<1> SUFFICES ASSUME NEW i \in DOMAIN g, g[i].kind = "use"
             PROVE  /\ \A k \in DOMAIN g[i].ids : g[i].ids[k] <= n
                    /\ \A j \in DOMAIN g : g[j].kind = "use" =>
                         \A k \in DOMAIN g[i].ids, l \in DOMAIN g[j].ids :
                           g[i].ids[k] = g[j].ids[l] => i = j
  BY DEF DistinctCalls
<1>1. \A k \in DOMAIN g[i].ids : g[i].ids[k] <= n
  BY DEF DistinctCalls
<1>2. ASSUME NEW j \in DOMAIN g, g[j].kind = "use",
             NEW k \in DOMAIN g[i].ids, NEW l \in DOMAIN g[j].ids, g[i].ids[k] = g[j].ids[l]
      PROVE  i = j
  <2>1. i + d = j + d
    BY <1>2 DEF DistinctCalls
  <2>2. i \in Int /\ j \in Int
    OBVIOUS
  <2>3. QED
    BY <2>1, <2>2
<1>3. QED
  BY <1>1, <1>2

\* Results and plain messages bring no calls.
LEMMA NoNewCalls ==
  ASSUME NEW h \in Seq(Message), NEW s \in Seq(Message), NEW n, DistinctCalls(h, n),
         \A k \in 1..Len(s) : s[k].kind # "use"
  PROVE  DistinctCalls(h \o s, n)
<1> DEFINE g == h \o s
<1>1. /\ g \in Seq(Message) /\ DOMAIN g = 1..(Len(h) + Len(s)) /\ DOMAIN h = 1..Len(h)
      /\ Len(h) \in Nat /\ Len(s) \in Nat
      /\ \A i \in 1..Len(h) : g[i] = h[i]
      /\ \A k \in 1..Len(s) : g[Len(h) + k] = s[k]
  OBVIOUS
<1> HIDE DEF g
<1>2. ASSUME NEW i \in DOMAIN g, g[i].kind = "use" PROVE i + 0 \in DOMAIN h /\ g[i] = h[i + 0]
  <2>1. CASE i <= Len(h)
    BY <1>1, <2>1
  <2>2. CASE i > Len(h)
    <3>1. i - Len(h) \in 1..Len(s) /\ i = Len(h) + (i - Len(h))
      BY <1>1, <2>2
    <3>2. g[i] = s[i - Len(h)]
      BY <1>1, <3>1
    <3>3. QED
      BY <1>2, <3>1, <3>2
  <2>3. QED
    BY <1>1, <2>1, <2>2
<1>3. ShiftedUses(g, h, 0)
  BY <1>2 DEF ShiftedUses
<1>4. DistinctCalls(g, n)
  BY <1>1, <1>3, ShiftedCalls
<1>5. QED
  BY <1>4 DEF g

LEMMA AppendNoCalls ==
  ASSUME NEW h \in Seq(Message), NEW m \in Message, NEW n, DistinctCalls(h, n), m.kind # "use"
  PROVE  DistinctCalls(Append(h, m), n)
<1>1. /\ <<m>> \in Seq(Message) /\ \A k \in 1..Len(<<m>>) : <<m>>[k] = m
      /\ Append(h, m) = h \o <<m>>
  OBVIOUS
<1>2. QED
  BY <1>1, NoNewCalls, Zenon

\* A turn whose ids are above all earlier ones.
LEMMA FreshCalls ==
  ASSUME NEW h \in Seq(Message), NEW n \in Nat, NEW m \in Nat, n <= m, DistinctCalls(h, n),
         NEW ids \in Seq(Nat), \A k \in DOMAIN ids : n < ids[k] /\ ids[k] <= m
  PROVE  DistinctCalls(Append(h, AssistantCalls(ids)), m)
<1> DEFINE g == Append(h, AssistantCalls(ids))
<1>1. AssistantCalls(ids) \in Message
  BY MessageTypes
<1>2. /\ g \in Seq(Message) /\ DOMAIN g = 1..(Len(h) + 1)
      /\ DOMAIN h = 1..Len(h) /\ Len(h) \in Nat
      /\ \A i \in 1..Len(h) : g[i] = h[i]
      /\ g[Len(h) + 1] = AssistantCalls(ids)
  BY <1>1, AppendKeeps
<1>3. g[Len(h) + 1].ids = ids
  BY <1>2 DEF AssistantCalls
<1> HIDE DEF g
<1>4. ASSUME NEW i \in 1..Len(h), g[i].kind = "use", NEW k \in DOMAIN g[i].ids
      PROVE  g[i].ids[k] \in Nat /\ g[i].ids[k] <= n
  <2>1. g[i].ids \in Seq(Nat)
    <3>1. h[i] \in Message
      OBVIOUS
    <3>2. QED
      BY <1>2, <3>1 DEF Message
  <2>2. QED
    BY <1>2, <1>4, <2>1, SMTT(30), ZenonT(30) DEF DistinctCalls
<1>5. ASSUME NEW k \in DOMAIN ids PROVE ids[k] \in Nat /\ n < ids[k] /\ ids[k] <= m
  OBVIOUS
<1>6. ASSUME NEW i \in DOMAIN g, g[i].kind = "use", NEW k \in DOMAIN g[i].ids
      PROVE  g[i].ids[k] <= m
  BY <1>2, <1>3, <1>4, <1>5, <1>6, SMTT(30), ZenonT(30)
<1>7. ASSUME NEW i \in DOMAIN g, g[i].kind = "use", NEW j \in DOMAIN g, g[j].kind = "use",
             NEW k \in DOMAIN g[i].ids, NEW l \in DOMAIN g[j].ids, g[i].ids[k] = g[j].ids[l]
      PROVE  i = j
  <2>1. CASE i \in 1..Len(h) /\ j \in 1..Len(h)
    BY <1>2, <1>7, <2>1 DEF DistinctCalls
  <2>2. CASE i \in 1..Len(h) /\ j = Len(h) + 1
    <3>1. g[i].ids[k] \in Nat /\ g[i].ids[k] <= n
      BY <1>4, <1>7, <2>2
    <3>2. g[j].ids[l] \in Nat /\ n < g[j].ids[l]
      BY <1>3, <1>5, <1>7, <2>2
    <3>3. QED
      BY <1>7, <3>1, <3>2
  <2>3. CASE i = Len(h) + 1 /\ j \in 1..Len(h)
    <3>1. g[j].ids[l] \in Nat /\ g[j].ids[l] <= n
      BY <1>4, <1>7, <2>3
    <3>2. g[i].ids[k] \in Nat /\ n < g[i].ids[k]
      BY <1>3, <1>5, <1>7, <2>3
    <3>3. QED
      BY <1>7, <3>1, <3>2
  <2>4. QED
    BY <1>2, <2>1, <2>2, <2>3
<1>8. QED
  BY <1>6, <1>7 DEF DistinctCalls, g

\* The bound may be raised.
LEMMA CallsBoundGrows ==
  ASSUME NEW h \in Seq(Message), NEW n \in Nat, NEW m \in Nat, n <= m, DistinctCalls(h, n)
  PROVE  DistinctCalls(h, m)
<1>1. ASSUME NEW i \in DOMAIN h, h[i].kind = "use", NEW k \in DOMAIN h[i].ids
      PROVE  h[i].ids[k] <= m
  <2>1. h[i] \in Message
    OBVIOUS
  <2>2. h[i].ids[k] \in Nat
    BY <1>1, <2>1 DEF Message
  <2>3. h[i].ids[k] <= n
    BY <1>1 DEF DistinctCalls
  <2>4. QED
    BY <2>2, <2>3
<1>2. QED
  BY <1>1 DEF DistinctCalls

\* Where the elements of two sequences are after one is put behind the other.
LEMMA Concatenated ==
  ASSUME NEW S, NEW u \in Seq(S), NEW v \in Seq(S)
  PROVE  /\ u \o v \in Seq(S) /\ Len(u \o v) = Len(u) + Len(v)
         /\ \A i \in 1..Len(u) : (u \o v)[i] = u[i]
         /\ \A i \in 1..Len(v) : (u \o v)[Len(u) + i] = v[i]
<1>1. u \o v \in Seq(S)
  OBVIOUS
<1>2. Len(u \o v) = Len(u) + Len(v) /\ Len(u) \in Nat /\ Len(v) \in Nat
  OBVIOUS
<1>3. ASSUME NEW i \in 1..Len(u) PROVE (u \o v)[i] = u[i]
  BY <1>2
<1>4. ASSUME NEW i \in 1..Len(v) PROVE (u \o v)[Len(u) + i] = v[i]
  BY <1>2
<1>5. QED
  BY <1>1, <1>2, <1>3, <1>4

-----------------------------------------------------------------------------
\* What a cut leaves: perhaps the first message, the placeholder, and the tail.
LEMMA CutShape ==
  ASSUME NEW h \in Seq(Message), NEW t \in 0..Len(h), CutAt(h, t) # h
  PROVE  \E e \in {0, 1} :
           /\ e <= t /\ e <= Len(h) /\ (e = 1 => ~HasToolContent(h[1]))
           /\ Len(CutAt(h, t)) = e + 1 + (Len(h) - t)
           /\ \A i \in 1..e : CutAt(h, t)[i] = h[i]
           /\ ~HasToolContent(CutAt(h, t)[e + 1])
           /\ \A i \in 1..(Len(h) - t) : CutAt(h, t)[e + 1 + i] = h[t + i]
<1>0. \A u, v \in Seq(Message) :
        /\ u \o v \in Seq(Message) /\ Len(u \o v) = Len(u) + Len(v)
        /\ \A i \in 1..Len(u) : (u \o v)[i] = u[i]
        /\ \A i \in 1..Len(v) : (u \o v)[Len(u) + i] = v[i]
  <2>1. ASSUME NEW u \in Seq(Message), NEW v \in Seq(Message)
        PROVE  /\ u \o v \in Seq(Message) /\ Len(u \o v) = Len(u) + Len(v)
               /\ \A i \in 1..Len(u) : (u \o v)[i] = u[i]
               /\ \A i \in 1..Len(v) : (u \o v)[Len(u) + i] = v[i]
    BY Concatenated, SMTT(30), ZenonT(30)
  <2>2. QED
    BY <2>1, ZenonT(30)
<1> DEFINE e == IF t > 0 /\ ~HasToolContent(h[1]) THEN 1 ELSE 0
           p == ElidedMessage(t - e)
           a == SubSeq(h, 1, e)
           b == SubSeq(h, t + 1, Len(h))
<1>1. e \in {0, 1} /\ e <= t /\ e <= Len(h) /\ (e = 1 => ~HasToolContent(h[1]))
  OBVIOUS
<1>2. CutAt(h, t) = a \o <<p>> \o b
  BY Zenon DEF CutAt
<1>3. ~HasToolContent(p) /\ t - e \in Nat
  BY <1>1 DEF ElidedMessage, HasToolContent
<1>4. p \in Message
  BY <1>3, MessageTypes
<1> HIDE DEF e, p
<1>5. a \in Seq(Message) /\ Len(a) = e /\ \A i \in 1..e : a[i] = h[i]
  BY <1>1
<1>6. b \in Seq(Message) /\ Len(b) = Len(h) - t /\ \A i \in 1..(Len(h) - t) : b[i] = h[t + i]
  OBVIOUS
<1> HIDE DEF a, b
<1>7. /\ a \o <<p>> \in Seq(Message) /\ Len(a \o <<p>>) = e + 1
      /\ \A i \in 1..e : (a \o <<p>>)[i] = h[i]
      /\ (a \o <<p>>)[e + 1] = p
  <2>1. <<p>> \in Seq(Message) /\ Len(<<p>>) = 1 /\ <<p>>[1] = p
    BY <1>4
  <2>2. /\ a \o <<p>> \in Seq(Message) /\ Len(a \o <<p>>) = Len(a) + Len(<<p>>)
        /\ \A i \in 1..Len(a) : (a \o <<p>>)[i] = a[i]
        /\ \A i \in 1..Len(<<p>>) : (a \o <<p>>)[Len(a) + i] = <<p>>[i]
    BY ONLY <1>0, <1>5, <2>1, ZenonT(30)
  <2>3. a \o <<p>> \in Seq(Message) /\ Len(a \o <<p>>) = e + 1
    BY ONLY <1>1, <1>5, <2>1, <2>2, SMTT(30)
  <2>4. \A i \in 1..e : (a \o <<p>>)[i] = h[i]
    BY ONLY <1>5, <2>2, ZenonT(30)
  <2>5. (a \o <<p>>)[e + 1] = p
    <3>1. 1 \in 1..Len(<<p>>)
      BY ONLY <2>1, SMTT(30)
    <3>2. (a \o <<p>>)[Len(a) + 1] = p
      BY ONLY <2>1, <2>2, <3>1, ZenonT(30)
    <3>3. QED
      BY ONLY <1>5, <3>2, ZenonT(30)
  <2>6. QED
    BY ONLY <2>3, <2>4, <2>5, ZenonT(30)
<1> DEFINE q == a \o <<p>>
<1> HIDE DEF q
<1>8. /\ Len(q \o b) = e + 1 + (Len(h) - t)
      /\ \A i \in 1..(e + 1) : (q \o b)[i] = q[i]
      /\ \A i \in 1..(Len(h) - t) : (q \o b)[e + 1 + i] = b[i]
  <2>1. q \in Seq(Message) /\ Len(q) = e + 1
    BY <1>7, Zenon DEF q
  <2>2. /\ Len(q \o b) = Len(q) + Len(b)
        /\ \A i \in 1..Len(q) : (q \o b)[i] = q[i]
        /\ \A i \in 1..Len(b) : (q \o b)[Len(q) + i] = b[i]
    BY ONLY <1>0, <1>6, <2>1, ZenonT(30)
  <2>3. QED
    BY ONLY <1>6, <2>1, <2>2, ZenonT(30)
<1>9. CutAt(h, t) = q \o b
  BY <1>2 DEF q
<1>10. /\ Len(CutAt(h, t)) = e + 1 + (Len(h) - t)
       /\ \A i \in 1..e : CutAt(h, t)[i] = h[i]
       /\ CutAt(h, t)[e + 1] = p
       /\ \A i \in 1..(Len(h) - t) : CutAt(h, t)[e + 1 + i] = h[t + i]
  <2>1. e + 1 \in 1..(e + 1) /\ \A i \in 1..e : i \in 1..(e + 1)
    BY <1>1
  <2>2. q[e + 1] = p /\ \A i \in 1..e : q[i] = h[i]
    BY <1>7, Zenon DEF q
  <2>3. (q \o b)[e + 1] = p /\ \A i \in 1..e : (q \o b)[i] = h[i]
    BY ONLY <1>8, <2>1, <2>2, SMTT(30), ZenonT(30)
  <2>4. \A i \in 1..(Len(h) - t) : (q \o b)[e + 1 + i] = h[t + i]
    BY ONLY <1>6, <1>8, Zenon
  <2>5. QED
    BY ONLY <1>8, <1>9, <2>3, <2>4, Zenon
<1>11. QED
  BY <1>1, <1>3, <1>10, Zenon

\* No result of the tail answers a call before it.
Grouped(h, t) == NeededIds(h, t) \subseteq ProvidedIds(h, t)

\* A cut between two groups keeps every pair of the tail.
LEMMA CutKeepsPairing ==
  ASSUME NEW h \in Seq(Message), NEW t \in 0..Len(h), NEW n,
         ReplayValid(h), DistinctCalls(h, n), t = 0 \/ Grouped(h, t)
  PROVE  ReplayValid(CutAt(h, t)) /\ DistinctCalls(CutAt(h, t), n)
<1> DEFINE c == CutAt(h, t)
<1>1. CASE c = h
  BY <1>1
<1>2. CASE c # h
  <2>1. c \in Seq(Message)
    BY CutAtType
  <2>2. PICK e \in {0, 1} :
           /\ e <= t /\ e <= Len(h) /\ (e = 1 => ~HasToolContent(h[1]))
           /\ Len(c) = e + 1 + (Len(h) - t)
           /\ \A i \in 1..e : c[i] = h[i]
           /\ ~HasToolContent(c[e + 1])
           /\ \A i \in 1..(Len(h) - t) : c[e + 1 + i] = h[t + i]
    BY <1>2, CutShape
  <2>3. Grouped(h, t)
    <3>1. ASSUME t = 0 PROVE c = h
      BY <3>1 DEF CutAt
    <3>2. QED
      BY <1>2, <3>1
  <2> HIDE DEF c
  <2>4. Len(h) \in Nat /\ DOMAIN h = 1..Len(h) /\ DOMAIN c = 1..Len(c) /\ t \in Nat /\ t <= Len(h)
    BY <2>1
  <2> DEFINE d == t - (e + 1)
  <2>5. ASSUME NEW i \in DOMAIN c, HasToolContent(c[i])
        PROVE  i + d \in (t + 1)..Len(h) /\ c[i] = h[i + d] /\ i \in Int
    <3>1. i > e + 1
      <4>1. CASE i = e + 1
        BY <2>2, <2>5, <4>1
      <4>2. CASE i <= e
        <5>1. i = 1 /\ e = 1
          BY <2>2, <2>4, <4>2
        <5>2. QED
          BY <2>2, <2>5, <5>1
      <4>3. QED
        BY <2>2, <2>4, <4>1, <4>2
    <3>2. i - (e + 1) \in 1..(Len(h) - t)
      BY <2>2, <2>4, <3>1
    <3>3. i = e + 1 + (i - (e + 1)) /\ t + (i - (e + 1)) = i + d /\ i \in Int
      BY <2>2, <2>4, SMTT(30), ZenonT(30)
    <3>4. c[i] = h[t + (i - (e + 1))]
      BY <2>2, <3>2, <3>3, Zenon
    <3>5. t + (i - (e + 1)) \in (t + 1)..Len(h)
      BY <2>2, <2>4, <3>2, SMTT(30), ZenonT(30)
    <3> HIDE DEF d
    <3>6. QED
      BY ONLY <3>3, <3>4, <3>5
  <2>6. ASSUME NEW j \in (t + 1)..Len(h)
        PROVE  j - d \in DOMAIN c /\ c[j - d] = h[j]
    <3>1. j - t \in 1..(Len(h) - t) /\ e + 1 + (j - t) = j - d /\ t + (j - t) = j
      BY <2>2, <2>4
    <3>2. c[j - d] = h[j]
      BY <2>2, <3>1, Zenon
    <3>3. QED
      BY <2>2, <2>4, <3>1, <3>2
  <2>7. d \in Int
    BY <2>2, <2>4
  <2> HIDE DEF d
  <2>8. DistinctCalls(c, n)
    <3>1. ShiftedUses(c, h, d)
      BY <2>4, <2>5 DEF ShiftedUses, HasToolContent
    <3>2. QED
      BY <2>1, <2>7, <3>1, ShiftedCalls
  <2>9. ASSUME NEW i \in DOMAIN c, c[i].kind = "use" PROVE AnsweredFrom(c, i)
    <3>1. i + d \in (t + 1)..Len(h) /\ c[i] = h[i + d] /\ i \in Int
      BY <2>5, <2>9 DEF HasToolContent
    <3>2. AnsweredFrom(h, i + d)
      BY <2>4, <2>9, <3>1 DEF ReplayValid
    <3>3. ASSUME NEW k \in DOMAIN c[i].ids
          PROVE  i + k <= Len(c) /\ c[i + k] = ToolResult(c[i].ids[k])
      <4>1. k \in Nat /\ k >= 1
        <5>1. c[i] \in Message
          BY <2>1
        <5>2. QED
          BY <5>1 DEF Message
      <4>2. (i + d) + k <= Len(h) /\ h[(i + d) + k] = ToolResult(c[i].ids[k])
        BY <3>1, <3>2 DEF AnsweredFrom
      <4>3. (i + d) + k \in (t + 1)..Len(h) /\ ((i + d) + k) - d = i + k
        BY <2>4, <2>7, <3>1, <4>1, <4>2, SMTT(30), ZenonT(30)
      <4>4. i + k \in DOMAIN c /\ c[i + k] = h[(i + d) + k]
        BY <2>6, <4>3
      <4>5. QED
        BY <2>4, <4>2, <4>4
    <3>4. QED
      BY <3>3 DEF AnsweredFrom
  <2>10. ASSUME NEW i \in DOMAIN c, c[i].kind = "result" PROVE AnswersSomeUse(c, i)
    <3>1. i + d \in (t + 1)..Len(h) /\ c[i] = h[i + d] /\ i \in Int
      BY <2>5, <2>10 DEF HasToolContent
    <3>2. AnswersSomeUse(h, i + d)
      BY <2>4, <2>10, <3>1 DEF ReplayValid
    <3>3. PICK u \in 1..((i + d) - 1) :
            /\ h[u].kind = "use" /\ (i + d) - u \in DOMAIN h[u].ids
            /\ h[i + d] = ToolResult(h[u].ids[(i + d) - u])
      BY <3>2 DEF AnswersSomeUse
    <3>4. u > t
      <4> DEFINE id == h[u].ids[(i + d) - u]
      <4>1. h[i + d].ids[1] = id
        BY <3>3 DEF ToolResult
      <4>2. id \in NeededIds(h, t)
        BY <2>4, <2>10, <3>1, <4>1 DEF NeededIds, ResultIndexes
      <4>3. id \in ProvidedIds(h, t)
        BY <2>3, <4>2 DEF Grouped
      <4>4. PICK v \in DOMAIN h : /\ v > t /\ h[v].kind = "use"
                                  /\ \E k \in DOMAIN h[v].ids : id = h[v].ids[k]
        BY <4>3 DEF ProvidedIds
      <4>5. u \in DOMAIN h
        BY <2>4, <3>1, <3>3
      <4>6. u = v
        BY <3>3, <4>4, <4>5 DEF DistinctCalls
      <4>7. QED
        BY <4>4, <4>6
    <3>5. u \in (t + 1)..Len(h)
      BY <2>4, <3>1, <3>3, <3>4
    <3>6. u - d \in DOMAIN c /\ c[u - d] = h[u]
      BY <2>6, <3>5
    <3>7. u - d \in 1..(i - 1) /\ i - (u - d) = (i + d) - u
      BY <2>4, <2>7, <3>1, <3>3, <3>5, <3>6, SMTT(30), ZenonT(30)
    <3>8. QED
      BY <3>1, <3>3, <3>6, <3>7, Zenon DEF AnswersSomeUse
  <2>11. QED
    BY <2>8, <2>9, <2>10 DEF ReplayValid, c
<1>3. QED
  BY <1>1, <1>2

\* _expand_to_group_boundary ends between two groups, or at the beginning.
LEMMA TailStartsGrouped ==
  ASSUME NEW h \in Seq(Message), Len(h) > 0, NEW t \in TailStarts(h)
  PROVE  t \in 0..Len(h) /\ (t = 0 \/ Grouped(h, t))
<1>1. t \in 0..Len(h)
  BY TailStartsType
<1>2. CASE Keep = 0
  <2>1. t = Len(h)
    BY <1>2 DEF TailStarts
  <2>2. NeededIds(h, t) = {}
    BY <2>1 DEF NeededIds, ResultIndexes
  <2>3. QED
    BY <1>1, <2>2 DEF Grouped
<1>3. CASE Keep # 0
  <2>1. PICK a \in Anchors(h) : t = ExpandToGroupBoundary(h, Max({0, a - 2}))
    BY <1>3, Zenon DEF TailStarts
  <2>2. a \in 1..Len(h)
    BY <1>3, AnchorsType
  <2> DEFINE start == Max({0, a - 2})
             cuts  == {cut \in 0..start :
                         cut = 0 \/ NeededIds(h, cut) \subseteq ProvidedIds(h, cut)}
  <2>3. start \in Nat
    <3>1. \E x \in {0, a - 2} : \A y \in {0, a - 2} : x >= y
      BY <2>2
    <3>2. start \in {0, a - 2} /\ \A y \in {0, a - 2} : start >= y
      BY <3>1 DEF Max
    <3>3. QED
      BY <2>2, <3>2
  <2> HIDE DEF start
  <2>4. cuts \in SUBSET (0..start) /\ 0 \in cuts
    BY <2>3
  <2>5. Max(cuts) \in cuts
    BY <2>3, <2>4, MaxOfBounded, Zenon
  <2>6. t = Max(cuts)
    BY <2>1 DEF ExpandToGroupBoundary, start
  <2>7. QED
    BY <1>1, <2>5, <2>6 DEF Grouped
<1>4. QED
  BY <1>2, <1>3

(***************************************************************************)
(* Compaction keeps every pair: whatever history the providers accept, one *)
(* whose calls are distinct, every outcome of compact() is one they accept *)
(* too, for every keep_last_tool_results and with or without a token       *)
(* budget ("Tool-block integrity is guaranteed", context/manager.py:562).  *)
(***************************************************************************)
THEOREM CompactionKeepsPairing ==
  ASSUME NEW h \in Seq(Message), NEW n, ReplayValid(h), DistinctCalls(h, n),
         NEW c \in Compactions(h)
  PROVE  ReplayValid(c) /\ DistinctCalls(c, n)
<1>1. CASE Len(h) <= 2
  BY <1>1 DEF Compactions
<1>2. CASE ~(Len(h) <= 2)
  <2>1. PICK t \in TailStarts(h) : c = CutAt(h, t)
    BY <1>2 DEF Compactions
  <2>2. t \in 0..Len(h) /\ (t = 0 \/ Grouped(h, t))
    BY <1>2, TailStartsGrouped
  <2>3. QED
    BY <2>1, <2>2, CutKeepsPairing
<1>3. QED
  BY <1>1, <1>2
=============================================================================
