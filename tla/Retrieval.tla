------------------------------- MODULE Retrieval -------------------------------
(***************************************************************************)
(* One dialog_v2 retrieval request: the hits of its five routes are merged *)
(* into a pool of candidates, the pool is ordered by its base scores, the  *)
(* head of that order goes to a reranker, the best are selected, some are  *)
(* explained from the graph, and the best of what is left is answered.     *)
(*                                                                         *)
(* The routes run concurrently (asyncio.gather), but what they found is    *)
(* merged after all of them ended, route after route; a route that fails   *)
(* loses what it had not found yet.                                        *)
(***************************************************************************)
EXTENDS Naturals, Sequences, FiniteSets, Functions, FiniteSetsExt

CONSTANTS
  Events, Turns,     \* ids in the graph; logical ids, one for each dialogue turn
  TurnsOf,           \* TurnsOf[e]: the turns an event was built from
  First,             \* First[e]: the one its logical id is made from
  MaxScore,          \* route scores and base scores are 1..MaxScore
  Unit,              \* what 1.0 is; divisible by every difference of scores
  PoolSize, K, Seeds, TopK,
  WeightBase, WeightRerank, SignalWeight,
  None,
  MaxHits            \* bound: hits of the five routes

ASSUME RetrievalAssumption ==
  /\ TurnsOf \in [Events -> SUBSET Turns] /\ \A e \in Events : First[e] \in TurnsOf[e]
  /\ \A d, e \in Events : d # e => TurnsOf[d] \cap TurnsOf[e] = {}
  /\ {MaxScore, Unit, PoolSize, K, Seeds, TopK} \subseteq Nat \ {0} /\ TopK <= K
  /\ {WeightBase, WeightRerank} \subseteq Nat \ {0}   \* 0 stands for the default
  /\ {SignalWeight, MaxHits} \subseteq Nat
  /\ None \notin Events \cup Turns /\ Events \cap Turns = {}
  /\ \A docs \in SUBSET (Events \cup Turns) : None \notin [docs -> 0..MaxScore]
  /\ \A n \in 1..MaxScore : Unit % n = 0

VARIABLES
  stage,      \* "recall", "rank", "select", "explain", "order", "answered"
  route,      \* the route being merged
  pool,       \* the candidates, by canonical id
  byEvent, byTurn,     \* canonical ids of the ids seen so far
  mode,       \* how the reranker's scores are used (score_mode)
  base,       \* the candidates' base scores
  order,      \* the candidates, best first
  said,       \* the reranker's answer: a relevance for some documents, or None
  choice,     \* the selection scores
  signal,     \* what the graph adds to an explained candidate
  answer,
  seen        \* history: the hits merged

merging == <<route, pool, byEvent, byTurn, seen>>
ranking == <<base, said, choice, signal, answer>>
retrievalVars == <<stage, mode, order, merging, ranking>>

Routes   == <<"T", "EN", "K_vec", "E_vec", "E_event_vec">>
Priority == [r \in Range(Routes) |-> CHOOSE p \in DOMAIN Routes : Routes[p] = r]
HitIds   == Events \cup Turns
NoScores == [r \in Range(Routes) |-> 0]

\* What a hit says of event e: the ids it has, and the one it goes by.
Hit(r, e, t, raw, s) == [route |-> r, event |-> e, turn |-> t, raw |-> raw, score |-> s]
Origins == {x \in Events \X Turns : x[2] \in TurnsOf[x[1]]}

\* The index of events names an event, and often its logical id; that of
\* utterances a turn, an event or both; a fact the turns it is from; the graph
\* lists the events of an entity, and those of a slice of time.
ByEvent     == {<<e, First[e], e>> : e \in Events} \cup {<<e, None, e>> : e \in Events}
ByUtterance == UNION {{<<x[1], x[2], x[2]>>, <<None, x[2], x[2]>>, <<x[1], None, x[1]>>} :
                        x \in Origins}
ByFact      == {<<None, x[2], x[2]>> : x \in Origins}
ByEntity    == {<<e, None, e>> : e \in Events}
ByTime      == {<<e, None, e>> : e \in Events}

Finds == [T |-> ByTime, EN |-> ByEntity, K_vec |-> ByFact, E_vec |-> ByUtterance,
          E_event_vec |-> ByEvent]
HitsOf(r) == {Hit(r, x[1], x[2], x[3], s) : x \in Finds[r], s \in 1..MaxScore}

---------------------------------------------------------------------------
(* The pool *)

NewCandidate == [sources |-> {}, scores |-> NoScores, event |-> None, turn |-> None, known |-> {}]

Canonical(h) ==
  IF h.turn # None /\ h.turn \in DOMAIN byTurn THEN byTurn[h.turn]
  ELSE IF h.event # None /\ h.event \in DOMAIN byEvent THEN byEvent[h.event]
  ELSE IF h.turn # None THEN h.turn ELSE h.event

\* _merge_into: a candidate found under another of the hit's ids moves over.
MergedInto(dst, src) ==
  [dst EXCEPT !.sources = @ \cup src.sources,
              !.scores  = [r \in DOMAIN @ |-> Max({@[r], src.scores[r]})],
              !.event   = IF @ = None THEN src.event ELSE @,
              !.turn    = IF @ = None THEN src.turn ELSE @,
              !.known   = @ \cup src.known]

Others(h) == ({h.event, h.turn, h.raw} \ {None, Canonical(h)}) \cap DOMAIN pool

\* The candidate a hit adds to, with the hit in it.
Found(h) == IF Canonical(h) \in DOMAIN pool THEN pool[Canonical(h)] ELSE NewCandidate
Absorbed(c, id, h) == IF id \in Others(h) THEN MergedInto(c, pool[id]) ELSE c
Sighted(h) ==
  LET merged == Absorbed(Absorbed(Absorbed(Found(h), h.event, h), h.turn, h), h.raw, h)
  IN [sources |-> merged.sources \cup {h.route},
      scores  |-> [merged.scores EXCEPT ![h.route] = Max({@, h.score})],
      event   |-> IF h.event # None THEN h.event ELSE merged.event,
      turn    |-> IF h.turn # None THEN h.turn ELSE merged.turn,
      known   |-> merged.known \cup ({h.turn} \ {None})]

With(f, key, value) ==
  [k \in DOMAIN f \cup ({key} \ {None}) |-> IF k = key THEN value ELSE f[k]]

Touch(h) ==
  /\ stage = "recall" /\ route > 0 /\ h \in HitsOf(Routes[route])
  /\ Cardinality(seen) < MaxHits /\ h \notin seen
  /\ pool'    = With(Restrict(pool, DOMAIN pool \ Others(h)), Canonical(h), Sighted(h))
  /\ byEvent' = With(byEvent, h.event, Canonical(h))
  /\ byTurn'  = With(byTurn, h.turn, Canonical(h))
  /\ seen'    = seen \cup {h}
  /\ UNCHANGED <<stage, route, mode, order, ranking>>

\* The route found no more, was disabled, or failed.
NextRoute ==
  /\ stage = "recall" /\ route > 0 /\ route' = route - 1
  /\ UNCHANGED <<stage, pool, byEvent, byTurn, seen, mode, order, ranking>>

---------------------------------------------------------------------------
(* Ranking *)

Orders(S) == {s \in [1..Cardinality(S) -> S] : Range(s) = S}
Descending(s, f) == \A i, j \in DOMAIN s : i < j => f[s[i]] >= f[s[j]]
\* sorted(..., reverse=True): ties keep their order.
SortedBy(s, f) ==
  LET before(i, j) == f[s[i]] > f[s[j]] \/ (f[s[i]] = f[s[j]] /\ i < j)
      at(i) == CHOOSE k \in DOMAIN s : Cardinality({j \in DOMAIN s : before(j, k)}) = i - 1
  IN [i \in DOMAIN s |-> s[at(i)]]
FirstOf(s, n) == SubSeq(s, 1, Min({n, Len(s)}))

\* Route support, match and recency give any base scores; what follows reads
\* nothing else of the pool, save whether the graph has the candidate.
Score ==
  /\ stage = "recall" /\ route = 0
  /\ \E seq \in Orders(DOMAIN pool), scores \in [DOMAIN pool -> 1..MaxScore] :
       /\ Descending(seq, scores)
       /\ base' = scores /\ choice' = scores /\ order' = seq
  /\ signal' = [id \in {c \in DOMAIN pool : pool[c].event # None} |-> 0]
  /\ stage' = IF pool = <<>> THEN "answered" ELSE "rank"
  /\ pool' = <<>> /\ byEvent' = <<>> /\ byTurn' = <<>> /\ seen' = {}
  /\ UNCHANGED <<route, mode, said, answer>>

Asked == FirstOf(order, PoolSize)

\* _normalize_scores and _rank_to_unit_interval.
Normalized(f) ==
  LET lo == Min(Range(f)) hi == Max(Range(f))
  IN [d \in DOMAIN f |-> IF lo = hi THEN Unit ELSE ((f[d] - lo) * Unit) \div (hi - lo)]
RankScore(rank, total) ==
  IF total = 1 THEN Unit ELSE Unit - ((rank - 1) * Unit) \div (total - 1)

MutantReranked(raw, rank) ==   \* takes the distance for the relevance
  [d \in Range(Asked) |-> IF d \in DOMAIN raw THEN Unit - Normalized(raw)[d] ELSE 0]
\* A document the reranker leaves out ranks last.
Reranked(raw, rank) ==
  [d \in Range(Asked) |->
    IF Cardinality(Range(raw)) > 1 /\ d \in DOMAIN raw THEN Normalized(raw)[d]
    ELSE RankScore(IF d \in DOMAIN raw THEN rank[d] ELSE Len(Asked), Len(Asked))]

Selection(scores) ==
  LET norm == Normalized(Restrict(base, Range(Asked)))
  IN [d \in DOMAIN base |->
       IF d \notin Range(Asked)        THEN base[d]
       ELSE CASE mode = "rerank_only"  -> scores[d]
              [] mode = "base_only"    -> norm[d]
              [] OTHER                 -> (WeightBase * norm[d] + WeightRerank * scores[d])
                                            \div (WeightBase + WeightRerank)]

\* client.rerank answers for some of the documents; ranks follow its scores.
Rerank ==
  /\ stage = "rank"
  /\ \E docs \in SUBSET Range(Asked) : \E seq \in Orders(docs), raw \in [docs -> 0..MaxScore] :
       /\ Descending(seq, raw)
       /\ said' = raw
       /\ choice' = Selection(Reranked(raw, [d \in docs |-> CHOOSE i \in DOMAIN seq : seq[i] = d]))
       /\ order' = SortedBy(Asked, choice') \o SubSeq(order, Len(Asked) + 1, Len(order))
  /\ stage' = "select"
  /\ UNCHANGED <<mode, merging, base, signal, answer>>

\* Not enabled, not built, or failed: the base order stands.
NoRerank ==
  /\ stage = "rank" /\ stage' = "select"
  /\ UNCHANGED <<mode, order, merging, ranking>>

\* `_selection_score or _preselect_score`: 0.0 is falsy.
Value(d) == IF choice[d] = 0 THEN base[d] ELSE choice[d]

Select ==
  /\ stage = "select" /\ stage' = "explain"
  /\ order' = FirstOf(order, K)
  /\ UNCHANGED <<mode, merging, ranking>>

\* The seeds are explained; one that fails, or is not in the graph, is skipped.
Explain ==
  /\ stage = "explain" /\ stage' = "order"
  /\ LET seeds == Range(FirstOf(SortedBy(order, [d \in Range(order) |-> Value(d)]), Seeds))
     IN \E found \in [seeds \cap DOMAIN signal -> 0..1] :
          signal' = [d \in DOMAIN base |-> IF d \in DOMAIN found THEN found[d] ELSE 0]
  /\ UNCHANGED <<mode, order, merging, base, said, choice, answer>>

Final(d) == Value(d) + SignalWeight * signal[d]

Answer ==
  /\ stage = "order" /\ stage' = "answered"
  /\ answer' = FirstOf(SortedBy(order, [d \in Range(order) |-> Final(d)]), TopK)
  /\ UNCHANGED <<mode, order, merging, base, said, choice, signal>>

RetrievalInit ==
  /\ stage = "recall" /\ route = Len(Routes) /\ order = <<>> /\ seen = {}
  /\ pool = <<>> /\ byEvent = <<>> /\ byTurn = <<>> /\ answer = <<>>
  /\ base = <<>> /\ said = None /\ choice = <<>> /\ signal = <<>>
  /\ mode \in {"rerank_only", "base_only", "fused"}

RetrievalNext ==
  \/ \E h \in UNION {HitsOf(r) : r \in Range(Routes)} : Touch(h)
  \/ NextRoute
  \/ Score
  \/ Rerank
  \/ NoRerank
  \/ Select
  \/ Explain
  \/ Answer

RetrievalSpec == RetrievalInit /\ [][RetrievalNext]_retrievalVars

---------------------------------------------------------------------------
(* Properties *)

EventOf(h) == IF h.event # None THEN h.event ELSE CHOOSE e \in Events : h.turn \in TurnsOf[e]
EventOfId(id) == IF id \in Events THEN id ELSE CHOOSE e \in Events : id \in TurnsOf[e]

\* No hit is lost and none made up, however the candidates were merged: each
\* hit's score is in some candidate of its event, under its route, and each
\* score of a candidate is the best of hits of that event, as its sources are
\* the routes that found it (touch and _merge_into).
SupportIsKept ==
  /\ \A h \in seen : \E id \in DOMAIN pool :
       /\ EventOfId(id) = EventOf(h) /\ h.route \in pool[id].sources
       /\ pool[id].scores[h.route] >= h.score
       /\ h.turn # None => h.turn \in pool[id].known
  /\ \A id \in DOMAIN pool : \A r \in Range(Routes) :
       r \in pool[id].sources <=>
         \E h \in seen : h.route = r /\ EventOf(h) = EventOfId(id) /\ h.score = pool[id].scores[r]

\* The answer goes by the reranker where it spoke: of two documents it scored,
\* selected or not, the one it put lower is not answered without or before the
\* other, unless the graph says more for it or the lower's selection score is
\* nil (and its base score used).  If it failed, the base scores decide.
AnswerFollows ==
  stage = "answered" =>
    \A i \in DOMAIN answer : \A d \in DOMAIN base :
      LET a == answer[i] IN
      (IF said = None THEN base[d] > base[a]
       ELSE mode = "rerank_only" /\ {a, d} \subseteq DOMAIN said /\ said[d] > said[a]
            /\ choice[a] # 0)
      /\ (SignalWeight = 0 \/ ({a, d} \subseteq DOMAIN signal /\ signal[d] >= signal[a]))
      => \E j \in 1..(i - 1) : answer[j] = d

\* Both at once: an answer rests on hits, in the order they were judged.
AnswerIsSupported == SupportIsKept /\ AnswerFollows
=============================================================================
