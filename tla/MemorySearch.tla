-------------------------- MODULE MemorySearch -------------------------
(***************************************************************************)
(* MemoryService.search over Qdrant: attempts from a narrow scope to wide  *)
(* ones, a cache of results per attempt, a vector store with retries and a *)
(* circuit breaker that answers with nothing when it is not well, the text *)
(* corpus as a second source, and ranking weights that are loaded afresh   *)
(* by every search and shared by all.  Entries come and go meanwhile.      *)
(*                                                                         *)
(* Time is counted in units of the cache's lifetime.  An entry is where it *)
(* belongs (modality, users, domain, run) and the collections, one for a   *)
(* modality, that hold a vector of it; a search returns what its filter    *)
(* lets pass, so scores, hints and top-k play no part.                     *)
(***************************************************************************)
EXTENDS Naturals, Sequences, FiniteSets

CONSTANTS
  Points, Place,    \* Place[e]: where the entry belongs, and its vectors are
  Unset,            \* no domain, or no run
  SearchRequests,   \* [mods, users, all, domain, run, order]
  Searchers,        \* searches in progress at the same time
  Blends, Boosts,   \* of a ranking: the blend of scores, boosts for a scope
  TTL, CacheMax,    \* of the search cache
  Attempts, FailLimit, OpenFor,   \* of the vector store's breaker
  Horizon, MaxMoves, MaxFailures, MaxSearches  \* bounds of the check

-----------------------------------------------------------------------------
(* Filters                                                                 *)

\* The conditions of one attempt: the run only in a session, the domain not
\* for a user's or the global scope.
Scopes == {"session", "domain", "user", "global", "open"}

Filter(r, sc) ==
  [mods |-> r.mods,
   users |-> IF sc \in {"session", "domain", "user"} THEN r.users ELSE {},
   all |-> r.all,
   domain |-> IF sc \in {"session", "domain"} THEN r.domain ELSE Unset,
   run |-> IF sc = "session" THEN r.run ELSE Unset]

Viable(r, sc) ==
  CASE sc = "session" -> r.run # Unset
    [] sc = "domain" -> r.domain # Unset
    [] sc = "user" -> r.users # {}
    [] OTHER -> TRUE

Tries(r) ==
  LET viable == SelectSeq(r.order, LAMBDA sc : Viable(r, sc))
  IN IF viable = << >> THEN <<"open">> ELSE viable

\* The last attempt, and its filter.
LastScope(r) == Tries(r)[Len(Tries(r))]
Widest(r) == Filter(r, LastScope(r))

ASSUME SearchAssumption ==
  /\ TTL \in Nat /\ OpenFor \in Nat
  /\ CacheMax \in Nat \ {0} /\ Attempts \in Nat \ {0} /\ FailLimit \in Nat \ {0}
  /\ {Horizon, MaxMoves, MaxFailures, MaxSearches} \subseteq Nat
  /\ SearchRequests # {} /\ Blends # {} /\ Boosts # {}
  /\ \A r \in SearchRequests : /\ Tries(r) \in Seq(Scopes) \ {<< >>}
                               /\ IsFiniteSet(r.mods)

\* QdrantStore._build_filter: a condition is <<key, value>>.  Several modalities,
\* and users of which any will do, go to one and the same list of alternatives.
Must(f) ==
  (IF Cardinality(f.mods) = 1 THEN {<<"mods", m>> : m \in f.mods} ELSE {})
  \cup (IF f.all THEN {<<"users", u>> : u \in f.users} ELSE {})
  \cup (IF f.domain = Unset THEN {} ELSE {<<"domain", f.domain>>})
  \cup (IF f.run = Unset THEN {} ELSE {<<"run", f.run>>})

MutantShould(f) ==                    \* any user becomes all modalities' business
  IF Cardinality(f.mods) = 1 THEN {} ELSE {<<"mods", m>> : m \in f.mods}
Should(f) ==
  (IF Cardinality(f.mods) = 1 THEN {} ELSE {<<"mods", m>> : m \in f.mods})
  \cup (IF f.all THEN {} ELSE {<<"users", u>> : u \in f.users})

Satisfies(e, cond) == cond[2] \in Place[e][cond[1]]

\* What Qdrant makes of it: all of must, and one of should if there are any.
Passes(e, f) ==
  /\ \A cond \in Must(f) : Satisfies(e, cond)
  /\ Should(f) # {} => \E cond \in Should(f) : Satisfies(e, cond)

\* The collections that are searched, one after the other.
Collections(f) == IF f.mods = {} THEN {"text"} ELSE f.mods

\* What a filter means: alternatives within a dimension, all dimensions.
OfMods(e, f) == f.mods # {} => Place[e].mods \cap f.mods # {}
OfUsers(e, f) ==
  f.users # {} => IF f.all THEN f.users \subseteq Place[e].users
                  ELSE f.users \cap Place[e].users # {}
OfPlace(e, f) == /\ f.domain # Unset => f.domain \in Place[e].domain
                 /\ f.run # Unset => f.run \in Place[e].run
Wants(e, f) == OfMods(e, f) /\ OfUsers(e, f) /\ OfPlace(e, f)

\* Two dimensions have alternatives.
TwoLists(f) == Cardinality(f.mods) > 1 /\ f.users # {} /\ ~f.all

-----------------------------------------------------------------------------
VARIABLES
  points,           \* the entries of the vector store that may be shown
  clock, moves, mishaps, begun,
  weights,         \* the configuration, which can be changed at run time
  loaded,          \* MemoryService._w_*: what the last search loaded
  searchCache,     \* _search_cache, the least recently used first
  fails, cbOpenUntil, \* the breaker of QdrantStore
  stage, search,   \* per searcher: where it is, and its local state
  answer,          \* the last answer to it
  since, lastIn,   \* history: when an entry came, and was last there
  lastBoosts,      \* history: when boosts were last in force
  lastFail         \* history: when a request last failed or was cut short

backend == <<fails, cbOpenUntil, mishaps, lastFail>>
entries == <<points, moves, since, lastIn>>
ranking == <<weights, lastBoosts>>
searchVars ==
  <<entries, clock, begun, ranking, loaded, searchCache, backend, stage, search, answer>>

\* A ranking configuration.
Weights == [blend : Blends, boosts : Boosts]

Value == [hits : SUBSET Points, ranked : Weights, begun : 0 .. Horizon,
          put : 0 .. Horizon, steady : BOOLEAN]

NoAnswer == << >>
AnyRequest == CHOOSE r \in SearchRequests : TRUE
AnyWeights == CHOOSE w \in Weights : TRUE

SearchInit ==
  /\ points = {} /\ clock = 0 /\ moves = 0 /\ mishaps = 0 /\ begun = 0
  /\ weights = AnyWeights /\ loaded = AnyWeights
  /\ searchCache = << >>
  /\ fails = 0 /\ cbOpenUntil = 0
  /\ stage = [s \in Searchers |-> "idle"]
  /\ search = [s \in Searchers |->
       [req |-> AnyRequest, at |-> 0, tries |-> 0, asked |-> 0, begun |-> 0,
        conf |-> AnyWeights, scope |-> "open", left |-> {}, hits |-> {}, steady |-> TRUE]]
  /\ answer = [s \in Searchers |-> NoAnswer]
  /\ since = [e \in Points |-> 0] /\ lastIn = [e \in Points |-> 0]
  /\ lastBoosts = [b \in Boosts |-> 0]
  /\ lastFail = 0

-----------------------------------------------------------------------------
(* The cache                                                               *)

\* Query, top-k, threshold and graph settings are of the request.  The signature of
\* the weights is the blend: the boosts are not in it.
MutantKey(r, sc, conf) == [filter |-> Filter(r, sc), scope |-> sc, sig |-> AnyWeights.blend]
Key(r, sc, conf) == [filter |-> Filter(r, sc), scope |-> sc, sig |-> conf.blend]

At(key) == {p \in DOMAIN searchCache : searchCache[p].key = key}
Without(p) == SubSeq(searchCache, 1, p - 1) \o SubSeq(searchCache, p + 1, Len(searchCache))

Touched(p) == Append(Without(p), searchCache[p])

InTime(p) == clock <= searchCache[p].until

\* A key that is there keeps its place; one that is not may drop others.
CachePut(key, value) ==
  LET room == IF Len(searchCache) >= CacheMax
              THEN SubSeq(searchCache, Len(searchCache) - CacheMax + 2, Len(searchCache))
              ELSE searchCache
      item == [key |-> key, value |-> value, until |-> clock + TTL]
      same == {p \in DOMAIN room : room[p].key = key}
  IN searchCache' = IF same = {} THEN Append(room, item)
              ELSE [p \in DOMAIN room |-> IF p \in same THEN item ELSE room[p]]

-----------------------------------------------------------------------------
(* A search                                                                *)

\* The event loop turns only where a search waits for Qdrant: from its beginning,
\* or an answer, up to the next question or the result nothing else happens.
Awaiting == \A s \in Searchers : stage[s] # "try"

SearchGoes(s, place) == stage' = [stage EXCEPT ![s] = place]

\* What was local to the search is gone.
Returns(s) ==
  /\ SearchGoes(s, "idle")
  /\ search' = [search EXCEPT ![s] =
       [@ EXCEPT !.at = 0, !.tries = 0, !.asked = 0, !.begun = 0, !.scope = "open",
                 !.left = {}, !.hits = {}, !.steady = TRUE]]

\* Weights are loaded into the service; the search keeps their signature.
BeginSearch(s, r) ==
  /\ Awaiting /\ stage[s] = "idle" /\ begun < MaxSearches
  /\ begun' = begun + 1 /\ loaded' = weights
  /\ search' = [search EXCEPT ![s] =
       [@ EXCEPT !.req = r, !.at = 1, !.begun = clock, !.conf = weights,
                 !.hits = {}, !.steady = TRUE]]
  /\ answer' = [answer EXCEPT ![s] = NoAnswer]
  /\ SearchGoes(s, "try")
  /\ UNCHANGED <<entries, clock, ranking, searchCache, backend>>

ScopeAt(s, n) ==
  LET tries == Tries(search[s].req) IN IF n <= Len(tries) THEN tries[n] ELSE "domain"
KeyOf(s, sc) == Key(search[s].req, sc, search[s].conf)

Hit(s) ==
  /\ stage[s] = "try" /\ search[s].at <= Len(Tries(search[s].req))
  /\ LET sc == ScopeAt(s, search[s].at)
     IN \E p \in At(KeyOf(s, sc)) :
          /\ InTime(p)
          /\ searchCache' = Touched(p)
          /\ answer' = [answer EXCEPT ![s] =
               [value |-> searchCache[p].value, scope |-> sc, at |-> clock]]
  /\ Returns(s)
  /\ UNCHANGED <<entries, clock, begun, ranking, loaded, backend>>

\* One more attempt; after the last, without the run if there is one.  With
\* nothing found anywhere the last attempt counts as the one that was applied.
MutantFoundNone(s) ==                   \* the last attempt is never made
  LET tries == Tries(search[s].req)
      more == search[s].at + 1 < Len(tries)
                \/ (search[s].at = Len(tries) /\ search[s].req.run # Unset)
  IN IF more
     THEN /\ search' = [search EXCEPT ![s].at = @ + 1]
          /\ SearchGoes(s, "try")
     ELSE /\ search' = [search EXCEPT ![s].scope = tries[Len(tries)]]
          /\ SearchGoes(s, "corpus")
FoundNone(s) ==
  LET tries == Tries(search[s].req)
      more == search[s].at < Len(tries)
                \/ (search[s].at = Len(tries) /\ search[s].req.run # Unset)
  IN IF more
     THEN /\ search' = [search EXCEPT ![s].at = @ + 1]
          /\ SearchGoes(s, "try")
     ELSE /\ search' = [search EXCEPT ![s].scope = tries[Len(tries)]]
          /\ SearchGoes(s, "corpus")

\* No key, or one that is too old, which is dropped.
Expired(s) ==
  IF search[s].at > Len(Tries(search[s].req)) THEN {}
  ELSE {p \in At(KeyOf(s, ScopeAt(s, search[s].at))) : ~InTime(p)}
Missed(s) ==
  \/ search[s].at > Len(Tries(search[s].req))
  \/ At(KeyOf(s, ScopeAt(s, search[s].at))) = Expired(s)
Dropped(s) ==
  IF Expired(s) = {} THEN searchCache ELSE Without(CHOOSE p \in Expired(s) : TRUE)

\* An open breaker answers with nothing.
CutShort(s) ==
  /\ stage[s] = "try" /\ Missed(s) /\ clock < cbOpenUntil
  /\ searchCache' = Dropped(s)
  /\ FoundNone(s)
  /\ lastFail' = clock
  /\ UNCHANGED <<entries, clock, begun, ranking, loaded, fails, cbOpenUntil, mishaps, answer>>

AskQdrant(s) ==
  /\ stage[s] = "try" /\ Missed(s) /\ clock >= cbOpenUntil
  /\ searchCache' = Dropped(s)
  /\ search' = [search EXCEPT ![s].asked = clock, ![s].tries = 0,
                              ![s].left = Collections(search[s].req)]
  /\ SearchGoes(s, "asked")
  /\ UNCHANGED <<entries, clock, begun, ranking, loaded, backend, answer>>

\* The collection that is asked; the order is that of the request.
Asked(s) == CHOOSE c \in search[s].left : TRUE

Offers(s, c) ==
  {e \in points : /\ c \in Place[e].vectors
                  /\ Passes(e, Filter(search[s].req, ScopeAt(s, search[s].at)))}

\* One collection is done with.  After the last, what all have found is the answer.
Turns(s, found) ==
  LET left == search[s].left \ {Asked(s)}
      hits == search[s].hits \cup found
  IN CASE left # {} ->
            /\ search' = [search EXCEPT ![s].left = left, ![s].tries = 0, ![s].hits = hits]
            /\ UNCHANGED stage
       [] left = {} /\ hits = {} -> FoundNone(s)
       [] OTHER ->
            /\ search' = [search EXCEPT ![s].scope = ScopeAt(s, search[s].at),
                                        ![s].hits = hits]
            /\ SearchGoes(s, "corpus")

QdrantAnswers(s) ==
  /\ Awaiting /\ stage[s] = "asked"
  /\ fails' = 0
  /\ Turns(s, Offers(s, Asked(s)))
  /\ UNCHANGED <<entries, clock, begun, ranking, loaded, searchCache, cbOpenUntil, mishaps,
                 lastFail, answer>>

\* A request that is refused (no vector for the query, no such collection) or whose
\* answer cannot be read is not tried again; to the breaker it is a success.
QdrantRejects(s) ==
  /\ Awaiting /\ stage[s] = "asked" /\ mishaps < MaxFailures
  /\ mishaps' = mishaps + 1 /\ fails' = 0 /\ lastFail' = clock
  /\ Turns(s, {})
  /\ UNCHANGED <<entries, clock, begun, ranking, loaded, searchCache, cbOpenUntil, answer>>

\* The last try may open the breaker, for a time that counts from the question.
QdrantFails(s) ==
  /\ Awaiting /\ stage[s] = "asked" /\ mishaps < MaxFailures
  /\ mishaps' = mishaps + 1 /\ fails' = fails + 1 /\ lastFail' = clock
  /\ IF search[s].tries + 1 < Attempts
     THEN /\ search' = [search EXCEPT ![s].tries = @ + 1]
          /\ UNCHANGED <<cbOpenUntil, stage>>
     ELSE /\ cbOpenUntil' = IF fails' >= FailLimit THEN search[s].asked + OpenFor
                          ELSE cbOpenUntil
          /\ Turns(s, {})
  /\ UNCHANGED <<entries, clock, begun, ranking, loaded, searchCache, answer>>

\* The corpus is what the applied filter lets pass of the texts; no corpus if the
\* request fails, and only what has a word of the query counts.
Corpus(s) ==
  {e \in points : /\ "text" \in Place[e].vectors
                  /\ Passes(e, Filter(search[s].req, search[s].scope))}

\* Ranked with the weights that the service has by now.
Result(s, found) ==
  [hits |-> search[s].hits \cup found, ranked |-> loaded,
   begun |-> search[s].begun, put |-> clock, steady |-> search[s].steady]

Finish(s) ==
  /\ Awaiting /\ stage[s] = "corpus"
  /\ \E found \in SUBSET Corpus(s) :
       /\ CachePut(KeyOf(s, search[s].scope), Result(s, found))
       /\ answer' = [answer EXCEPT ![s] =
            [value |-> Result(s, found), scope |-> search[s].scope, at |-> clock]]
  /\ Returns(s)
  /\ UNCHANGED <<entries, clock, begun, ranking, loaded, backend>>

-----------------------------------------------------------------------------
(* What goes on meanwhile                                                  *)

AddPoint(e) ==
  /\ Awaiting /\ e \notin points /\ moves < MaxMoves
  /\ points' = points \cup {e} /\ moves' = moves + 1
  /\ since' = [since EXCEPT ![e] = clock]
  /\ UNCHANGED <<lastIn, clock, begun, ranking, loaded, searchCache, backend, stage, search,
                 answer>>

\* A deletion, a clear or a version that is hidden: the cache is not told.
DropPoint(e) ==
  /\ Awaiting /\ e \in points /\ moves < MaxMoves
  /\ points' = points \ {e} /\ moves' = moves + 1
  /\ lastIn' = [lastIn EXCEPT ![e] = clock]
  /\ UNCHANGED <<since, clock, begun, ranking, loaded, searchCache, backend, stage, search,
                 answer>>

Configure(w) ==
  /\ Awaiting /\ w # weights /\ moves < MaxMoves
  /\ weights' = w /\ moves' = moves + 1
  /\ lastBoosts' = [lastBoosts EXCEPT ![weights.boosts] = clock]
  /\ search' = [s \in Searchers |->
       [search[s] EXCEPT !.steady = (stage[s] = "idle")]]
  /\ UNCHANGED <<points, since, lastIn, clock, begun, loaded, searchCache, backend, stage,
                 answer>>

ClockTick ==
  /\ Awaiting /\ clock < Horizon /\ clock' = clock + 1
  /\ UNCHANGED <<entries, begun, ranking, loaded, searchCache, backend, stage, search, answer>>

SearchNext ==
  \/ \E s \in Searchers :
       \/ \E r \in SearchRequests : BeginSearch(s, r)
       \/ Hit(s) \/ CutShort(s) \/ AskQdrant(s) \/ QdrantAnswers(s)
       \/ QdrantRejects(s) \/ QdrantFails(s) \/ Finish(s)
  \/ \E e \in Points : AddPoint(e) \/ DropPoint(e)
  \/ \E w \in Weights : Configure(w)
  \/ ClockTick

SearchSpec == SearchInit /\ [][SearchNext]_searchVars

-----------------------------------------------------------------------------
(* Properties                                                              *)

\* What the last filter of r wants is wanted by some attempt of q.
Covers(q, r) ==
  \E n \in DOMAIN Tries(q) :
    LET f == Filter(q, Tries(q)[n])
        w == Widest(r)
    IN /\ f.mods = w.mods
       /\ f.users = {} \/ (f.users = w.users /\ f.all = w.all)
       /\ f.domain \in {Unset, w.domain} /\ f.run \in {Unset, w.run}

\* A request that comes upon the last attempt of another, and what was cached of
\* it, misses nothing by that: all fall back in one order.
Relies(r, q) ==
  \E n \in DOMAIN Tries(r) :
    Tries(r)[n] = LastScope(q) /\ Filter(r, Tries(r)[n]) = Widest(q)
OneOrder == \A q, r \in SearchRequests : Relies(r, q) => Covers(q, r)

Answers == {s \in Searchers : answer[s] # NoAnswer}

SearchTypeOK ==
  /\ points \subseteq Points /\ clock \in 0 .. Horizon
  /\ weights \in Weights /\ loaded \in Weights
  /\ Len(searchCache) <= CacheMax
  /\ \A p \in DOMAIN searchCache : searchCache[p].value \in Value
  /\ \A p, q \in DOMAIN searchCache : searchCache[p].key = searchCache[q].key => p = q
  /\ stage \in [Searchers -> {"idle", "try", "asked", "corpus"}]
  /\ \A s \in Searchers : /\ search[s].req \in SearchRequests
                          /\ search[s].at \in 0 .. Len(Tries(search[s].req)) + 1
  /\ fails \in 0 .. MaxFailures /\ cbOpenUntil \in 0 .. Horizon + OpenFor

\* An answer is what the filter of the scope it was found in means, whether it comes
\* from a collection, the corpus, or an earlier search's cache: its domain, its run and
\* all the users it must have without exception.  Where both the modality and the user
\* may be any of several, an entry is of such a user or of such a modality, and no more
\* is certain: see BothDimensions.
AnswerMatches ==
  \A s \in Answers : \A e \in answer[s].value.hits :
    LET f == Filter(search[s].req, answer[s].scope)
    IN IF TwoLists(f) THEN OfPlace(e, f) /\ (OfMods(e, f) \/ OfUsers(e, f))
       ELSE Wants(e, f)

\* What the comment at QdrantStore._build_filter says: dimensions are joined by "and".
BothDimensions ==
  \A s \in Answers : \A e \in answer[s].value.hits :
    Wants(e, Filter(search[s].req, answer[s].scope))

\* Nobody tells the cache of a change, but an answer shows no entry that was gone
\* longer than a lifetime of the cache before, plus the time that the search took
\* which found it: also when it is asked for again and again.
BoundedStaleness ==
  \A s \in Answers : \A e \in answer[s].value.hits \ points :
    answer[s].at <= lastIn[e] + TTL + (answer[s].value.put - answer[s].value.begun)

\* An entry that is wanted, and has a vector where it is looked for.
Shows(e, f) == Wants(e, f) /\ Place[e].vectors \cap Collections(f) # {}

\* An empty answer that leaves out an entry which was there before its search
\* began has a failure of the vector store behind it, and is not older than a
\* lifetime of the cache: an outage is not remembered longer.
EmptyHasReason ==
  \A s \in Answers :
    LET r == search[s].req
        v == answer[s].value
    IN /\ v.hits = {}
       /\ \E e \in points : since[e] < v.begun /\ Shows(e, Widest(r))
       => lastFail >= v.begun /\ answer[s].at <= v.put + TTL

\* The cache hides a change, a deletion or the end of an outage for a lifetime only.
CacheIsHonest == BoundedStaleness /\ EmptyHasReason

\* An answer is ranked with the blend in force when it was asked for, and with boosts
\* that were in force not longer than a lifetime of the cache before, unless weights
\* were changed while it, or the search that filled the cache, went on: boosts that are
\* changed leave the ranking of what is cached as it was, but the cache soon forgets.
RankedAsConfigured ==
  \A s \in Answers :
    LET v == answer[s].value
    IN v.steady => /\ v.ranked.blend = search[s].conf.blend
                   /\ \/ v.ranked.boosts = weights.boosts
                      \/ answer[s].at <= lastBoosts[v.ranked.boosts] + TTL
=============================================================================
