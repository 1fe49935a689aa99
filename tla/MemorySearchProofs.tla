----------------------- MODULE MemorySearchProofs ----------------------
(***************************************************************************)
(* What an answer of MemoryService.search says, for any number of          *)
(* searches, entries, requests, failures and changes.  The cache is what   *)
(* connects searches: what is known of a result when it is put there must  *)
(* still be true, and enough, when another search comes upon it.           *)
(***************************************************************************)
EXTENDS MemorySearch, SequenceTheorems, FiniteSetTheorems, TLAPS

-----------------------------------------------------------------------------
(* The values of the variables.                                            *)

Filters == {Filter(r, sc) : r \in SearchRequests, sc \in Scopes}
Keys == [filter : Filters, scope : Scopes, sig : Blends]
Item == [key : Keys, value : Value, until : Nat]
Modes == UNION {Collections(r) : r \in SearchRequests}
Search == [req : SearchRequests, at : Nat, tries : Nat, asked : 0 .. Horizon,
           begun : 0 .. Horizon, conf : Weights, scope : Scopes,
           left : SUBSET Modes, hits : SUBSET Points, steady : BOOLEAN]
Reply == [value : Value, scope : Scopes, at : 0 .. Horizon]
Places == {"idle", "try", "asked", "corpus"}

\* What is in a cache, and that its keys are told apart.
Items(c) == {c[p] : p \in DOMAIN c}
Apart(c) == \A p, q \in DOMAIN c : c[p].key = c[q].key => p = q
Caches == {c \in Seq(Item) : Len(c) <= CacheMax /\ Apart(c)}

\* An attempt there is, or the one without the run after the last.
InRange(x, place) ==
  x.at <= Len(Tries(x.req)) + 1 /\ (place # "idle" => x.at >= 1)

SearchTypes ==
  /\ points \subseteq Points /\ clock \in 0 .. Horizon
  /\ weights \in Weights /\ loaded \in Weights
  /\ searchCache \in Caches
  /\ stage \in [Searchers -> Places]
  /\ search \in [Searchers -> Search]
  /\ \A s \in Searchers : InRange(search[s], stage[s])
  /\ answer \in [Searchers -> Reply \cup {NoAnswer}]
  /\ fails \in Nat /\ mishaps \in 0 .. MaxFailures /\ fails <= mishaps
  /\ cbOpenUntil \in 0 .. Horizon + OpenFor
  /\ since \in [Points -> 0 .. Horizon] /\ lastIn \in [Points -> 0 .. Horizon]
  /\ lastFail \in 0 .. Horizon /\ lastBoosts \in [Boosts -> 0 .. Horizon]

LEMMA AttemptsOf ==
  ASSUME NEW r \in SearchRequests
  PROVE  /\ Tries(r) \in Seq(Scopes) /\ Len(Tries(r)) \in Nat \ {0}
         /\ DOMAIN Tries(r) = 1 .. Len(Tries(r))
         /\ \A n \in 1 .. Len(Tries(r)) : Tries(r)[n] \in Scopes
         /\ LastScope(r) \in Scopes
<1> DEFINE t == Tries(r)
<1>1. t \in Seq(Scopes) /\ t # << >>
  BY SearchAssumption
<1> HIDE DEF t
<1>2. Len(t) \in Nat \ {0} /\ DOMAIN t = 1 .. Len(t)
      /\ \A n \in 1 .. Len(t) : t[n] \in Scopes
  BY <1>1
<1>3. t[Len(t)] \in Scopes
  BY <1>2
<1> QED BY <1>1, <1>2, <1>3 DEF t, LastScope

LEMMA KeysOf ==
  ASSUME NEW r \in SearchRequests, NEW sc \in Scopes, NEW w \in Weights
  PROVE  /\ Key(r, sc, w) \in Keys
         /\ Key(r, sc, w).filter = Filter(r, sc)
         /\ Key(r, sc, w).scope = sc /\ Key(r, sc, w).sig = w.blend
BY DEF Key, Keys, Filters, Weights

-----------------------------------------------------------------------------
(* The cache.                                                              *)

LEMMA Cached ==
  ASSUME NEW c \in Caches
  PROVE  /\ c \in Seq(Item) /\ Len(c) \in Nat /\ DOMAIN c = 1 .. Len(c)
         /\ \A p \in 1 .. Len(c) : c[p] \in Item /\ c[p] \in Items(c)
BY DEF Caches, Items

\* A cache without one of its places.
LEMMA Removal ==
  ASSUME NEW c \in Caches, NEW p \in DOMAIN c
  PROVE  LET w == SubSeq(c, 1, p - 1) \o SubSeq(c, p + 1, Len(c))
         IN /\ w \in Caches /\ Len(w) = Len(c) - 1 /\ Items(w) \subseteq Items(c)
            /\ \A q \in DOMAIN w : w[q].key # c[p].key
<1> DEFINE a == SubSeq(c, 1, p - 1)
           b == SubSeq(c, p + 1, Len(c))
           w == a \o b
<1>1. /\ c \in Seq(Item) /\ Len(c) \in Nat /\ DOMAIN c = 1 .. Len(c) /\ p \in 1 .. Len(c)
      /\ \A q \in 1 .. Len(c) : c[q] \in Item
  BY Cached
<1>2. a \in Seq(Item) /\ Len(a) = p - 1 /\ \A q \in 1 .. p - 1 : a[q] = c[q]
  <2>1. \A q \in 1 .. p - 1 : c[q] \in Item
    BY <1>1
  <2>2. 1 \in Int /\ p - 1 \in Int
    BY <1>1
  <2> HIDE DEF a
  <2>3. /\ a \in Seq(Item) /\ Len(a) = (IF 1 <= p - 1 THEN p - 1 - 1 + 1 ELSE 0)
        /\ \A q \in 1 .. p - 1 - 1 + 1 : a[q] = c[1 + q - 1]
    BY <2>1, <2>2, SubSeqProperties DEF a
  <2> QED BY <2>3, <1>1
<1>3. /\ b \in Seq(Item) /\ Len(b) = Len(c) - p
      /\ \A q \in 1 .. Len(c) - p : b[q] = c[p + q]
  <2>1. \A q \in p + 1 .. Len(c) : c[q] \in Item
    BY <1>1
  <2>2. p + 1 \in Int /\ Len(c) \in Int
    BY <1>1
  <2> HIDE DEF b
  <2>3. /\ b \in Seq(Item)
        /\ Len(b) = (IF p + 1 <= Len(c) THEN Len(c) - (p + 1) + 1 ELSE 0)
        /\ \A q \in 1 .. Len(c) - (p + 1) + 1 : b[q] = c[p + 1 + q - 1]
    BY <2>1, <2>2, SubSeqProperties DEF b
  <2>4. Len(b) = Len(c) - p
    BY <2>3, <1>1
  <2>5. ASSUME NEW q \in 1 .. Len(c) - p
        PROVE  b[q] = c[p + q]
    <3>1. p + 1 + q - 1 = p + q /\ q \in 1 .. Len(c) - (p + 1) + 1
      BY <1>1
    <3> QED BY <2>3, <3>1
  <2> QED BY <2>3, <2>4, <2>5
<1> HIDE DEF a, b
<1>4. /\ w \in Seq(Item) /\ Len(w) = Len(c) - 1 /\ DOMAIN w = 1 .. Len(c) - 1
      /\ \A q \in 1 .. Len(c) - 1 : w[q] = IF q < p THEN c[q] ELSE c[q + 1]
  <2>1. /\ w \in Seq(Item) /\ Len(w) = Len(a) + Len(b)
        /\ \A q \in 1 .. Len(a) + Len(b) : w[q] = IF q <= Len(a) THEN a[q]
                                                   ELSE b[q - Len(a)]
    BY <1>2, <1>3, ConcatProperties
  <2> HIDE DEF w
  <2>2. DOMAIN w = 1 .. Len(w)
    BY <2>1
  <2>3. Len(w) = Len(c) - 1
    BY <2>1, <1>1, <1>2, <1>3
  <2>4. ASSUME NEW q \in 1 .. Len(c) - 1
        PROVE  w[q] = IF q < p THEN c[q] ELSE c[q + 1]
    <3>1. CASE q < p
      <4>1. q \in 1 .. p - 1 /\ q <= Len(a) /\ q \in 1 .. Len(a) + Len(b)
        BY <3>1, <1>1, <1>2, <1>3
      <4> QED BY <4>1, <3>1, <2>1, <1>2
    <3>2. CASE ~(q < p)
      <4>1. /\ q - Len(a) \in 1 .. Len(c) - p /\ ~(q <= Len(a))
            /\ q \in 1 .. Len(a) + Len(b) /\ p + (q - Len(a)) = q + 1
        BY <3>2, <1>1, <1>2, <1>3
      <4> QED BY <4>1, <3>2, <2>1, <1>3
    <3> QED BY <3>1, <3>2
  <2> QED BY <2>1, <2>2, <2>3, <2>4
<1> HIDE DEF w
<1>5. Apart(c)
  BY DEF Caches
\* Where a place of w comes from.
<1> DEFINE from(q) == IF q < p THEN q ELSE q + 1
<1>10. \A q \in DOMAIN w : /\ from(q) \in DOMAIN c /\ from(q) # p /\ w[q] = c[from(q)]
  BY <1>1, <1>4
<1>11. \A q, r \in DOMAIN w : from(q) = from(r) => q = r
  BY <1>1, <1>4
<1> HIDE DEF from
<1>6. Apart(w)
  BY <1>10, <1>11, <1>5 DEF Apart
<1>7. Items(w) \subseteq Items(c)
  BY <1>10 DEF Items
<1>8. \A q \in DOMAIN w : w[q].key # c[p].key
  BY <1>10, <1>5 DEF Apart
<1>9. w \in Caches
  BY <1>1, <1>4, <1>6, SearchAssumption DEF Caches
<1> QED BY <1>4, <1>7, <1>8, <1>9 DEF w, a, b

\* A new item at the end of a cache with room.
LEMMA Extension ==
  ASSUME NEW c \in Caches, NEW i \in Item, Len(c) < CacheMax,
         \A q \in DOMAIN c : c[q].key # i.key
  PROVE  Append(c, i) \in Caches /\ Items(Append(c, i)) \subseteq Items(c) \cup {i}
<1> DEFINE w == Append(c, i)
<1>1. c \in Seq(Item) /\ Len(c) \in Nat /\ DOMAIN c = 1 .. Len(c)
  BY Cached
<1>2. /\ w \in Seq(Item) /\ Len(w) = Len(c) + 1 /\ DOMAIN w = 1 .. Len(c) + 1
      /\ \A q \in 1 .. Len(c) : w[q] = c[q]
      /\ w[Len(c) + 1] = i
  <2>1. /\ w \in Seq(Item) /\ Len(w) = Len(c) + 1
        /\ \A q \in 1 .. Len(c) : w[q] = c[q]
        /\ w[Len(c) + 1] = i
    BY <1>1, AppendProperties
  <2> HIDE DEF w
  <2> QED BY <2>1, <1>1
<1> HIDE DEF w
<1>3. \A q \in DOMAIN w : q = Len(c) + 1 \/ q \in 1 .. Len(c)
  BY <1>1, <1>2
<1>4. Apart(c)
  BY DEF Caches
<1>5. Apart(w)
  BY <1>1, <1>2, <1>3, <1>4 DEF Apart
<1>6. Items(w) \subseteq Items(c) \cup {i}
  BY <1>1, <1>2, <1>3 DEF Items
<1>7. w \in Caches
  BY <1>1, <1>2, <1>5, SearchAssumption DEF Caches
<1> QED BY <1>6, <1>7 DEF w

\* The least recently used item makes room.
LEMMA Eviction ==
  ASSUME NEW c \in Caches, Len(c) >= CacheMax
  PROVE  LET w == SubSeq(c, Len(c) - CacheMax + 2, Len(c))
         IN w \in Caches /\ Len(w) < CacheMax /\ Items(w) \subseteq Items(c)
<1>1. /\ c \in Seq(Item) /\ Len(c) \in Nat /\ DOMAIN c = 1 .. Len(c) /\ Len(c) = CacheMax
      /\ \A q \in 1 .. Len(c) : c[q] \in Item
  BY Cached, SearchAssumption DEF Caches
<1>2. Len(c) - CacheMax + 2 = 2 /\ Len(c) >= 1
  BY <1>1, SearchAssumption
<1> DEFINE w == SubSeq(c, 2, Len(c))
<1>3. /\ w \in Seq(Item) /\ Len(w) = (IF 2 <= Len(c) THEN Len(c) - 2 + 1 ELSE 0)
      /\ \A q \in 1 .. Len(c) - 2 + 1 : w[q] = c[2 + q - 1]
  <2>1. \A q \in 2 .. Len(c) : c[q] \in Item
    BY <1>1
  <2>2. 2 \in Int /\ Len(c) \in Int
    BY <1>1
  <2> HIDE DEF w
  <2> QED BY <2>1, <2>2, SubSeqProperties DEF w
<1> HIDE DEF w
<1>4. Len(w) = Len(c) - 1 /\ DOMAIN w = 1 .. Len(c) - 1
  BY <1>1, <1>2, <1>3
<1>5. ASSUME NEW q \in DOMAIN w
      PROVE  q + 1 \in DOMAIN c /\ w[q] = c[q + 1]
  <2>1. 2 + q - 1 = q + 1 /\ q \in 1 .. Len(c) - 2 + 1 /\ q + 1 \in DOMAIN c
    BY <1>1, <1>2, <1>4
  <2> QED BY <2>1, <1>3
<1>6. \A q, r \in DOMAIN w : q + 1 = r + 1 => q = r
  BY <1>1, <1>4
<1>7. Apart(c)
  BY DEF Caches
<1>8. Apart(w)
  BY <1>5, <1>6, <1>7 DEF Apart
<1>9. Items(w) \subseteq Items(c)
  BY <1>5 DEF Items
<1>10. w \in Caches /\ Len(w) < CacheMax
  BY <1>1, <1>2, <1>3, <1>4, <1>8 DEF Caches
<1> QED BY <1>2, <1>9, <1>10 DEF w

\* A key that is there keeps its place.
LEMMA Replacement ==
  ASSUME NEW c \in Caches, NEW i \in Item, NEW same \in SUBSET DOMAIN c,
         same = {p \in DOMAIN c : c[p].key = i.key}
  PROVE  LET w == [p \in DOMAIN c |-> IF p \in same THEN i ELSE c[p]]
         IN w \in Caches /\ Items(w) \subseteq Items(c) \cup {i}
<1> DEFINE w == [p \in DOMAIN c |-> IF p \in same THEN i ELSE c[p]]
<1>1. /\ c \in Seq(Item) /\ Len(c) \in Nat /\ DOMAIN c = 1 .. Len(c) /\ Len(c) <= CacheMax
      /\ \A q \in 1 .. Len(c) : c[q] \in Item
  BY Cached DEF Caches
<1>2. \A p \in DOMAIN w : p \in DOMAIN c /\ w[p].key = c[p].key
  OBVIOUS
<1>3. \A p \in DOMAIN w : w[p] = i \/ w[p] = c[p]
  OBVIOUS
<1>4. w \in [1 .. Len(c) -> Item]
  BY <1>1
<1> HIDE DEF w
<1>5. w \in Seq(Item) /\ Len(w) = Len(c) /\ DOMAIN w = DOMAIN c
  BY <1>1, <1>4
<1>6. Apart(c)
  BY DEF Caches
<1>7. Apart(w)
  BY <1>2, <1>6 DEF Apart
<1>8. Items(w) \subseteq Items(c) \cup {i}
  BY <1>2, <1>3 DEF Items
<1>9. w \in Caches
  BY <1>1, <1>5, <1>7 DEF Caches
<1> QED BY <1>8, <1>9 DEF w

\* Putting a value: what is there afterwards was there, or is the new item.
LEMMA Putting ==
  ASSUME searchCache \in Caches, clock \in 0 .. Horizon, NEW key \in Keys, NEW v \in Value,
         CachePut(key, v)
  PROVE  /\ searchCache' \in Caches
         /\ Items(searchCache') \subseteq Items(searchCache)
                            \cup {[key |-> key, value |-> v, until |-> clock + TTL]}
<1> DEFINE room == IF Len(searchCache) >= CacheMax
                   THEN SubSeq(searchCache, Len(searchCache) - CacheMax + 2, Len(searchCache))
                   ELSE searchCache
           i == [key |-> key, value |-> v, until |-> clock + TTL]
           same == {p \in DOMAIN room : room[p].key = i.key}
<1>1. i \in Item /\ i.key = key
  BY SearchAssumption DEF Item
<1>2. /\ room \in Caches /\ Len(room) < CacheMax
      /\ Items(room) \subseteq Items(searchCache)
  <2>1. CASE Len(searchCache) >= CacheMax
    BY <2>1, Eviction
  <2>2. CASE ~(Len(searchCache) >= CacheMax)
    <3>1. Len(searchCache) < CacheMax
      BY <2>2, Cached, SearchAssumption
    <3> QED BY <2>2, <3>1
  <2> QED BY <2>1, <2>2
<1>3. searchCache' = IF same = {} THEN Append(room, i)
               ELSE [p \in DOMAIN room |-> IF p \in same THEN i ELSE room[p]]
  BY <1>1 DEF CachePut
<1> HIDE DEF room, i
<1>4. CASE same = {}
  <2>1. \A q \in DOMAIN room : room[q].key # i.key
    BY <1>4
  <2>2. Append(room, i) \in Caches /\ Items(Append(room, i)) \subseteq Items(room) \cup {i}
    BY <1>1, <1>2, <2>1, Extension
  <2> QED BY <1>2, <1>3, <1>4, <2>2 DEF i
<1>5. CASE same # {}
  <2> DEFINE w == [p \in DOMAIN room |-> IF p \in same THEN i ELSE room[p]]
  <2>1. w \in Caches /\ Items(w) \subseteq Items(room) \cup {i}
    <3>1. same \in SUBSET DOMAIN room
      OBVIOUS
    <3> QED BY <1>1, <1>2, <3>1, Replacement
  <2>2. searchCache' = w
    BY <1>3, <1>5
  <2> HIDE DEF w
  <2> QED BY <1>2, <2>1, <2>2 DEF i
<1> QED BY <1>4, <1>5

\* Coming upon an item: it moves to the end.
LEMMA Touching ==
  ASSUME searchCache \in Caches, NEW p \in DOMAIN searchCache
  PROVE  /\ Touched(p) \in Caches /\ Items(Touched(p)) \subseteq Items(searchCache)
         /\ searchCache[p] \in Item /\ searchCache[p] \in Items(searchCache)
<1> DEFINE w == SubSeq(searchCache, 1, p - 1) \o SubSeq(searchCache, p + 1, Len(searchCache))
<1>1. /\ w \in Caches /\ Len(w) = Len(searchCache) - 1 /\ Items(w) \subseteq Items(searchCache)
      /\ \A q \in DOMAIN w : w[q].key # searchCache[p].key
  BY Removal
<1>2. /\ searchCache[p] \in Item /\ searchCache[p] \in Items(searchCache)
      /\ Len(searchCache) \in Nat /\ Len(searchCache) <= CacheMax
  BY Cached DEF Caches
<1>3. Touched(p) = Append(w, searchCache[p])
  BY DEF Touched, Without
<1> HIDE DEF w
<1>4. Len(w) < CacheMax
  BY <1>1, <1>2, SearchAssumption
<1>5. Append(w, searchCache[p]) \in Caches
      /\ Items(Append(w, searchCache[p])) \subseteq Items(w) \cup {searchCache[p]}
  BY <1>1, <1>2, <1>4, Extension
<1> QED BY <1>1, <1>2, <1>3, <1>5

\* Looking for a key: what is too old goes.
LEMMA Dropping ==
  ASSUME searchCache \in Caches, NEW s
  PROVE  Dropped(s) \in Caches /\ Items(Dropped(s)) \subseteq Items(searchCache)
<1>1. CASE Expired(s) = {}
  BY <1>1 DEF Dropped
<1>2. CASE Expired(s) # {}
  <2> DEFINE p == CHOOSE q \in Expired(s) : TRUE
  <2>1. p \in Expired(s)
    BY <1>2
  <2>2. p \in DOMAIN searchCache
    BY <2>1 DEF Expired, At
  <2>3. Dropped(s) = SubSeq(searchCache, 1, p - 1) \o SubSeq(searchCache, p + 1, Len(searchCache))
    BY <1>2 DEF Dropped, Without
  <2> HIDE DEF p
  <2> QED BY <2>2, <2>3, Removal
<1> QED BY <1>1, <1>2

-----------------------------------------------------------------------------
(* How a search moves on: x is what is local to it afterwards.             *)

Moves(s, x, place) ==
  search' = [search EXCEPT ![s] = x] /\ stage' = [stage EXCEPT ![s] = place]

\* It is still about the same request.
Same(x, y) == /\ x.req = y.req /\ x.begun = y.begun /\ x.conf = y.conf
              /\ x.steady = y.steady

LEMMA Moving ==
  ASSUME SearchTypes, NEW s \in Searchers, NEW x \in Search, NEW place \in Places,
         InRange(x, place), Moves(s, x, place)
  PROVE  /\ search' \in [Searchers -> Search] /\ stage' \in [Searchers -> Places]
         /\ \A t \in Searchers : InRange(search'[t], stage'[t])
         /\ search'[s] = x /\ stage'[s] = place
         /\ \A t \in Searchers : t # s => search'[t] = search[t] /\ stage'[t] = stage[t]
<1>1. /\ search \in [Searchers -> Search] /\ stage \in [Searchers -> Places]
      /\ \A t \in Searchers : InRange(search[t], stage[t])
  BY DEF SearchTypes
<1>2. /\ search' \in [Searchers -> Search] /\ stage' \in [Searchers -> Places]
      /\ search'[s] = x /\ stage'[s] = place
      /\ \A t \in Searchers : t # s => search'[t] = search[t] /\ stage'[t] = stage[t]
  BY <1>1 DEF Moves
<1>3. ASSUME NEW t \in Searchers
      PROVE  InRange(search'[t], stage'[t])
  <2>1. CASE t = s
    BY <2>1, <1>2
  <2>2. CASE t # s
    BY <2>2, <1>1, <1>2
  <2> QED BY <2>1, <2>2
<1> QED BY <1>2, <1>3

LEMMA LocalState ==
  ASSUME SearchTypes, NEW s \in Searchers
  PROVE  /\ search[s] \in Search /\ stage[s] \in Places /\ InRange(search[s], stage[s])
         /\ search[s].req \in SearchRequests /\ search[s].at \in Nat
         /\ search[s].tries \in Nat /\ search[s].asked \in 0 .. Horizon
         /\ search[s].begun \in 0 .. Horizon /\ search[s].conf \in Weights
         /\ search[s].scope \in Scopes /\ search[s].hits \in SUBSET Points
         /\ search[s].left \in SUBSET Modes /\ search[s].steady \in BOOLEAN
<1>1. search[s] \in Search /\ stage[s] \in Places /\ InRange(search[s], stage[s])
  BY DEF SearchTypes
<1> QED BY <1>1 DEF Search

LEMMA ScopesAt ==
  ASSUME SearchTypes, NEW s \in Searchers, stage[s] # "idle"
  PROVE  /\ ScopeAt(s, search[s].at) \in Scopes
         /\ search[s].at <= Len(Tries(search[s].req))
              => ScopeAt(s, search[s].at) = Tries(search[s].req)[search[s].at]
<1>1. PICK r \in SearchRequests : r = search[s].req
  BY LocalState
<1>2. PICK n \in Nat : n = search[s].at /\ n >= 1
  BY LocalState DEF InRange
<1>3. Len(Tries(r)) \in Nat /\ \A k \in 1 .. Len(Tries(r)) : Tries(r)[k] \in Scopes
  BY AttemptsOf
<1>4. ScopeAt(s, n) = IF n <= Len(Tries(r)) THEN Tries(r)[n] ELSE "domain"
  BY <1>1 DEF ScopeAt
<1>5. CASE n <= Len(Tries(r))
  <2>1. n \in 1 .. Len(Tries(r))
    BY <1>2, <1>3, <1>5
  <2>2. ScopeAt(s, n) = Tries(r)[n]
    BY <1>4, <1>5
  <2> QED BY <1>1, <1>2, <1>3, <2>1, <2>2
<1>6. CASE ~(n <= Len(Tries(r)))
  <2>1. ScopeAt(s, n) = "domain"
    BY <1>4, <1>6
  <2> QED BY <1>1, <1>2, <1>6, <2>1 DEF Scopes
<1> QED BY <1>5, <1>6

LEMMA ReturnMoves ==
  ASSUME SearchTypes, NEW s \in Searchers, Returns(s)
  PROVE  \E x \in Search : /\ Moves(s, x, "idle") /\ InRange(x, "idle")
                           /\ x.req = search[s].req /\ x.conf = search[s].conf
                           /\ x.begun = 0
<1>1. PICK y \in Search : y = search[s]
  BY LocalState
<1> DEFINE x == [y EXCEPT !.at = 0, !.tries = 0, !.asked = 0, !.begun = 0,
                          !.scope = "open", !.left = {}, !.hits = {}, !.steady = TRUE]
<1>2. x.req = y.req /\ x.conf = y.conf /\ x.at = 0 /\ x.begun = 0
  BY DEF Search
<1>5. x \in Search
  <2>1. 0 \in Nat /\ 0 \in 0 .. Horizon /\ "open" \in Scopes /\ {} \in SUBSET Points
        /\ {} \in SUBSET Modes
    BY SearchAssumption DEF Scopes
  <2> HIDE DEF Scopes
  <2> QED BY <2>1 DEF Search
<1>3. search' = [search EXCEPT ![s] = x]
  BY <1>1 DEF Returns, SearchTypes
<1> HIDE DEF x
<1>4. y.req \in SearchRequests
  BY DEF Search
<1>6. InRange(x, "idle")
  BY <1>2, <1>4, AttemptsOf DEF InRange
<1>7. Moves(s, x, "idle")
  BY <1>3 DEF Moves, Returns, SearchGoes
<1> QED BY <1>1, <1>2, <1>5, <1>6, <1>7

LEMMA BeginMoves ==
  ASSUME SearchTypes, NEW s \in Searchers, NEW r \in SearchRequests, BeginSearch(s, r)
  PROVE  \E x \in Search : /\ Moves(s, x, "try") /\ InRange(x, "try")
                           /\ x.req = r /\ x.conf = weights /\ x.begun = clock
                           /\ x.at = 1 /\ x.hits = {} /\ x.asked = search[s].asked
<1>1. PICK y \in Search : y = search[s]
  BY LocalState
<1> DEFINE x == [y EXCEPT !.req = r, !.at = 1, !.begun = clock, !.conf = weights,
                          !.hits = {}, !.steady = TRUE]
<1>2. /\ x.req = r /\ x.conf = weights /\ x.at = 1 /\ x.asked = y.asked
      /\ x.begun = clock /\ x.hits = {}
  BY DEF Search
<1>5. x \in Search
  <2>1. clock \in 0 .. Horizon /\ weights \in Weights
    BY DEF SearchTypes
  <2> QED BY <2>1 DEF Search
<1>3. search' = [search EXCEPT ![s] = x]
  BY <1>1 DEF BeginSearch, SearchTypes
<1> HIDE DEF x
<1>6. InRange(x, "try")
  BY <1>2, AttemptsOf DEF InRange
<1>7. Moves(s, x, "try")
  BY <1>3 DEF Moves, BeginSearch, SearchGoes
<1> QED BY <1>1, <1>2, <1>5, <1>6, <1>7

\* One more attempt, or on to the corpus.
LEMMA NothingMoves ==
  ASSUME SearchTypes, NEW s \in Searchers, stage[s] \in {"try", "asked"}, FoundNone(s)
  PROVE  \E x \in Search : \E place \in {"try", "corpus"} :
           /\ Moves(s, x, place) /\ InRange(x, place) /\ Same(x, search[s])
           /\ x.hits = search[s].hits /\ x.asked = search[s].asked
           /\ place = "try" => /\ x.at = search[s].at + 1
                               /\ search[s].at <= Len(Tries(search[s].req))
           /\ place = "corpus" => /\ x.at = search[s].at
                                  /\ search[s].at >= Len(Tries(search[s].req))
                                  /\ x.scope = LastScope(search[s].req)
<1>1. PICK y \in Search : y = search[s] /\ InRange(y, stage[s])
  BY LocalState
<1> DEFINE tries == Tries(y.req)
<1>2. /\ y.req \in SearchRequests /\ y.at \in Nat /\ y.tries \in Nat /\ y.asked \in 0 .. Horizon
      /\ y.begun \in 0 .. Horizon /\ y.conf \in Weights /\ y.scope \in Scopes
      /\ y.hits \in SUBSET Points /\ y.left \in SUBSET Modes /\ y.steady \in BOOLEAN
  BY DEF Search
<1>3. Len(tries) \in Nat /\ LastScope(y.req) \in Scopes
      /\ LastScope(y.req) = tries[Len(tries)]
  BY <1>2, AttemptsOf DEF LastScope
<1> DEFINE more == y.at < Len(tries) \/ (y.at = Len(tries) /\ y.req.run # Unset)
<1> HIDE DEF tries
<1>4. CASE more
  <2> DEFINE x == [y EXCEPT !.at = y.at + 1]
  <2>1. /\ Same(x, y) /\ x.at = y.at + 1 /\ x.hits = y.hits /\ x.asked = y.asked
        /\ x \in Search
    BY <1>2 DEF Search, Same
  <2>2. search' = [search EXCEPT ![s] = x] /\ SearchGoes(s, "try")
    BY <1>1, <1>4 DEF FoundNone, SearchTypes, tries
  <2> HIDE DEF x
  <2>3. Moves(s, x, "try")
    BY <2>2 DEF Moves, SearchGoes
  <2>4. y.at <= Len(tries) /\ InRange(x, "try")
    BY <1>2, <1>3, <1>4, <2>1 DEF InRange, Same, tries
  <2> QED BY <1>1, <2>1, <2>3, <2>4 DEF tries
<1>5. CASE ~more
  <2> DEFINE x == [y EXCEPT !.scope = LastScope(y.req)]
  <2>1. /\ Same(x, y) /\ x.at = y.at /\ x.hits = y.hits /\ x.asked = y.asked
        /\ x \in Search /\ x.scope = LastScope(y.req)
    BY <1>2, <1>3 DEF Search, Same
  <2>2. search' = [search EXCEPT ![s] = x] /\ SearchGoes(s, "corpus")
    BY <1>1, <1>3, <1>5 DEF FoundNone, SearchTypes, tries
  <2> HIDE DEF x
  <2>3. Moves(s, x, "corpus")
    BY <2>2 DEF Moves, SearchGoes
  <2>4. y.at >= Len(tries)
    BY <1>2, <1>3, <1>5
  <2>5. InRange(x, "corpus")
    BY <1>1, <2>1 DEF InRange, Same
  <2> QED BY <1>1, <2>1, <2>3, <2>4, <2>5 DEF tries
<1> QED BY <1>4, <1>5

LEMMA AskMoves ==
  ASSUME SearchTypes, NEW s \in Searchers, AskQdrant(s)
  PROVE  \E x \in Search : /\ Moves(s, x, "asked") /\ InRange(x, "asked") /\ Same(x, search[s])
                           /\ x.hits = search[s].hits /\ x.at = search[s].at
                           /\ x.asked = clock /\ x.left = Collections(x.req)
<1>1. PICK y \in Search : y = search[s] /\ InRange(y, stage[s])
  BY LocalState
<1> DEFINE all == Collections(y.req)
           x == [y EXCEPT !.asked = clock, !.tries = 0, !.left = all]
<1>2. clock \in 0 .. Horizon /\ all \in SUBSET Modes
  BY DEF SearchTypes, Search, Modes
<1> HIDE DEF all
<1>3. /\ Same(x, y) /\ x.hits = y.hits /\ x.at = y.at /\ x.asked = clock /\ x.left = all
      /\ x.req = y.req /\ x \in Search
  BY <1>2, SearchAssumption DEF Search, Same
<1>4. search' = [search EXCEPT ![s] = x]
  BY <1>1 DEF AskQdrant, SearchTypes, all
<1> HIDE DEF x
<1>5. Moves(s, x, "asked")
  BY <1>4 DEF Moves, AskQdrant, SearchGoes
<1>6. InRange(x, "asked")
  BY <1>1, <1>3 DEF InRange, Same, AskQdrant
<1> QED BY <1>1, <1>3, <1>5, <1>6 DEF all

\* One collection is done with: there are others, or nothing is found, or the corpus
\* is next.
Rest(s) == search[s].left \ {Asked(s)}

LEMMA TurnsMoves ==
  ASSUME SearchTypes, NEW s \in Searchers, stage[s] = "asked",
         NEW found \in SUBSET Points, Turns(s, found)
  PROVE  \/ \E x \in Search : /\ Moves(s, x, "asked") /\ InRange(x, "asked")
                              /\ Same(x, search[s]) /\ x.at = search[s].at
                              /\ x.hits = search[s].hits \cup found /\ x.left = Rest(s)
         \/ FoundNone(s) /\ Rest(s) = {} /\ search[s].hits = {} /\ found = {}
         \/ \E x \in Search : /\ Moves(s, x, "corpus") /\ InRange(x, "corpus")
                              /\ Same(x, search[s])
                              /\ x.scope = ScopeAt(s, search[s].at)
                              /\ x.hits = search[s].hits \cup found /\ x.hits # {}
<1>1. PICK y \in Search : y = search[s] /\ InRange(y, stage[s])
  BY LocalState
<1>2. PICK sc \in Scopes : sc = ScopeAt(s, search[s].at)
  BY ScopesAt
<1>3. PICK hits, left : hits = search[s].hits \cup found /\ left = Rest(s)
  OBVIOUS
<1>4. hits \in SUBSET Points /\ left \in SUBSET Modes
  BY <1>3, LocalState DEF Rest
<1>5. CASE left # {}
  <2> DEFINE x == [y EXCEPT !.left = left, !.tries = 0, !.hits = hits]
  <2>1. /\ Same(x, y) /\ x.at = y.at /\ x.hits = hits /\ x.left = left /\ x \in Search
    BY <1>4, SearchAssumption DEF Search, Same
  <2>2. /\ search' = [search EXCEPT ![s].left = left, ![s].tries = 0, ![s].hits = hits]
        /\ stage' = stage
    BY <1>3, <1>5 DEF Turns, Rest
  <2>3. search' = [search EXCEPT ![s] = x] /\ stage' = [stage EXCEPT ![s] = "asked"]
    BY <1>1, <2>2 DEF SearchTypes
  <2> HIDE DEF x
  <2>4. Moves(s, x, "asked")
    BY <2>3 DEF Moves
  <2>5. InRange(x, "asked")
    BY <1>1, <2>1 DEF InRange, Same
  <2> QED BY <1>1, <1>3, <2>1, <2>4, <2>5
<1>6. CASE left = {} /\ hits = {}
  BY <1>3, <1>6 DEF Turns, Rest
<1>7. CASE left = {} /\ hits # {}
  <2> DEFINE x == [y EXCEPT !.scope = sc, !.hits = hits]
  <2>1. /\ Same(x, y) /\ x.at = y.at /\ x.scope = sc /\ x.hits = hits /\ x \in Search
    BY <1>4 DEF Search, Same
  <2>2. /\ search' = [search EXCEPT ![s].scope = sc, ![s].hits = hits]
        /\ SearchGoes(s, "corpus")
    BY <1>2, <1>3, <1>7 DEF Turns, Rest
  <2>3. search' = [search EXCEPT ![s] = x]
    BY <1>1, <2>2 DEF SearchTypes
  <2> HIDE DEF x
  <2>4. Moves(s, x, "corpus")
    BY <2>2, <2>3 DEF Moves, SearchGoes
  <2>5. InRange(x, "corpus")
    BY <1>1, <2>1 DEF InRange, Same
  <2> QED BY <1>1, <1>2, <1>3, <1>7, <2>1, <2>4, <2>5
<1> QED BY <1>5, <1>6, <1>7

\* A try that is not the last is made again.
LEMMA RetryMoves ==
  ASSUME SearchTypes, NEW s \in Searchers, QdrantFails(s), search[s].tries + 1 < Attempts
  PROVE  \E x \in Search : /\ Moves(s, x, "asked") /\ InRange(x, "asked")
                           /\ Same(x, search[s]) /\ x.hits = search[s].hits
                           /\ x.at = search[s].at /\ x.left = search[s].left
<1>1. PICK y \in Search : y = search[s] /\ InRange(y, stage[s])
  BY LocalState
<1> DEFINE x == [y EXCEPT !.tries = y.tries + 1]
<1>2. y.tries \in Nat
  BY DEF Search
<1>3. /\ Same(x, y) /\ x.hits = y.hits /\ x.at = y.at /\ x.left = y.left
      /\ x \in Search
  BY <1>2 DEF Search, Same
<1>4. search' = [search EXCEPT ![s].tries = @ + 1] /\ stage' = stage /\ stage[s] = "asked"
  BY DEF QdrantFails
<1>5. search' = [search EXCEPT ![s] = x] /\ stage' = [stage EXCEPT ![s] = "asked"]
  BY <1>1, <1>4 DEF SearchTypes
<1> HIDE DEF x
<1>6. Moves(s, x, "asked")
  BY <1>5 DEF Moves
<1>7. InRange(x, "asked")
  BY <1>1, <1>3, <1>4 DEF InRange, Same
<1> QED BY <1>1, <1>3, <1>6, <1>7

\* A change of the weights is noted by every search that is in progress.
LEMMA ConfigureMoves ==
  ASSUME SearchTypes, NEW w \in Weights, Configure(w), NEW t \in Searchers
  PROVE  /\ search'[t] \in Search
         /\ search'[t].req = search[t].req /\ search'[t].begun = search[t].begun
         /\ search'[t].conf = search[t].conf /\ search'[t].at = search[t].at
         /\ search'[t].scope = search[t].scope /\ search'[t].hits = search[t].hits
         /\ search'[t].left = search[t].left
         /\ search'[t].steady => stage[t] = "idle"
<1>1. PICK y \in Search : y = search[t]
  BY LocalState
<1>2. PICK b \in BOOLEAN : b <=> stage[t] = "idle"
  OBVIOUS
<1>3. search'[t] = [search[t] EXCEPT !.steady = (stage[t] = "idle")]
  BY DEF Configure
<1> DEFINE x == [y EXCEPT !.steady = b]
<1>4. (stage[t] = "idle") = b
  BY <1>2
<1>5. search'[t] = x
  BY <1>1, <1>3, <1>4
<1>6. /\ x \in Search /\ x.req = y.req /\ x.begun = y.begun /\ x.conf = y.conf
      /\ x.at = y.at /\ x.scope = y.scope /\ x.hits = y.hits /\ x.left = y.left
      /\ x.steady <=> b
  BY DEF Search
<1> HIDE DEF x
<1> QED BY <1>1, <1>2, <1>5, <1>6

\* What is answered.
LEMMA Answering ==
  ASSUME SearchTypes, NEW s \in Searchers, NEW v \in Value, NEW sc \in Scopes,
         answer' = [answer EXCEPT ![s] = [value |-> v, scope |-> sc, at |-> clock]]
  PROVE  /\ answer' \in [Searchers -> Reply \cup {NoAnswer}]
         /\ answer'[s].value = v /\ answer'[s].scope = sc /\ answer'[s].at = clock
         /\ \A t \in Searchers : t # s => answer'[t] = answer[t]
<1>1. [value |-> v, scope |-> sc, at |-> clock] \in Reply
  BY DEF Reply, SearchTypes
<1>2. answer \in [Searchers -> Reply \cup {NoAnswer}]
  BY DEF SearchTypes
<1> QED BY <1>1, <1>2

LEMMA ResultTypes ==
  ASSUME SearchTypes, NEW s \in Searchers, NEW found \in SUBSET Corpus(s)
  PROVE  /\ Result(s, found) \in Value
         /\ Result(s, found).hits = search[s].hits \cup found
         /\ Result(s, found).ranked = loaded /\ Result(s, found).begun = search[s].begun
         /\ Result(s, found).put = clock
         /\ Result(s, found).steady <=> search[s].steady
<1>1. found \in SUBSET Points
  BY DEF Corpus, SearchTypes
<1>2. search[s].hits \cup found \in SUBSET Points
  BY <1>1, LocalState
<1>3. loaded \in Weights /\ clock \in 0 .. Horizon
  BY DEF SearchTypes
<1>4. search[s].begun \in 0 .. Horizon /\ search[s].steady \in BOOLEAN
  BY LocalState
<1> QED BY <1>2, <1>3, <1>4 DEF Result, Value

-----------------------------------------------------------------------------
(* Types.                                                                  *)

LEMMA TypesStart ==
  ASSUME SearchInit
  PROVE  SearchTypes
<1>1. AnyRequest \in SearchRequests /\ AnyWeights \in Weights
  <2>1. PICK b \in Blends, o \in Boosts : TRUE
    BY SearchAssumption
  <2>2. [blend |-> b, boosts |-> o] \in Weights
    BY DEF Weights
  <2> HIDE DEF Weights
  <2> QED BY <2>2, SearchAssumption DEF AnyRequest, AnyWeights
<1>2. /\ 0 \in Nat /\ 0 \in 0 .. Horizon /\ 0 \in 0 .. MaxFailures
      /\ 0 \in 0 .. Horizon + OpenFor /\ "open" \in Scopes
  BY SearchAssumption DEF Scopes
<1>3. search \in [Searchers -> Search]
  <2> DEFINE x == [req |-> AnyRequest, at |-> 0, tries |-> 0, asked |-> 0, begun |-> 0,
                   conf |-> AnyWeights, scope |-> "open", left |-> {}, hits |-> {},
                   steady |-> TRUE]
  <2>1. x \in Search
    BY <1>1, <1>2 DEF Search
  <2>2. search = [s \in Searchers |-> x]
    BY DEF SearchInit
  <2> HIDE DEF x
  <2> QED BY <2>1, <2>2
<1>4. stage \in [Searchers -> Places] /\ \A s \in Searchers : stage[s] = "idle"
  BY DEF SearchInit, Places
<1>5. ASSUME NEW s \in Searchers
      PROVE  InRange(search[s], stage[s])
  <2>1. search[s].at = 0 /\ search[s].req = AnyRequest
    BY DEF SearchInit
  <2> QED BY <2>1, <1>1, <1>4, AttemptsOf DEF InRange
<1>6. searchCache \in Caches
  BY SearchAssumption DEF SearchInit, Caches, Apart
<1>7. answer \in [Searchers -> Reply \cup {NoAnswer}]
  BY DEF SearchInit
<1>8. since \in [Points -> 0 .. Horizon] /\ lastIn \in [Points -> 0 .. Horizon]
  BY <1>2 DEF SearchInit
<1>9. /\ points \subseteq Points /\ clock \in 0 .. Horizon /\ weights \in Weights
      /\ loaded \in Weights /\ fails \in Nat /\ mishaps \in 0 .. MaxFailures /\ fails <= mishaps
      /\ cbOpenUntil \in 0 .. Horizon + OpenFor /\ lastFail \in 0 .. Horizon
      /\ lastBoosts \in [Boosts -> 0 .. Horizon]
  BY <1>1, <1>2 DEF SearchInit
<1> QED BY <1>3, <1>4, <1>5, <1>6, <1>7, <1>8, <1>9 DEF SearchTypes

LEMMA TypesBegin ==
  ASSUME SearchTypes, NEW s \in Searchers, NEW r \in SearchRequests, BeginSearch(s, r)
  PROVE  SearchTypes'
<1>1. PICK x \in Search : Moves(s, x, "try") /\ InRange(x, "try")
  BY BeginMoves
<1>2. /\ search' \in [Searchers -> Search] /\ stage' \in [Searchers -> Places]
      /\ \A t \in Searchers : InRange(search'[t], stage'[t])
  BY <1>1, Moving DEF Places
<1>3. answer' \in [Searchers -> Reply \cup {NoAnswer}]
  BY DEF SearchTypes, BeginSearch
<1> QED BY <1>2, <1>3 DEF SearchTypes, BeginSearch, entries, backend, ranking

LEMMA TypesHit ==
  ASSUME SearchTypes, NEW s \in Searchers, Hit(s)
  PROVE  SearchTypes'
<1>1. PICK x \in Search : Moves(s, x, "idle") /\ InRange(x, "idle")
  BY ReturnMoves DEF Hit
<1>2. /\ search' \in [Searchers -> Search] /\ stage' \in [Searchers -> Places]
      /\ \A t \in Searchers : InRange(search'[t], stage'[t])
  BY <1>1, Moving DEF Places
<1>3. PICK sc \in Scopes : sc = ScopeAt(s, search[s].at)
  BY ScopesAt DEF Hit
<1>4. PICK p \in DOMAIN searchCache :
        /\ searchCache' = Touched(p)
        /\ answer' = [answer EXCEPT ![s] =
             [value |-> searchCache[p].value, scope |-> sc, at |-> clock]]
  BY <1>3 DEF Hit, At
<1>5. searchCache \in Caches
  BY DEF SearchTypes
<1>6. searchCache' \in Caches /\ searchCache[p] \in Item
  BY <1>4, <1>5, Touching
<1>7. PICK v \in Value : v = searchCache[p].value
  BY <1>6 DEF Item
<1>8. answer' \in [Searchers -> Reply \cup {NoAnswer}]
  BY <1>4, <1>7, Answering
<1> QED BY <1>2, <1>6, <1>8 DEF SearchTypes, Hit, entries, backend, ranking

LEMMA TypesCutShort ==
  ASSUME SearchTypes, NEW s \in Searchers, CutShort(s)
  PROVE  SearchTypes'
<1>1. PICK x \in Search, place \in {"try", "corpus"} :
        Moves(s, x, place) /\ InRange(x, place)
  BY NothingMoves DEF CutShort
<1>2. /\ search' \in [Searchers -> Search] /\ stage' \in [Searchers -> Places]
      /\ \A t \in Searchers : InRange(search'[t], stage'[t])
  BY <1>1, Moving DEF Places
<1>3. searchCache' \in Caches
  BY Dropping DEF CutShort, SearchTypes
<1> QED BY <1>2, <1>3 DEF SearchTypes, CutShort, entries, ranking

LEMMA TypesAsk ==
  ASSUME SearchTypes, NEW s \in Searchers, AskQdrant(s)
  PROVE  SearchTypes'
<1>1. PICK x \in Search : Moves(s, x, "asked") /\ InRange(x, "asked")
  BY AskMoves
<1>2. /\ search' \in [Searchers -> Search] /\ stage' \in [Searchers -> Places]
      /\ \A t \in Searchers : InRange(search'[t], stage'[t])
  BY <1>1, Moving DEF Places
<1>3. searchCache' \in Caches
  BY Dropping DEF AskQdrant, SearchTypes
<1> QED BY <1>2, <1>3 DEF SearchTypes, AskQdrant, entries, backend, ranking

LEMMA TypesTurns ==
  ASSUME SearchTypes, NEW s \in Searchers, stage[s] = "asked",
         NEW found \in SUBSET Points, Turns(s, found)
  PROVE  /\ search' \in [Searchers -> Search] /\ stage' \in [Searchers -> Places]
         /\ \A t \in Searchers : InRange(search'[t], stage'[t])
<1>1. \E x \in Search : \E place \in Places : Moves(s, x, place) /\ InRange(x, place)
  <2>1. CASE FoundNone(s)
    BY <2>1, NothingMoves DEF Places
  <2>2. CASE ~FoundNone(s)
    BY <2>2, TurnsMoves DEF Places
  <2> QED BY <2>1, <2>2
<1> QED BY <1>1, Moving

LEMMA TypesAnswered ==
  ASSUME SearchTypes, NEW s \in Searchers, QdrantAnswers(s)
  PROVE  SearchTypes'
<1>1. Offers(s, Asked(s)) \in SUBSET Points
  BY DEF Offers, SearchTypes
<1>2. /\ search' \in [Searchers -> Search] /\ stage' \in [Searchers -> Places]
      /\ \A t \in Searchers : InRange(search'[t], stage'[t])
  BY <1>1, TypesTurns DEF QdrantAnswers
<1>3. fails' = 0 /\ 0 \in Nat /\ \A n \in 0 .. MaxFailures : 0 <= n
  BY SearchAssumption DEF QdrantAnswers
<1> QED BY <1>2, <1>3 DEF SearchTypes, QdrantAnswers, entries, ranking

LEMMA TypesRejects ==
  ASSUME SearchTypes, NEW s \in Searchers, QdrantRejects(s)
  PROVE  SearchTypes'
<1>1. /\ search' \in [Searchers -> Search] /\ stage' \in [Searchers -> Places]
      /\ \A t \in Searchers : InRange(search'[t], stage'[t])
  BY TypesTurns DEF QdrantRejects
<1>2. fails' \in Nat /\ mishaps' \in 0 .. MaxFailures /\ fails' <= mishaps'
  <2>1. /\ mishaps \in 0 .. MaxFailures /\ mishaps < MaxFailures
        /\ fails' = 0 /\ mishaps' = mishaps + 1
    BY DEF SearchTypes, QdrantRejects
  <2> QED BY <2>1, SearchAssumption
<1> QED BY <1>1, <1>2 DEF SearchTypes, QdrantRejects, entries, ranking

LEMMA TypesFails ==
  ASSUME SearchTypes, NEW s \in Searchers, QdrantFails(s)
  PROVE  SearchTypes'
<1>1. /\ search' \in [Searchers -> Search] /\ stage' \in [Searchers -> Places]
      /\ \A t \in Searchers : InRange(search'[t], stage'[t])
  <2>1. CASE search[s].tries + 1 < Attempts
    <3>1. PICK x \in Search : Moves(s, x, "asked") /\ InRange(x, "asked")
      BY <2>1, RetryMoves
    <3> QED BY <3>1, Moving DEF Places
  <2>2. CASE ~(search[s].tries + 1 < Attempts)
    BY <2>2, TypesTurns DEF QdrantFails
  <2> QED BY <2>1, <2>2
<1>2. cbOpenUntil' \in 0 .. Horizon + OpenFor
  <2>1. cbOpenUntil \in 0 .. Horizon + OpenFor /\ search[s].asked \in 0 .. Horizon
    BY LocalState DEF SearchTypes
  <2>2. cbOpenUntil' = cbOpenUntil \/ cbOpenUntil' = search[s].asked + OpenFor
    BY DEF QdrantFails
  <2> QED BY <2>1, <2>2, SearchAssumption
<1>3. fails' \in Nat /\ mishaps' \in 0 .. MaxFailures /\ fails' <= mishaps'
  <2>1. /\ fails \in Nat /\ mishaps \in 0 .. MaxFailures /\ fails <= mishaps
        /\ mishaps < MaxFailures /\ fails' = fails + 1 /\ mishaps' = mishaps + 1
    BY DEF SearchTypes, QdrantFails
  <2>2. MaxFailures \in Nat
    BY SearchAssumption
  <2> QED BY <2>1, <2>2
<1> QED BY <1>1, <1>2, <1>3 DEF SearchTypes, QdrantFails, entries, ranking

LEMMA TypesFinish ==
  ASSUME SearchTypes, NEW s \in Searchers, Finish(s)
  PROVE  SearchTypes'
<1>1. PICK x \in Search : Moves(s, x, "idle") /\ InRange(x, "idle")
  BY ReturnMoves DEF Finish
<1>2. /\ search' \in [Searchers -> Search] /\ stage' \in [Searchers -> Places]
      /\ \A t \in Searchers : InRange(search'[t], stage'[t])
  BY <1>1, Moving DEF Places
<1>3. PICK found \in SUBSET Corpus(s) :
        /\ CachePut(KeyOf(s, search[s].scope), Result(s, found))
        /\ answer' = [answer EXCEPT ![s] =
             [value |-> Result(s, found), scope |-> search[s].scope, at |-> clock]]
  BY DEF Finish
<1>4. PICK v \in Value : v = Result(s, found)
  BY ResultTypes
<1>5. PICK sc \in Scopes : sc = search[s].scope
  BY LocalState
<1>6. PICK key \in Keys : key = KeyOf(s, search[s].scope)
  <2>1. Key(search[s].req, sc, search[s].conf) \in Keys
    BY LocalState, KeysOf
  <2> QED BY <1>5, <2>1 DEF KeyOf
<1>7. searchCache' \in Caches
  BY <1>3, <1>4, <1>6, Putting DEF SearchTypes
<1>8. answer' \in [Searchers -> Reply \cup {NoAnswer}]
  BY <1>3, <1>4, <1>5, Answering
<1> QED BY <1>2, <1>7, <1>8 DEF SearchTypes, Finish, entries, backend, ranking

LEMMA TypesConfigure ==
  ASSUME SearchTypes, NEW w \in Weights, Configure(w)
  PROVE  SearchTypes'
<1>1. search' \in [Searchers -> Search]
  <2>1. \A t \in Searchers : search'[t] \in Search
    BY ConfigureMoves
  <2>2. search' = [t \in Searchers |-> search'[t]]
    BY DEF Configure
  <2> QED BY <2>1, <2>2
<1>2. ASSUME NEW t \in Searchers
      PROVE  InRange(search'[t], stage'[t])
  <2>1. InRange(search[t], stage[t]) /\ stage' = stage
    BY DEF SearchTypes, Configure
  <2>2. search'[t].at = search[t].at /\ search'[t].req = search[t].req
    BY ConfigureMoves
  <2> QED BY <2>1, <2>2 DEF InRange
<1>3. lastBoosts' \in [Boosts -> 0 .. Horizon]
  BY DEF SearchTypes, Configure
<1> QED BY <1>1, <1>2, <1>3 DEF SearchTypes, Configure, backend

LEMMA TypesAround ==
  ASSUME SearchTypes, ClockTick \/ \E e \in Points : AddPoint(e) \/ DropPoint(e)
  PROVE  SearchTypes'
<1>1. CASE ClockTick
  BY <1>1, SearchAssumption DEF SearchTypes, ClockTick, entries, backend, ranking
<1>2. ASSUME NEW e \in Points, AddPoint(e)
      PROVE  SearchTypes'
  BY <1>2 DEF SearchTypes, AddPoint, backend, ranking
<1>3. ASSUME NEW e \in Points, DropPoint(e)
      PROVE  SearchTypes'
  BY <1>3 DEF SearchTypes, DropPoint, backend, ranking
<1> QED BY <1>1, <1>2, <1>3

LEMMA TypesStep ==
  ASSUME SearchTypes, [SearchNext]_searchVars
  PROVE  SearchTypes'
<1>1. CASE UNCHANGED searchVars
  BY <1>1 DEF searchVars, entries, backend, ranking, SearchTypes
<1>2. CASE SearchNext
  BY <1>2, TypesBegin, TypesHit, TypesCutShort, TypesAsk, TypesAnswered, TypesRejects,
     TypesFails, TypesFinish, TypesConfigure, TypesAround DEF SearchNext
<1> QED BY <1>1, <1>2

\* Every variable keeps its type: the cache is never over its size and no key is in it
\* twice, whatever is put, found, dropped and evicted, by searches in any order; no
\* search makes more attempts than there are.
THEOREM SearchKeepsTypes == SearchSpec => []SearchTypeOK
<1>1. SearchTypes => SearchTypeOK
  <2> SUFFICES ASSUME SearchTypes PROVE SearchTypeOK
    OBVIOUS
  <2>1. /\ Len(searchCache) <= CacheMax
        /\ \A p \in DOMAIN searchCache : searchCache[p].value \in Value
    BY Cached DEF SearchTypes, Caches, Item
  <2>2. \A p, q \in DOMAIN searchCache : searchCache[p].key = searchCache[q].key => p = q
    BY DEF SearchTypes, Caches, Apart
  <2>3. \A s \in Searchers : /\ search[s].req \in SearchRequests
                             /\ search[s].at \in 0 .. Len(Tries(search[s].req)) + 1
    BY LocalState, AttemptsOf DEF InRange
  <2>4. fails \in 0 .. MaxFailures
    BY SearchAssumption DEF SearchTypes
  <2> QED BY <2>1, <2>2, <2>3, <2>4 DEF SearchTypes, SearchTypeOK, Places
<1> QED BY <1>1, TypesStart, TypesStep, PTL DEF SearchSpec

-----------------------------------------------------------------------------
(* What is known of a result, and stays true.                              *)

\* What it shows was there when its search began, or later.
ThereSince(hits, t) == \A e \in hits : e \in points \/ lastIn[e] >= t

\* A failure explains what an attempt did not find in the collections cs, or in all.
QuietIn(f, cs, t) ==
  \A e \in points : since[e] < t /\ Wants(e, f) /\ Place[e].vectors \cap cs # {}
                     => lastFail >= t
Quiet(f, t) == QuietIn(f, Collections(f), t)
Searched(r, m, t) ==
  \A n \in 1 .. Len(Tries(r)) : n <= m => Quiet(Filter(r, Tries(r)[n]), t)

\* The boosts a result was ranked with are in force, or were after it was put away.
Boosted(v) ==
  v.ranked.boosts = weights.boosts \/ v.put <= lastBoosts[v.ranked.boosts]

Vouched(v, f, sc, b) ==
  /\ \A e \in v.hits : Passes(e, f)
  /\ v.steady => v.ranked.blend = b /\ Boosted(v)
  /\ v.begun <= v.put /\ v.put <= clock
  /\ ThereSince(v.hits, v.begun)
  /\ v.hits = {} => \E q \in SearchRequests : /\ f = Widest(q) /\ sc = LastScope(q)
                                              /\ Searched(q, Len(Tries(q)), v.begun)

\* The scope of an attempt; and what a search has gathered in the collections that
\* are done with.
Attempt(r, n) == IF n <= Len(Tries(r)) THEN Tries(r)[n] ELSE "domain"
Gathered(x) ==
  /\ \A e \in x.hits : Passes(e, Filter(x.req, Attempt(x.req, x.at)))
  /\ ThereSince(x.hits, x.begun)
  /\ x.hits = {} => QuietIn(Filter(x.req, Attempt(x.req, x.at)),
                           Collections(x.req) \ x.left, x.begun)

ItemOK(i) == /\ Vouched(i.value, i.key.filter, i.key.scope, i.key.sig)
             /\ i.until = i.value.put + TTL
ReplyOK(a, r, b) ==
  /\ Vouched(a.value, Filter(r, a.scope), a.scope, b)
  /\ a.at <= a.value.put + TTL
  /\ a.value.hits = {} => \E n \in 1 .. Len(Tries(r)) : Tries(r)[n] = a.scope
SearchOK(x, place) ==
  /\ x.begun <= clock
  /\ place \in {"try", "asked"} => Searched(x.req, x.at - 1, x.begun)
  /\ place = "try" => x.hits = {}
  /\ place = "asked" => Gathered(x)
  /\ place = "corpus" =>
       /\ \A e \in x.hits : Passes(e, Filter(x.req, x.scope))
       /\ ThereSince(x.hits, x.begun)
       /\ x.hits = {} => /\ x.scope = LastScope(x.req)
                         /\ Searched(x.req, Len(Tries(x.req)), x.begun)

ItemsOK == \A i \in Items(searchCache) : ItemOK(i)
RepliesOK == \A s \in Searchers :
  answer[s] # NoAnswer => ReplyOK(answer[s], search[s].req, search[s].conf.blend)
SearchesOK == \A s \in Searchers : SearchOK(search[s], stage[s])

\* The weights of a search are those of the service, or it has been told.
SteadyOK == \A s \in Searchers :
  stage[s] # "idle" /\ search[s].steady => loaded = weights /\ search[s].conf = weights

SearchInv == SearchTypes /\ ItemsOK /\ RepliesOK /\ SearchesOK /\ SteadyOK

\* What a step adds to the history.
LEMMA HistoryStep ==
  ASSUME SearchTypes, [SearchNext]_searchVars
  PROVE  \/ UNCHANGED <<points, since, lastIn, lastFail>> /\ clock <= clock'
         \/ UNCHANGED <<points, since, lastIn, clock>> /\ lastFail' = clock
         \/ /\ UNCHANGED <<lastIn, lastFail, clock>>
            /\ \E e \in Points : points' = points \cup {e} /\ since' = [since EXCEPT ![e] = clock]
         \/ /\ UNCHANGED <<since, lastFail, clock>>
            /\ \E e \in Points : points' = points \ {e} /\ lastIn' = [lastIn EXCEPT ![e] = clock]
<1>1. clock \in 0 .. Horizon /\ Horizon \in Nat /\ clock <= clock
  BY SearchAssumption DEF SearchTypes
<1>2. CASE UNCHANGED searchVars
  BY <1>1, <1>2 DEF searchVars, entries, backend
<1>3. CASE \E s \in Searchers, r \in SearchRequests : BeginSearch(s, r)
  BY <1>1, <1>3 DEF BeginSearch, entries, backend
<1>4. CASE \E s \in Searchers : Hit(s)
  BY <1>1, <1>4 DEF Hit, entries, backend
<1>5. CASE \E s \in Searchers : CutShort(s)
  BY <1>1, <1>5 DEF CutShort, entries
<1>6. CASE \E s \in Searchers : AskQdrant(s)
  BY <1>1, <1>6 DEF AskQdrant, entries, backend
<1>7. CASE \E s \in Searchers : QdrantAnswers(s)
  BY <1>1, <1>7 DEF QdrantAnswers, entries
<1>8. CASE \E s \in Searchers : QdrantFails(s) \/ QdrantRejects(s)
  BY <1>1, <1>8 DEF QdrantFails, QdrantRejects, entries
<1>9. CASE \E s \in Searchers : Finish(s)
  BY <1>1, <1>9 DEF Finish, entries, backend
<1>10. CASE \E d \in Points : AddPoint(d)
  BY <1>10 DEF AddPoint, backend
<1>11. CASE \E d \in Points : DropPoint(d)
  BY <1>11 DEF DropPoint, backend
<1>12. CASE \E w \in Weights : Configure(w)
  BY <1>1, <1>12 DEF Configure, backend
<1>13. CASE ClockTick
  BY <1>1, <1>13 DEF ClockTick, entries, backend
<1> QED BY <1>2, <1>3, <1>4, <1>5, <1>6, <1>7, <1>8, <1>9, <1>10, <1>11, <1>12, <1>13
    DEF SearchNext

\* A change of the configuration is noted of the boosts that were in force.
LEMMA BoostsStep ==
  ASSUME SearchTypes, [SearchNext]_searchVars
  PROVE  /\ weights.boosts \in Boosts
         /\ \A b \in Boosts : lastBoosts'[b] = lastBoosts[b] \/ lastBoosts'[b] = clock
         /\ \/ UNCHANGED ranking
            \/ lastBoosts'[weights.boosts] = clock
<1>1. weights.boosts \in Boosts /\ lastBoosts \in [Boosts -> 0 .. Horizon]
  BY DEF SearchTypes, Weights
<1>2. UNCHANGED ranking \/ \E w \in Weights : Configure(w)
  <2>1. CASE UNCHANGED searchVars
    BY <2>1 DEF searchVars
  <2>2. CASE \E s \in Searchers, r \in SearchRequests : BeginSearch(s, r)
    BY <2>2 DEF BeginSearch
  <2>3. CASE \E s \in Searchers : Hit(s) \/ CutShort(s) \/ AskQdrant(s) \/ Finish(s)
    BY <2>3 DEF Hit, CutShort, AskQdrant, Finish
  <2>4. CASE \E s \in Searchers : QdrantAnswers(s) \/ QdrantRejects(s) \/ QdrantFails(s)
    BY <2>4 DEF QdrantAnswers, QdrantRejects, QdrantFails
  <2>5. CASE ClockTick \/ \E e \in Points : AddPoint(e) \/ DropPoint(e)
    BY <2>5 DEF ClockTick, AddPoint, DropPoint
  <2>6. CASE \E w \in Weights : Configure(w)
    BY <2>6
  <2> QED BY <2>1, <2>2, <2>3, <2>4, <2>5, <2>6 DEF SearchNext
<1>3. CASE UNCHANGED ranking
  BY <1>1, <1>3 DEF ranking
<1>4. CASE \E w \in Weights : Configure(w)
  BY <1>1, <1>4 DEF Configure
<1> QED BY <1>1, <1>2, <1>3, <1>4

LEMMA TimeOf ==
  ASSUME SearchTypes, [SearchNext]_searchVars
  PROVE  clock <= clock' /\ (lastFail' = lastFail \/ lastFail' = clock)
<1>1. clock \in 0 .. Horizon /\ Horizon \in Nat
  BY SearchAssumption DEF SearchTypes
<1> QED BY <1>1, HistoryStep

LEMMA HistoryOf ==
  ASSUME SearchTypes, [SearchNext]_searchVars, NEW e \in Points
  PROVE  /\ lastIn'[e] = lastIn[e] \/ lastIn'[e] = clock
         /\ e \in points => e \in points' \/ lastIn'[e] = clock
         /\ e \in points' => (e \in points /\ since'[e] = since[e]) \/ since'[e] = clock
<1>1. since \in [Points -> 0 .. Horizon] /\ lastIn \in [Points -> 0 .. Horizon]
  BY DEF SearchTypes
<1> QED BY <1>1, HistoryStep

LEMMA ThereAges ==
  ASSUME SearchTypes, [SearchNext]_searchVars, NEW hits \in SUBSET Points,
         NEW t \in 0 .. Horizon, t <= clock, ThereSince(hits, t)
  PROVE  ThereSince(hits, t)'
<1> SUFFICES ASSUME NEW e \in hits
             PROVE  e \in points' \/ lastIn'[e] >= t
  BY DEF ThereSince
<1>1. e \in Points /\ (e \in points \/ lastIn[e] >= t)
  BY DEF ThereSince
<1>2. clock \in 0 .. Horizon /\ Horizon \in Nat
  BY SearchAssumption DEF SearchTypes
<1> QED BY <1>1, <1>2, HistoryOf

LEMMA QuietAges ==
  ASSUME SearchTypes, [SearchNext]_searchVars, NEW f, NEW cs,
         NEW t \in 0 .. Horizon, t <= clock, QuietIn(f, cs, t)
  PROVE  QuietIn(f, cs, t)'
<1> SUFFICES ASSUME NEW e \in points', since'[e] < t, Wants(e, f),
                    Place[e].vectors \cap cs # {}
             PROVE  lastFail' >= t
  BY DEF QuietIn
<1>1. e \in Points
  BY TypesStep DEF SearchTypes
<1>2. /\ clock \in 0 .. Horizon /\ Horizon \in Nat /\ lastFail \in 0 .. Horizon
      /\ (lastFail' = lastFail \/ lastFail' = clock)
  BY SearchAssumption, TimeOf DEF SearchTypes
<1>3. e \in points /\ since'[e] = since[e]
  BY <1>1, <1>2, HistoryOf
<1>4. lastFail >= t
  BY <1>3 DEF QuietIn
<1> QED BY <1>2, <1>4

LEMMA SearchedAges ==
  ASSUME SearchTypes, [SearchNext]_searchVars, NEW r, NEW m,
         NEW t \in 0 .. Horizon, t <= clock, Searched(r, m, t)
  PROVE  Searched(r, m, t)'
<1> SUFFICES ASSUME NEW n \in 1 .. Len(Tries(r)), n <= m
             PROVE  Quiet(Filter(r, Tries(r)[n]), t)'
  BY DEF Searched
<1>1. Quiet(Filter(r, Tries(r)[n]), t)
  BY DEF Searched
<1>2. PICK f, cs : f = Filter(r, Tries(r)[n]) /\ cs = Collections(f)
  OBVIOUS
<1>3. QuietIn(f, cs, t)
  BY <1>1, <1>2 DEF Quiet
<1>4. QuietIn(f, cs, t)'
  BY <1>3, QuietAges
<1> QED BY <1>2, <1>4 DEF Quiet

LEMMA BoostsAge ==
  ASSUME SearchTypes, [SearchNext]_searchVars, NEW v \in Value, v.put <= clock, Boosted(v)
  PROVE  Boosted(v)'
<1>1. PICK b, t : b = v.ranked.boosts /\ t = v.put
  OBVIOUS
<1>2. b \in Boosts /\ t \in 0 .. Horizon
  BY <1>1 DEF Value, Weights
<1>3. (b = weights.boosts \/ t <= lastBoosts[b]) /\ t <= clock
  BY <1>1 DEF Boosted
<1>4. b = weights'.boosts \/ t <= lastBoosts'[b]
  BY <1>2, <1>3, BoostsStep DEF ranking
<1> QED BY <1>1, <1>4 DEF Boosted

LEMMA GatheredAges ==
  ASSUME SearchTypes, [SearchNext]_searchVars, NEW x \in Search, x.begun <= clock,
         Gathered(x)
  PROVE  Gathered(x)'
<1>1. x.begun \in 0 .. Horizon /\ x.hits \in SUBSET Points
  BY DEF Search
<1>2. ThereSince(x.hits, x.begun)'
  BY <1>1, ThereAges DEF Gathered
<1>3. PICK f, cs : f = Filter(x.req, Attempt(x.req, x.at)) /\ cs = Collections(x.req) \ x.left
  OBVIOUS
<1>4. ASSUME x.hits = {}
      PROVE  QuietIn(f, cs, x.begun)'
  BY <1>1, <1>3, <1>4, QuietAges DEF Gathered
<1> QED BY <1>2, <1>3, <1>4 DEF Gathered

LEMMA VouchedAges ==
  ASSUME SearchTypes, [SearchNext]_searchVars, NEW v \in Value, NEW f, NEW sc, NEW b,
         Vouched(v, f, sc, b)
  PROVE  Vouched(v, f, sc, b)'
<1>1. /\ v.hits \in SUBSET Points /\ v.begun \in 0 .. Horizon /\ v.put \in 0 .. Horizon
  BY DEF Value
<1>2. /\ clock \in 0 .. Horizon /\ Horizon \in Nat /\ clock <= clock' /\ clock' \in 0 .. Horizon
  BY SearchAssumption, TimeOf, TypesStep DEF SearchTypes
<1>3. /\ \A e \in v.hits : Passes(e, f)
      /\ v.steady => v.ranked.blend = b /\ Boosted(v)
      /\ v.begun <= v.put /\ v.put <= clock
      /\ ThereSince(v.hits, v.begun)
      /\ v.hits = {} => \E q \in SearchRequests : /\ f = Widest(q) /\ sc = LastScope(q)
                                            /\ Searched(q, Len(Tries(q)), v.begun)
  BY DEF Vouched
<1>4. v.begun <= clock /\ v.put <= clock'
  BY <1>1, <1>2, <1>3
<1>5. ThereSince(v.hits, v.begun)' /\ (Boosted(v) => Boosted(v)')
  BY <1>1, <1>3, <1>4, ThereAges, BoostsAge
<1>6. ASSUME v.hits = {}
      PROVE  \E q \in SearchRequests : /\ f = Widest(q) /\ sc = LastScope(q)
                                 /\ Searched(q, Len(Tries(q)), v.begun)'
  <2>1. PICK q \in SearchRequests : /\ f = Widest(q) /\ sc = LastScope(q)
                              /\ Searched(q, Len(Tries(q)), v.begun)
    BY <1>3, <1>6
  <2>2. Searched(q, Len(Tries(q)), v.begun)'
    BY <1>1, <1>4, <2>1, SearchedAges
  <2> QED BY <2>1, <2>2
<1> QED BY <1>3, <1>4, <1>5, <1>6 DEF Vouched

LEMMA ItemAges ==
  ASSUME SearchTypes, [SearchNext]_searchVars, NEW i \in Item, ItemOK(i)
  PROVE  ItemOK(i)'
<1>1. PICK v, f, sc, w :
        v \in Value /\ v = i.value /\ f = i.key.filter /\ sc = i.key.scope /\ w = i.key.sig
  BY DEF Item
<1>2. Vouched(v, f, sc, w)
  BY <1>1 DEF ItemOK
<1>3. Vouched(v, f, sc, w)'
  BY <1>1, <1>2, VouchedAges
<1> QED BY <1>1, <1>3 DEF ItemOK

LEMMA ReplyAges ==
  ASSUME SearchTypes, [SearchNext]_searchVars, NEW a \in Reply, NEW r, NEW w, ReplyOK(a, r, w)
  PROVE  ReplyOK(a, r, w)'
<1>1. PICK v, f, sc : v \in Value /\ v = a.value /\ f = Filter(r, a.scope) /\ sc = a.scope
  BY DEF Reply
<1>2. Vouched(v, f, sc, w)
  BY <1>1 DEF ReplyOK
<1>3. Vouched(v, f, sc, w)'
  BY <1>1, <1>2, VouchedAges
<1> QED BY <1>1, <1>3 DEF ReplyOK

LEMMA SearchAges ==
  ASSUME SearchTypes, [SearchNext]_searchVars, NEW x \in Search, NEW y \in Search,
         NEW place \in Places, SearchOK(x, place),
         y.req = x.req, y.begun = x.begun, y.at = x.at, y.scope = x.scope, y.hits = x.hits,
         y.left = x.left
  PROVE  SearchOK(y, place)'
<1>1. x.begun \in 0 .. Horizon /\ x.hits \in SUBSET Points /\ x.req \in SearchRequests
      /\ x.at \in Nat
  BY DEF Search
<1>2. /\ clock \in 0 .. Horizon /\ Horizon \in Nat /\ clock <= clock' /\ clock' \in 0 .. Horizon
  BY SearchAssumption, TimeOf, TypesStep DEF SearchTypes
<1>3. x.begun <= clock /\ x.begun <= clock'
  BY <1>1, <1>2 DEF SearchOK
<1>4. ASSUME place \in {"try", "asked"}
      PROVE  Searched(x.req, x.at - 1, x.begun)'
  <2>1. Searched(x.req, x.at - 1, x.begun)
    BY <1>4 DEF SearchOK
  <2> QED BY <1>1, <1>3, <2>1, SearchedAges
<1>6. ASSUME place = "asked"
      PROVE  Gathered(y)'
  <2>1. Gathered(x)
    BY <1>6 DEF SearchOK
  <2>2. Gathered(x)'
    BY <1>3, <2>1, GatheredAges
  <2> QED BY <2>2 DEF Gathered
<1>7. place = "try" => y.hits = {}
  BY DEF SearchOK
<1>5. ASSUME place = "corpus"
      PROVE  /\ \A e \in x.hits : Passes(e, Filter(x.req, x.scope))
             /\ ThereSince(x.hits, x.begun)'
             /\ x.hits = {} => /\ x.scope = LastScope(x.req)
                               /\ Searched(x.req, Len(Tries(x.req)), x.begun)'
  <2>1. /\ \A e \in x.hits : Passes(e, Filter(x.req, x.scope))
        /\ ThereSince(x.hits, x.begun)
        /\ x.hits = {} => /\ x.scope = LastScope(x.req)
                          /\ Searched(x.req, Len(Tries(x.req)), x.begun)
    BY <1>5 DEF SearchOK
  <2>2. ThereSince(x.hits, x.begun)'
    BY <1>1, <1>3, <2>1, ThereAges
  <2>3. ASSUME x.hits = {}
        PROVE  Searched(x.req, Len(Tries(x.req)), x.begun)'
    BY <1>1, <1>3, <2>1, <2>3, SearchedAges
  <2> QED BY <2>1, <2>2, <2>3
<1> QED BY <1>3, <1>4, <1>5, <1>6, <1>7 DEF SearchOK

\* What is left in the cache, and what others were told and do.
LEMMA ItemsStay ==
  ASSUME SearchTypes, ItemsOK, [SearchNext]_searchVars,
         Items(searchCache') \subseteq Items(searchCache)
  PROVE  ItemsOK'
<1> SUFFICES ASSUME NEW i \in Items(searchCache')
             PROVE  ItemOK(i)'
  BY DEF ItemsOK
<1>1. i \in Items(searchCache) /\ ItemOK(i)
  BY DEF ItemsOK
<1>2. i \in Item
  BY <1>1, Cached DEF SearchTypes, Items
<1> QED BY <1>1, <1>2, ItemAges

LEMMA ReplyStays ==
  ASSUME SearchTypes, RepliesOK, [SearchNext]_searchVars, NEW t \in Searchers,
         answer'[t] = answer[t], answer[t] # NoAnswer,
         search'[t].req = search[t].req, search'[t].conf = search[t].conf
  PROVE  ReplyOK(answer[t], search[t].req, search[t].conf.blend)'
<1>1. PICK a, r, w : a \in Reply /\ a = answer[t] /\ r = search[t].req /\ w = search[t].conf.blend
  BY DEF SearchTypes
<1>2. ReplyOK(a, r, w)
  BY <1>1 DEF RepliesOK
<1>3. ReplyOK(a, r, w)'
  BY <1>1, <1>2, ReplyAges
<1> QED BY <1>1, <1>3

LEMMA SearchesStep ==
  ASSUME SearchTypes, SearchesOK, [SearchNext]_searchVars, NEW s \in Searchers,
         NEW x \in Search, NEW place \in Places, InRange(x, place), Moves(s, x, place),
         SearchOK(x, place)'
  PROVE  SearchesOK'
<1> SUFFICES ASSUME NEW t \in Searchers
             PROVE  SearchOK(search[t], stage[t])'
  BY DEF SearchesOK
<1>1. /\ search'[s] = x /\ stage'[s] = place
      /\ t # s => search'[t] = search[t] /\ stage'[t] = stage[t]
  BY Moving
<1>2. CASE t = s
  BY <1>1, <1>2
<1>3. CASE t # s
  <2>1. PICK y, p : y \in Search /\ p \in Places /\ y = search[t] /\ p = stage[t]
    BY LocalState
  <2>2. SearchOK(y, p)
    BY <2>1 DEF SearchesOK
  <2>3. SearchOK(y, p)'
    BY <2>1, <2>2, SearchAges
  <2> QED BY <1>1, <1>3, <2>1, <2>3
<1> QED BY <1>2, <1>3

LEMMA RepliesStep ==
  ASSUME SearchTypes, RepliesOK, [SearchNext]_searchVars, NEW s \in Searchers,
         NEW x \in Search, NEW place \in Places, InRange(x, place), Moves(s, x, place),
         \A t \in Searchers : t # s => answer'[t] = answer[t],
         answer'[s] # NoAnswer => ReplyOK(answer[s], search[s].req, search[s].conf.blend)'
  PROVE  RepliesOK'
<1> SUFFICES ASSUME NEW t \in Searchers, answer'[t] # NoAnswer
             PROVE  ReplyOK(answer[t], search[t].req, search[t].conf.blend)'
  BY DEF RepliesOK, NoAnswer
<1>1. CASE t = s
  BY <1>1
<1>2. CASE t # s
  <2>1. answer'[t] = answer[t] /\ search'[t] = search[t]
    BY <1>2, Moving
  <2> QED BY <2>1, ReplyStays
<1> QED BY <1>1, <1>2

LEMMA RepliesKept ==
  ASSUME SearchTypes, RepliesOK, [SearchNext]_searchVars, NEW s \in Searchers,
         NEW x \in Search, NEW place \in Places, InRange(x, place), Moves(s, x, place),
         Same(x, search[s]), answer' = answer
  PROVE  RepliesOK'
<1>1. search'[s].req = search[s].req /\ search'[s].conf = search[s].conf
  BY Moving DEF Same
<1>2. answer'[s] # NoAnswer => ReplyOK(answer[s], search[s].req, search[s].conf.blend)'
  BY <1>1, ReplyStays
<1> QED BY <1>2, RepliesStep

LEMMA SteadyStep ==
  ASSUME SearchTypes, SteadyOK, NEW s \in Searchers,
         NEW x \in Search, NEW place \in Places, InRange(x, place), Moves(s, x, place),
         loaded' = loaded, weights' = weights,
         place # "idle" => Same(x, search[s]) /\ stage[s] # "idle"
  PROVE  SteadyOK'
<1> SUFFICES ASSUME NEW t \in Searchers, stage'[t] # "idle", search'[t].steady
             PROVE  loaded = weights /\ search'[t].conf = weights
  BY DEF SteadyOK
<1>1. /\ search'[s] = x /\ stage'[s] = place
      /\ t # s => search'[t] = search[t] /\ stage'[t] = stage[t]
  BY Moving
<1>2. CASE t = s
  BY <1>1, <1>2 DEF SteadyOK, Same
<1>3. CASE t # s
  BY <1>1, <1>3 DEF SteadyOK
<1> QED BY <1>2, <1>3

\* When nothing is found, there is a reason, and the search has made this attempt.
LEMMA NothingFound ==
  ASSUME SearchTypes, SearchesOK, [SearchNext]_searchVars, NEW s \in Searchers,
         stage[s] \in {"try", "asked"}, NEW x \in Search, NEW place \in {"try", "corpus"},
         Same(x, search[s]), search[s].hits = {}, x.hits = {},
         NEW r, NEW n, NEW t,
         r = search[s].req, n = search[s].at, t = search[s].begun,
         place = "try" => x.at = n + 1,
         place = "corpus" => n >= Len(Tries(r)) /\ x.scope = LastScope(r),
         n <= Len(Tries(r)) => Quiet(Filter(r, Tries(r)[n]), t)'
  PROVE  SearchOK(x, place)'
<1>1. r \in SearchRequests /\ n \in Nat /\ t \in 0 .. Horizon
  BY LocalState
<1>2. /\ Searched(r, n - 1, t) /\ t <= clock
  BY <1>1 DEF SearchesOK, SearchOK
<1>3. Searched(r, n - 1, t)'
  BY <1>1, <1>2, SearchedAges
<1>4. /\ clock \in 0 .. Horizon /\ Horizon \in Nat /\ clock <= clock' /\ clock' \in 0 .. Horizon
  BY SearchAssumption, TimeOf, TypesStep DEF SearchTypes
<1>5. t <= clock'
  BY <1>1, <1>2, <1>4
<1>6. Len(Tries(r)) \in Nat
  BY <1>1, AttemptsOf
<1>7. ASSUME NEW k \in 1 .. Len(Tries(r)), k <= n
      PROVE  Quiet(Filter(r, Tries(r)[k]), t)'
  <2>1. CASE k = n
    <3>1. n <= Len(Tries(r))
      BY <2>1, <1>6
    <3> QED BY <2>1, <3>1
  <2>2. CASE k # n
    <3>1. k <= n - 1
      BY <1>1, <1>6, <1>7, <2>2
    <3> QED BY <1>3, <3>1 DEF Searched
  <2> QED BY <2>1, <2>2
<1>8. Searched(r, n, t)'
  BY <1>7 DEF Searched
<1>9. x.req = r /\ x.begun = t /\ x.hits = {}
  BY <1>1, <1>2 DEF Same
<1>10. CASE place = "try"
  <2>1. x.at - 1 = n
    BY <1>1, <1>10
  <2> QED BY <1>5, <1>8, <1>9, <1>10, <2>1 DEF SearchOK
<1>11. CASE place = "corpus"
  <2>1. Searched(r, Len(Tries(r)), t)'
    <3>1. \A k \in 1 .. Len(Tries(r)) : k <= n
      BY <1>1, <1>6, <1>11
    <3> QED BY <3>1, <1>7 DEF Searched
  <2>2. x.scope = LastScope(r)
    BY <1>11
  <2>3. ThereSince({}, t)'
    BY DEF ThereSince
  <2> QED BY <1>5, <1>9, <1>11, <2>1, <2>2, <2>3 DEF SearchOK
<1> QED BY <1>10, <1>11

-----------------------------------------------------------------------------
(* The steps.                                                              *)

LEMMA FoundNothing ==
  ASSUME SearchInv, [SearchNext]_searchVars, NEW s \in Searchers,
         stage[s] \in {"try", "asked"}, search[s].hits = {}, FoundNone(s), answer' = answer,
         loaded' = loaded, weights' = weights, Items(searchCache') \subseteq Items(searchCache),
         NEW r, NEW n, NEW t,
         r = search[s].req, n = search[s].at, t = search[s].begun,
         n <= Len(Tries(r)) => Quiet(Filter(r, Tries(r)[n]), t)'
  PROVE  SearchInv'
<1>1. SearchTypes /\ ItemsOK /\ RepliesOK /\ SearchesOK /\ SteadyOK
  BY DEF SearchInv
<1>2. PICK x \in Search, place \in {"try", "corpus"} :
        /\ Moves(s, x, place) /\ InRange(x, place) /\ Same(x, search[s])
        /\ x.hits = search[s].hits
        /\ place = "try" => x.at = search[s].at + 1
        /\ place = "corpus" => /\ search[s].at >= Len(Tries(search[s].req))
                               /\ x.scope = LastScope(search[s].req)
  BY <1>1, NothingMoves
<1>3. place = "try" => x.at = n + 1
  BY <1>2
<1>4. place = "corpus" => n >= Len(Tries(r)) /\ x.scope = LastScope(r)
  BY <1>2
<1>5. SearchOK(x, place)'
  BY <1>1, <1>2, <1>3, <1>4, NothingFound
<1>6. place \in Places /\ place # "idle" /\ stage[s] # "idle"
  BY DEF Places
<1>7. SearchesOK'
  BY <1>1, <1>2, <1>5, <1>6, SearchesStep
<1>8. RepliesOK'
  BY <1>1, <1>2, <1>6, RepliesKept
<1>9. SteadyOK'
  BY <1>1, <1>2, <1>6, SteadyStep
<1> QED BY <1>1, <1>7, <1>8, <1>9, ItemsStay, TypesStep DEF SearchInv

\* A failure, or a question that is not put, is a reason for everything.
LEMMA FailureExplains ==
  ASSUME SearchInv, NEW s \in Searchers, lastFail' = clock, NEW f, NEW cs,
         NEW t, t = search[s].begun
  PROVE  QuietIn(f, cs, t)'
<1>1. t <= clock
  BY DEF SearchInv, SearchesOK, SearchOK
<1> QED BY <1>1 DEF QuietIn

LEMMA InvCutShort ==
  ASSUME SearchInv, NEW s \in Searchers, CutShort(s)
  PROVE  SearchInv'
<1>1. [SearchNext]_searchVars
  BY DEF SearchNext
<1>2. /\ stage[s] \in {"try", "asked"} /\ FoundNone(s) /\ answer' = answer
      /\ loaded' = loaded /\ weights' = weights /\ lastFail' = clock
      /\ search[s].hits = {}
  BY DEF CutShort, ranking, SearchInv, SearchesOK, SearchOK
<1>3. Items(searchCache') \subseteq Items(searchCache)
  BY Dropping DEF CutShort, SearchInv, SearchTypes
<1>4. PICK r, n, t, f, cs :
        /\ r = search[s].req /\ n = search[s].at /\ t = search[s].begun
        /\ f = Filter(r, Tries(r)[n]) /\ cs = Collections(f)
  OBVIOUS
<1>5. QuietIn(f, cs, t)'
  BY <1>2, <1>4, FailureExplains
<1>6. Quiet(Filter(r, Tries(r)[n]), t)'
  BY <1>4, <1>5 DEF Quiet
<1> QED BY <1>1, <1>2, <1>3, <1>4, <1>6, FoundNothing

LEMMA InvAsk ==
  ASSUME SearchInv, NEW s \in Searchers, AskQdrant(s)
  PROVE  SearchInv'
<1>1. [SearchNext]_searchVars
  BY DEF SearchNext
<1>2. SearchTypes /\ ItemsOK /\ RepliesOK /\ SearchesOK /\ SteadyOK
  BY DEF SearchInv
<1>3. /\ stage[s] = "try" /\ answer' = answer /\ loaded' = loaded /\ weights' = weights
      /\ clock' = clock
  BY DEF AskQdrant, backend, ranking
<1>4. Items(searchCache') \subseteq Items(searchCache)
  BY <1>2, Dropping DEF AskQdrant, SearchTypes
<1>5. PICK x \in Search : /\ Moves(s, x, "asked") /\ InRange(x, "asked")
                          /\ Same(x, search[s]) /\ x.hits = search[s].hits
                          /\ x.at = search[s].at /\ x.left = Collections(x.req)
  BY <1>2, AskMoves
<1>6. PICK y \in Search : y = search[s]
  BY <1>2, LocalState
<1>7. /\ y.begun <= clock /\ y.hits = {} /\ Searched(y.req, y.at - 1, y.begun)
  BY <1>2, <1>3, <1>6 DEF SearchesOK, SearchOK
<1>8. /\ y.begun \in 0 .. Horizon /\ x.req = y.req /\ x.at = y.at /\ x.begun = y.begun
  BY <1>5, <1>6 DEF Search, Same
<1>9. Searched(y.req, y.at - 1, y.begun)'
  BY <1>1, <1>2, <1>7, <1>8, SearchedAges
<1>15. Gathered(x)'
  <2>1. x.hits = {} /\ Collections(x.req) \ x.left = {}
    BY <1>5, <1>6, <1>7
  <2> QED BY <2>1 DEF Gathered, ThereSince, QuietIn
<1>10. SearchOK(x, "asked")'
  BY <1>3, <1>5, <1>6, <1>7, <1>8, <1>9, <1>15 DEF SearchOK
<1>11. "asked" \in Places /\ "asked" # "idle" /\ stage[s] # "idle"
  BY <1>3 DEF Places
<1>12. SearchesOK'
  BY <1>1, <1>2, <1>5, <1>10, <1>11, SearchesStep
<1>13. RepliesOK'
  BY <1>1, <1>2, <1>3, <1>5, <1>11, RepliesKept
<1>14. SteadyOK'
  BY <1>2, <1>3, <1>5, <1>11, SteadyStep
<1> QED BY <1>1, <1>2, <1>4, <1>12, <1>13, <1>14, ItemsStay, TypesStep DEF SearchInv

\* A filter lets pass what it means.
LEMMA WantsPass ==
  ASSUME NEW r \in SearchRequests, NEW sc, NEW e, Wants(e, Filter(r, sc))
  PROVE  Passes(e, Filter(r, sc))
<1> DEFINE f == Filter(r, sc)
<1>1. IsFiniteSet(f.mods)
  BY SearchAssumption DEF Filter
<1>2. Wants(e, f)
  OBVIOUS
<1> HIDE DEF f
<1>3. ASSUME Cardinality(f.mods) = 1
      PROVE  \A m \in f.mods : m \in Place[e].mods
  <2>1. PICK m : f.mods = {m}
    BY <1>1, <1>3, FS_Singleton
  <2> QED BY <1>2, <2>1 DEF Wants, OfMods
<1>4. \A cond \in Must(f) : Satisfies(e, cond)
  BY <1>2, <1>3 DEF Must, Satisfies, Wants, OfUsers, OfPlace
<1>5. ASSUME NEW c \in Should(f)
      PROVE  \E cond \in Should(f) : Satisfies(e, cond)
  <2>1. CASE Cardinality(f.mods) # 1 /\ f.mods # {}
    <3>1. PICK m \in f.mods : m \in Place[e].mods
      BY <1>2, <2>1 DEF Wants, OfMods
    <3>2. <<"mods", m>> \in Should(f)
      BY <2>1 DEF Should
    <3> QED BY <3>1, <3>2 DEF Satisfies
  <2>2. CASE ~(Cardinality(f.mods) # 1 /\ f.mods # {})
    <3>1. ~f.all /\ f.users # {}
      BY <1>5, <2>2 DEF Should
    <3>2. PICK u \in f.users : u \in Place[e].users
      BY <1>2, <3>1 DEF Wants, OfUsers
    <3>3. <<"users", u>> \in Should(f)
      BY <3>1 DEF Should
    <3> QED BY <3>2, <3>3 DEF Satisfies
  <2> QED BY <2>1, <2>2
<1>6. Passes(e, f)
  BY <1>4, <1>5 DEF Passes
<1> QED BY <1>6 DEF f

\* One collection more is done with: it has given what there is, or there is a reason.
LEMMA InvTurns ==
  ASSUME SearchInv, [SearchNext]_searchVars, NEW s \in Searchers, stage[s] = "asked",
         NEW found \in SUBSET Offers(s, Asked(s)), Turns(s, found),
         UNCHANGED <<answer, loaded, weights, clock, points, since, searchCache>>,
         lastFail' = clock \/ found = Offers(s, Asked(s))
  PROVE  SearchInv'
<1>1. SearchTypes /\ ItemsOK /\ RepliesOK /\ SearchesOK /\ SteadyOK
  BY DEF SearchInv
<1>2. PICK y \in Search : y = search[s]
  BY <1>1, LocalState
<1>3. PICK r, n, t, f, c : /\ r = y.req /\ n = y.at /\ t = y.begun
                           /\ f = Filter(r, Attempt(r, n)) /\ c = Asked(s)
  OBVIOUS
<1>4. r \in SearchRequests /\ t \in 0 .. Horizon /\ y.hits \in SUBSET Points
  BY <1>2, <1>3 DEF Search
<1>5. ScopeAt(s, n) = Attempt(r, n)
  BY <1>2, <1>3 DEF ScopeAt, Attempt
<1>6. found \subseteq points /\ points \subseteq Points /\ \A e \in found : Passes(e, f)
  BY <1>1, <1>2, <1>3, <1>5 DEF Offers, SearchTypes
<1>7. t <= clock /\ Searched(r, n - 1, t) /\ Gathered(y)
  BY <1>1, <1>2, <1>3 DEF SearchesOK, SearchOK
<1>8. Gathered(y)' /\ Searched(r, n - 1, t)'
  BY <1>1, <1>2, <1>3, <1>4, <1>7, GatheredAges, SearchedAges
\* What is known with this collection too.
<1>9. ASSUME NEW cs, cs \subseteq (Collections(r) \ y.left) \cup {c}, y.hits \cup found = {}
      PROVE  QuietIn(f, cs, t)'
  <2>1. CASE lastFail' = clock
    BY <1>1, <1>2, <1>3, <2>1, FailureExplains
  <2>2. CASE found = Offers(s, c)
    <3> SUFFICES ASSUME NEW e \in points, since[e] < t, Wants(e, f),
                        Place[e].vectors \cap cs # {}
                 PROVE  lastFail' >= t
      BY DEF QuietIn
    <3>1. c \notin Place[e].vectors
      <4>1. PICK sc : sc = Attempt(r, n)
        OBVIOUS
      <4>2. Passes(e, Filter(r, sc))
        BY <1>3, <1>4, <4>1, WantsPass
      <4> QED BY <1>2, <1>3, <1>5, <1>9, <2>2, <4>1, <4>2 DEF Offers
    <3>2. Place[e].vectors \cap (Collections(r) \ y.left) # {}
      BY <1>9, <3>1
    <3> QED BY <1>3, <1>8, <1>9, <3>2 DEF Gathered, QuietIn
  <2> QED BY <1>3, <2>1, <2>2
<1>10. /\ \A e \in y.hits \cup found : Passes(e, f)
       /\ ThereSince(y.hits \cup found, t)'
  BY <1>3, <1>6, <1>8 DEF Gathered, ThereSince
<1>11. Items(searchCache') \subseteq Items(searchCache)
  OBVIOUS
<1>12. {"asked", "corpus"} \subseteq Places /\ stage[s] # "idle"
  BY DEF Places
<1>13. ASSUME NEW x \in Search, NEW place \in {"asked", "corpus"}, Moves(s, x, place),
              InRange(x, place), Same(x, search[s]), SearchOK(x, place)'
       PROVE  SearchInv'
  <2>1. SearchesOK'
    BY <1>1, <1>12, <1>13, SearchesStep
  <2>2. RepliesOK'
    BY <1>1, <1>12, <1>13, RepliesKept
  <2>3. SteadyOK'
    BY <1>1, <1>12, <1>13, SteadyStep
  <2> QED BY <1>1, <1>11, <2>1, <2>2, <2>3, ItemsStay, TypesStep DEF SearchInv
<1>14. CASE \E x \in Search : /\ Moves(s, x, "asked") /\ InRange(x, "asked")
                             /\ Same(x, search[s]) /\ x.at = search[s].at
                             /\ x.hits = search[s].hits \cup found /\ x.left = Rest(s)
  <2>1. PICK x \in Search : /\ Moves(s, x, "asked") /\ InRange(x, "asked")
                           /\ Same(x, search[s]) /\ x.at = search[s].at
                           /\ x.hits = search[s].hits \cup found /\ x.left = Rest(s)
    BY <1>14
  <2>2. /\ x.req = r /\ x.begun = t /\ x.at = n /\ x.hits = y.hits \cup found
        /\ x.left = y.left \ {c}
    BY <1>2, <1>3, <2>1 DEF Same, Rest
  <2>3. Collections(r) \ x.left \subseteq (Collections(r) \ y.left) \cup {c}
    BY <2>2
  <2>4. x.hits = {} => QuietIn(f, Collections(r) \ x.left, t)'
    BY <1>9, <2>2, <2>3
  <2>5. Gathered(x)'
    BY <1>3, <1>10, <2>2, <2>4 DEF Gathered
  <2>6. SearchOK(x, "asked")'
    BY <1>7, <1>8, <2>2, <2>5 DEF SearchOK
  <2> QED BY <1>13, <2>1, <2>6
<1>15. CASE FoundNone(s) /\ Rest(s) = {} /\ search[s].hits = {} /\ found = {}
  <2>1. Collections(r) \subseteq (Collections(r) \ y.left) \cup {c} /\ y.hits \cup found = {}
    BY <1>2, <1>3, <1>15 DEF Rest
  <2>2. QuietIn(f, Collections(r), t)'
    BY <1>9, <2>1
  <2>3. ASSUME n <= Len(Tries(r))
        PROVE  Quiet(Filter(r, Tries(r)[n]), t)'
    <3>1. f = Filter(r, Tries(r)[n]) /\ Collections(f) = Collections(r)
      BY <1>3, <2>3 DEF Attempt, Filter, Collections
    <3> QED BY <2>2, <3>1 DEF Quiet
  <2> QED BY <1>2, <1>3, <1>11, <1>15, <2>3, FoundNothing
<1>16. CASE \E x \in Search : /\ Moves(s, x, "corpus") /\ InRange(x, "corpus")
                             /\ Same(x, search[s])
                             /\ x.scope = ScopeAt(s, search[s].at)
                             /\ x.hits = search[s].hits \cup found /\ x.hits # {}
  <2>1. PICK x \in Search : /\ Moves(s, x, "corpus") /\ InRange(x, "corpus")
                           /\ Same(x, search[s])
                           /\ x.scope = ScopeAt(s, search[s].at)
                           /\ x.hits = search[s].hits \cup found /\ x.hits # {}
    BY <1>16
  <2>2. /\ x.req = r /\ x.begun = t /\ x.hits = y.hits \cup found /\ x.hits # {}
        /\ Filter(r, x.scope) = f
    BY <1>2, <1>3, <1>5, <2>1 DEF Same
  <2>3. SearchOK(x, "corpus")'
    BY <1>7, <1>10, <2>2 DEF SearchOK
  <2> QED BY <1>13, <2>1, <2>3
<1> QED BY <1>1, <1>6, <1>14, <1>15, <1>16, TurnsMoves

LEMMA InvAnswered ==
  ASSUME SearchInv, NEW s \in Searchers, QdrantAnswers(s) \/ QdrantRejects(s)
  PROVE  SearchInv'
<1>1. [SearchNext]_searchVars
  BY DEF SearchNext
<1>2. /\ stage[s] = "asked"
      /\ UNCHANGED <<answer, loaded, weights, clock, points, since, searchCache>>
  BY DEF QdrantAnswers, QdrantRejects, entries, ranking
<1>3. \/ Turns(s, Offers(s, Asked(s)))
      \/ Turns(s, {}) /\ lastFail' = clock
  BY DEF QdrantAnswers, QdrantRejects
<1>4. {} \in SUBSET Offers(s, Asked(s))
  OBVIOUS
<1> QED BY <1>1, <1>2, <1>3, <1>4, InvTurns

LEMMA InvFails ==
  ASSUME SearchInv, NEW s \in Searchers, QdrantFails(s)
  PROVE  SearchInv'
<1>1. [SearchNext]_searchVars
  BY DEF SearchNext
<1>2. SearchTypes /\ ItemsOK /\ RepliesOK /\ SearchesOK /\ SteadyOK
  BY DEF SearchInv
<1>3. /\ stage[s] = "asked" /\ answer' = answer /\ loaded' = loaded /\ weights' = weights
      /\ clock' = clock /\ lastFail' = clock /\ searchCache' = searchCache
      /\ points' = points /\ since' = since
  BY DEF QdrantFails, ranking, entries
<1>4. Items(searchCache') \subseteq Items(searchCache)
  BY <1>3
<1>5. CASE search[s].tries + 1 < Attempts
  <2>1. PICK x \in Search : /\ Moves(s, x, "asked") /\ InRange(x, "asked")
                            /\ Same(x, search[s]) /\ x.hits = search[s].hits
                            /\ x.at = search[s].at /\ x.left = search[s].left
    BY <1>2, <1>5, RetryMoves
  <2>2. PICK y \in Search : y = search[s]
    BY <1>2, LocalState
  <2>3. /\ y.begun <= clock /\ Gathered(y) /\ Searched(y.req, y.at - 1, y.begun)
    BY <1>2, <1>3, <2>2 DEF SearchesOK, SearchOK
  <2>4. /\ y.begun \in 0 .. Horizon /\ x.req = y.req /\ x.at = y.at /\ x.begun = y.begun
        /\ x.hits = y.hits /\ x.left = y.left
    BY <2>1, <2>2 DEF Search, Same
  <2>5. Searched(y.req, y.at - 1, y.begun)' /\ Gathered(y)'
    BY <1>1, <1>2, <2>3, <2>4, SearchedAges, GatheredAges
  <2>11. Gathered(x)'
    BY <2>4, <2>5 DEF Gathered
  <2>6. SearchOK(x, "asked")'
    BY <1>3, <2>3, <2>4, <2>5, <2>11 DEF SearchOK
  <2>7. "asked" \in Places /\ "asked" # "idle" /\ stage[s] # "idle"
    BY <1>3 DEF Places
  <2>8. SearchesOK'
    BY <1>1, <1>2, <2>1, <2>6, <2>7, SearchesStep
  <2>9. RepliesOK'
    BY <1>1, <1>2, <1>3, <2>1, <2>7, RepliesKept
  <2>10. SteadyOK'
    BY <1>2, <1>3, <2>1, <2>7, SteadyStep
  <2> QED BY <1>1, <1>2, <1>4, <2>8, <2>9, <2>10, ItemsStay, TypesStep DEF SearchInv
<1>6. CASE ~(search[s].tries + 1 < Attempts)
  <2>1. Turns(s, {}) /\ {} \in SUBSET Offers(s, Asked(s))
    BY <1>6 DEF QdrantFails
  <2> QED BY <1>1, <1>3, <2>1, InvTurns
<1> QED BY <1>5, <1>6

\* A search that has returned knows nothing.
LEMMA Returned ==
  ASSUME SearchTypes, SearchesOK, SteadyOK, [SearchNext]_searchVars, NEW s \in Searchers,
         NEW x \in Search, InRange(x, "idle"), Moves(s, x, "idle"), x.begun = 0,
         loaded' = loaded, weights' = weights
  PROVE  SearchesOK' /\ SteadyOK'
<1>1. clock' \in 0 .. Horizon
  BY TypesStep DEF SearchTypes
<1>2. x.begun <= clock'
  BY <1>1, SearchAssumption
<1>3. SearchOK(x, "idle")'
  BY <1>2 DEF SearchOK
<1>4. "idle" \in Places
  BY DEF Places
<1>5. SearchesOK'
  BY <1>3, <1>4, SearchesStep
<1>6. SteadyOK'
  BY <1>4, SteadyStep
<1> QED BY <1>5, <1>6

\* An answer to a search that returns.
LEMMA ReplyReturned ==
  ASSUME SearchTypes, RepliesOK, [SearchNext]_searchVars, NEW s \in Searchers,
         NEW x \in Search, InRange(x, "idle"), Moves(s, x, "idle"),
         x.req = search[s].req, x.conf = search[s].conf,
         NEW v \in Value, NEW sc \in Scopes,
         answer' = [answer EXCEPT ![s] = [value |-> v, scope |-> sc, at |-> clock]],
         Vouched(v, Filter(search[s].req, sc), sc, search[s].conf.blend), clock <= v.put + TTL,
         v.hits = {} => \E n \in 1 .. Len(Tries(search[s].req)) :
                          Tries(search[s].req)[n] = sc
  PROVE  RepliesOK'
<1>1. PICK r, w : r = search[s].req /\ w = search[s].conf.blend
  OBVIOUS
<1>2. PICK a : a = answer'[s]
  OBVIOUS
<1>3. a \in Reply /\ a.value = v /\ a.scope = sc /\ a.at = clock
  <2>1. [value |-> v, scope |-> sc, at |-> clock] \in Reply
    BY DEF Reply, SearchTypes
  <2>2. a = [value |-> v, scope |-> sc, at |-> clock]
    BY <1>2 DEF SearchTypes
  <2> QED BY <2>1, <2>2
<1>4. ReplyOK(a, r, w)
  BY <1>1, <1>3 DEF ReplyOK
<1>5. ReplyOK(a, r, w)'
  BY <1>3, <1>4, ReplyAges
<1>6. /\ search'[s] = x /\ \A t \in Searchers : t # s => answer'[t] = answer[t]
  BY Moving DEF SearchTypes, Places
<1>7. search'[s].req = r /\ search'[s].conf.blend = w
  BY <1>1, <1>6
<1>8. ReplyOK(answer[s], search[s].req, search[s].conf.blend)'
  BY <1>2, <1>5, <1>7
<1>9. "idle" \in Places
  BY DEF Places
<1> QED BY <1>6, <1>8, <1>9, RepliesStep

LEMMA InvHit ==
  ASSUME SearchInv, NEW s \in Searchers, Hit(s)
  PROVE  SearchInv'
<1>1. [SearchNext]_searchVars
  BY DEF SearchNext
<1>2. SearchTypes /\ ItemsOK /\ RepliesOK /\ SearchesOK /\ SteadyOK
  BY DEF SearchInv
<1>3. PICK x \in Search : /\ Moves(s, x, "idle") /\ InRange(x, "idle")
                          /\ x.req = search[s].req /\ x.conf = search[s].conf
                          /\ x.begun = 0
  BY <1>2, ReturnMoves DEF Hit
<1>4. PICK r, n, w : /\ r = search[s].req /\ n = search[s].at /\ w = search[s].conf
                     /\ r \in SearchRequests /\ n \in Nat /\ w \in Weights
  BY <1>2, LocalState
<1>5. n >= 1 /\ n <= Len(Tries(r)) /\ loaded' = loaded /\ weights' = weights
  BY <1>2, <1>4, LocalState DEF Hit, InRange, ranking
<1>6. PICK sc \in Scopes : sc = ScopeAt(s, search[s].at) /\ sc = Tries(r)[n]
  BY <1>2, <1>4, <1>5, ScopesAt DEF Hit
<1>7. PICK p \in At(KeyOf(s, sc)) :
        /\ InTime(p) /\ searchCache' = Touched(p)
        /\ answer' = [answer EXCEPT ![s] =
             [value |-> searchCache[p].value, scope |-> sc, at |-> clock]]
  BY <1>6 DEF Hit
<1>8. p \in DOMAIN searchCache /\ searchCache[p].key = Key(r, sc, w)
  BY <1>4, <1>7 DEF At, KeyOf
<1>9. PICK i \in Item : i = searchCache[p] /\ i \in Items(searchCache)
  BY <1>2, <1>8, Touching DEF SearchTypes
<1>10. PICK v \in Value : v = i.value
  BY DEF Item
<1>11. /\ i.key.filter = Filter(r, sc) /\ i.key.scope = sc /\ i.key.sig = w.blend
  BY <1>4, <1>8, <1>9, KeysOf
<1>12. Vouched(v, Filter(r, sc), sc, w.blend) /\ i.until = v.put + TTL
  BY <1>2, <1>9, <1>10, <1>11 DEF ItemsOK, ItemOK
<1>13. clock <= v.put + TTL
  BY <1>7, <1>9, <1>12 DEF InTime
<1>14. \E k \in 1 .. Len(Tries(r)) : Tries(r)[k] = sc
  BY <1>4, <1>5, <1>6
<1>15. answer' = [answer EXCEPT ![s] = [value |-> v, scope |-> sc, at |-> clock]]
  BY <1>7, <1>9, <1>10
<1>16. RepliesOK'
  BY <1>1, <1>2, <1>3, <1>4, <1>12, <1>13, <1>14, <1>15, ReplyReturned
<1>17. ItemsOK'
  <2>1. Items(searchCache') \subseteq Items(searchCache)
    BY <1>2, <1>7, <1>8, Touching DEF SearchTypes
  <2> QED BY <1>1, <1>2, <2>1, ItemsStay
<1>18. SearchesOK' /\ SteadyOK'
  BY <1>1, <1>2, <1>3, <1>5, Returned
<1> QED BY <1>1, <1>2, <1>16, <1>17, <1>18, TypesStep DEF SearchInv

LEMMA InvFinish ==
  ASSUME SearchInv, NEW s \in Searchers, Finish(s)
  PROVE  SearchInv'
<1>1. [SearchNext]_searchVars
  BY DEF SearchNext
<1>2. SearchTypes /\ ItemsOK /\ RepliesOK /\ SearchesOK /\ SteadyOK
  BY DEF SearchInv
<1>3. PICK x \in Search : /\ Moves(s, x, "idle") /\ InRange(x, "idle")
                          /\ x.req = search[s].req /\ x.conf = search[s].conf
                          /\ x.begun = 0
  BY <1>2, ReturnMoves DEF Finish
<1>4. PICK y \in Search : y = search[s]
  BY <1>2, LocalState
<1>5. PICK r, w, sc : /\ r = y.req /\ w = y.conf /\ sc = y.scope
                      /\ r \in SearchRequests /\ w \in Weights /\ sc \in Scopes
  BY DEF Search
<1>6. PICK found \in SUBSET Corpus(s) :
        /\ CachePut(KeyOf(s, search[s].scope), Result(s, found))
        /\ answer' = [answer EXCEPT ![s] =
             [value |-> Result(s, found), scope |-> search[s].scope, at |-> clock]]
  BY DEF Finish
<1>7. PICK v \in Value : v = Result(s, found)
  BY <1>2, ResultTypes
<1>8. /\ v.hits = y.hits \cup found /\ v.begun = y.begun /\ v.put = clock
      /\ v.ranked = loaded
      /\ v.steady <=> y.steady
  BY <1>2, <1>4, <1>7, ResultTypes
<1>9. found \subseteq points /\ \A e \in found : Passes(e, Filter(r, sc))
  BY <1>4, <1>5 DEF Corpus
<1>10. /\ y.begun <= clock
       /\ \A e \in y.hits : Passes(e, Filter(r, sc))
       /\ ThereSince(y.hits, y.begun)
       /\ y.hits = {} => sc = LastScope(r) /\ Searched(r, Len(Tries(r)), y.begun)
  BY <1>2, <1>4, <1>5 DEF SearchesOK, SearchOK, Finish
<1>11. y.steady => loaded = w /\ weights = w
  BY <1>2, <1>4, <1>5 DEF SteadyOK, Finish
<1>12. clock \in 0 .. Horizon /\ Horizon \in Nat /\ TTL \in Nat
  BY <1>2, SearchAssumption DEF SearchTypes
<1>13. Vouched(v, Filter(r, sc), sc, w.blend)
  <2>1. \A e \in v.hits : Passes(e, Filter(r, sc))
    BY <1>8, <1>9, <1>10
  <2>2. v.steady => v.ranked.blend = w.blend /\ Boosted(v)
    BY <1>8, <1>11 DEF Boosted
  <2>3. v.begun <= v.put /\ v.put <= clock
    BY <1>8, <1>10, <1>12
  <2>4. ThereSince(v.hits, v.begun)
    BY <1>8, <1>9, <1>10 DEF ThereSince
  <2>5. ASSUME v.hits = {}
        PROVE  \E q \in SearchRequests : /\ Filter(r, sc) = Widest(q) /\ sc = LastScope(q)
                                   /\ Searched(q, Len(Tries(q)), v.begun)
    <3>1. sc = LastScope(r) /\ Searched(r, Len(Tries(r)), v.begun)
      BY <1>8, <1>10, <2>5
    <3>2. Filter(r, sc) = Widest(r)
      BY <3>1 DEF Widest
    <3> QED BY <1>5, <3>1, <3>2
  <2> QED BY <2>1, <2>2, <2>3, <2>4, <2>5 DEF Vouched
<1>14. v.hits = {} => \E n \in 1 .. Len(Tries(r)) : Tries(r)[n] = sc
  BY <1>5, <1>8, <1>10, AttemptsOf DEF LastScope
<1>15. clock <= v.put + TTL
  BY <1>8, <1>12
<1>16. answer' = [answer EXCEPT ![s] = [value |-> v, scope |-> sc, at |-> clock]]
  BY <1>4, <1>5, <1>6, <1>7
<1>17. RepliesOK'
  BY <1>1, <1>2, <1>3, <1>4, <1>5, <1>13, <1>14, <1>15, <1>16, ReplyReturned
<1>18. PICK key \in Keys : /\ key = Key(r, sc, w) /\ key.filter = Filter(r, sc)
                           /\ key.scope = sc /\ key.sig = w.blend
  BY <1>5, KeysOf
<1>19. PICK i : i = [key |-> key, value |-> v, until |-> clock + TTL]
  OBVIOUS
<1>20. /\ i \in Item /\ i.key = key /\ i.value = v /\ i.until = clock + TTL
  BY <1>12, <1>19 DEF Item
<1>21. Items(searchCache') \subseteq Items(searchCache) \cup {i}
  <2>1. CachePut(key, v)
    BY <1>4, <1>5, <1>6, <1>7, <1>18 DEF KeyOf
  <2> QED BY <1>2, <1>19, <2>1, Putting DEF SearchTypes
<1>22. ItemOK(i)
  BY <1>8, <1>13, <1>18, <1>20 DEF ItemOK
<1>23. ItemsOK'
  <2> SUFFICES ASSUME NEW j \in Items(searchCache')
               PROVE  ItemOK(j)'
    BY DEF ItemsOK
  <2>1. CASE j = i
    <3>1. ItemOK(i)'
      BY <1>1, <1>2, <1>20, <1>22, ItemAges
    <3> QED BY <2>1, <3>1
  <2>2. CASE j # i
    <3>1. j \in Items(searchCache) /\ ItemOK(j)
      BY <1>2, <1>21, <2>2 DEF ItemsOK
    <3>2. j \in Item
      BY <1>2, <3>1, Cached DEF SearchTypes, Items
    <3> QED BY <1>1, <1>2, <3>1, <3>2, ItemAges
  <2> QED BY <2>1, <2>2
<1>24. loaded' = loaded /\ weights' = weights
  BY DEF Finish, ranking
<1>25. SearchesOK' /\ SteadyOK'
  BY <1>1, <1>2, <1>3, <1>24, Returned
<1> QED BY <1>1, <1>2, <1>17, <1>23, <1>25, TypesStep DEF SearchInv

LEMMA InvBegin ==
  ASSUME SearchInv, NEW s \in Searchers, NEW r \in SearchRequests, BeginSearch(s, r)
  PROVE  SearchInv'
<1>1. [SearchNext]_searchVars
  BY DEF SearchNext
<1>2. SearchTypes /\ ItemsOK /\ RepliesOK /\ SearchesOK /\ SteadyOK
  BY DEF SearchInv
<1>3. PICK x \in Search : /\ Moves(s, x, "try") /\ InRange(x, "try")
                          /\ x.req = r /\ x.conf = weights /\ x.begun = clock
                          /\ x.at = 1 /\ x.hits = {}
  BY <1>2, BeginMoves
<1>4. /\ loaded' = weights /\ weights' = weights /\ clock' = clock /\ searchCache' = searchCache
      /\ answer' = [answer EXCEPT ![s] = NoAnswer]
  BY DEF BeginSearch, ranking
<1>5. SearchOK(x, "try")'
  <2>1. Searched(r, x.at - 1, clock)'
    BY <1>3, AttemptsOf DEF Searched
  <2>2. clock \in 0 .. Horizon
    BY <1>2 DEF SearchTypes
  <2>3. x.begun <= clock'
    BY <1>3, <1>4, <2>2, SearchAssumption
  <2>4. Searched(x.req, x.at - 1, x.begun)'
    BY <1>3, AttemptsOf DEF Searched
  <2> QED BY <1>3, <2>3, <2>4 DEF SearchOK
<1>6. "try" \in Places
  BY DEF Places
<1>7. SearchesOK'
  BY <1>1, <1>2, <1>3, <1>5, <1>6, SearchesStep
<1>8. RepliesOK'
  <2>1. answer'[s] = NoAnswer /\ \A t \in Searchers : t # s => answer'[t] = answer[t]
    BY <1>2, <1>4 DEF SearchTypes
  <2> QED BY <1>1, <1>2, <1>3, <1>6, <2>1, RepliesStep
<1>9. SteadyOK'
  <2> SUFFICES ASSUME NEW t \in Searchers, stage'[t] # "idle", search'[t].steady
               PROVE  search'[t].conf = weights
    BY <1>4 DEF SteadyOK
  <2>1. /\ search'[s] = x
        /\ t # s => search'[t] = search[t] /\ stage'[t] = stage[t]
    BY <1>2, <1>3, <1>6, Moving
  <2> QED BY <1>2, <1>3, <2>1 DEF SteadyOK
<1>10. Items(searchCache') \subseteq Items(searchCache)
  BY <1>4
<1> QED BY <1>1, <1>2, <1>7, <1>8, <1>9, <1>10, ItemsStay, TypesStep DEF SearchInv

\* No search moves: time passes, entries come and go, weights are changed.
LEMMA InvElse ==
  ASSUME SearchInv, [SearchNext]_searchVars, stage' = stage, answer' = answer,
         searchCache' = searchCache, loaded' = loaded,
         \A t \in Searchers :
           /\ search'[t] \in Search
           /\ search'[t].req = search[t].req /\ search'[t].begun = search[t].begun
           /\ search'[t].conf = search[t].conf /\ search'[t].at = search[t].at
           /\ search'[t].scope = search[t].scope /\ search'[t].hits = search[t].hits
           /\ search'[t].left = search[t].left
           /\ search'[t].steady /\ stage[t] # "idle" => weights' = weights /\ search[t].steady
  PROVE  SearchInv'
<1>1. SearchTypes /\ ItemsOK /\ RepliesOK /\ SearchesOK /\ SteadyOK
  BY DEF SearchInv
<1>2. RepliesOK'
  <2> SUFFICES ASSUME NEW t \in Searchers, answer'[t] # NoAnswer
               PROVE  ReplyOK(answer[t], search[t].req, search[t].conf.blend)'
    BY DEF RepliesOK, NoAnswer
  <2> QED BY <1>1, ReplyStays
<1>3. SearchesOK'
  <2> SUFFICES ASSUME NEW t \in Searchers
               PROVE  SearchOK(search[t], stage[t])'
    BY DEF SearchesOK
  <2>1. PICK x, y, p : /\ x \in Search /\ y \in Search /\ p \in Places
                       /\ x = search[t] /\ y = search'[t] /\ p = stage[t]
    BY <1>1, LocalState
  <2>2. SearchOK(x, p)
    BY <1>1, <2>1 DEF SearchesOK
  <2>3. /\ y.req = x.req /\ y.begun = x.begun /\ y.at = x.at /\ y.scope = x.scope
        /\ y.hits = x.hits /\ y.left = x.left
    BY <2>1
  <2>4. SearchOK(y, p)'
    BY <1>1, <2>1, <2>2, <2>3, SearchAges
  <2> QED BY <2>1, <2>4
<1>4. SteadyOK'
  BY <1>1 DEF SteadyOK
<1>5. Items(searchCache') \subseteq Items(searchCache)
  OBVIOUS
<1> QED BY <1>1, <1>2, <1>3, <1>4, <1>5, ItemsStay, TypesStep DEF SearchInv

LEMMA InvAround ==
  ASSUME SearchInv,
         \/ ClockTick \/ UNCHANGED searchVars
         \/ \E e \in Points : AddPoint(e) \/ DropPoint(e)
         \/ \E w \in Weights : Configure(w)
  PROVE  SearchInv'
<1>1. [SearchNext]_searchVars
  BY DEF SearchNext
<1>2. SearchTypes
  BY DEF SearchInv
<1>3. stage' = stage /\ answer' = answer /\ searchCache' = searchCache /\ loaded' = loaded
  BY DEF ClockTick, AddPoint, DropPoint, Configure, searchVars
<1>4. CASE search' = search /\ weights' = weights
  <2>1. \A t \in Searchers : search[t] \in Search
    BY <1>2, LocalState
  <2> QED BY <1>1, <1>3, <1>4, <2>1, InvElse
<1>5. CASE \E w \in Weights : Configure(w)
  <2>1. PICK w \in Weights : Configure(w)
    BY <1>5
  <2>2. ASSUME NEW t \in Searchers
        PROVE  /\ search'[t] \in Search
               /\ search'[t].req = search[t].req /\ search'[t].begun = search[t].begun
               /\ search'[t].conf = search[t].conf /\ search'[t].at = search[t].at
               /\ search'[t].scope = search[t].scope /\ search'[t].hits = search[t].hits
               /\ search'[t].left = search[t].left
               /\ search'[t].steady => stage[t] = "idle"
    BY <1>2, <2>1, ConfigureMoves
  <2> QED BY <1>1, <1>3, <2>2, InvElse
<1>6. (search' = search /\ weights' = weights) \/ \E w \in Weights : Configure(w)
  BY DEF ClockTick, AddPoint, DropPoint, searchVars, ranking
<1> QED BY <1>4, <1>5, <1>6

LEMMA InvStart ==
  ASSUME SearchInit
  PROVE  SearchInv
<1>1. searchCache = << >> /\ clock = 0 /\ \A s \in Searchers : answer[s] = NoAnswer
                                   /\ search[s].begun = 0 /\ stage[s] = "idle"
  BY DEF SearchInit
<1>2. ItemsOK
  BY <1>1 DEF ItemsOK, Items
<1>3. RepliesOK
  BY <1>1 DEF RepliesOK
<1>4. SearchesOK
  BY <1>1 DEF SearchesOK, SearchOK
<1>5. SteadyOK
  BY <1>1 DEF SteadyOK
<1> QED BY <1>2, <1>3, <1>4, <1>5, TypesStart DEF SearchInv

LEMMA InvStep ==
  ASSUME SearchInv, [SearchNext]_searchVars
  PROVE  SearchInv'
<1>1. CASE UNCHANGED searchVars
  BY <1>1, InvAround
<1>2. CASE SearchNext
  BY <1>2, InvBegin, InvHit, InvCutShort, InvAsk, InvAnswered, InvFails, InvFinish,
     InvAround DEF SearchNext
<1> QED BY <1>1, <1>2

-----------------------------------------------------------------------------
(* The promises.                                                           *)

LEMMA SearchStays == SearchSpec => []SearchInv
BY InvStart, InvStep, PTL DEF SearchSpec

LEMMA Replied ==
  ASSUME SearchInv, NEW s \in Answers
  PROVE  /\ s \in Searchers /\ answer[s] \in Reply
         /\ ReplyOK(answer[s], search[s].req, search[s].conf.blend)
         /\ search[s].req \in SearchRequests
<1>1. s \in Searchers /\ answer[s] # NoAnswer
  BY DEF Answers
<1>2. SearchTypes /\ RepliesOK
  BY DEF SearchInv
<1> QED BY <1>1, <1>2, LocalState DEF SearchTypes, RepliesOK

\* What the vector store makes of a filter is what it means, unless two dimensions have
\* alternatives: then one of the two is what it means.
LEMMA PassesWanted ==
  ASSUME NEW r \in SearchRequests, NEW sc, NEW e, Passes(e, Filter(r, sc))
  PROVE  LET f == Filter(r, sc)
         IN IF TwoLists(f) THEN OfPlace(e, f) /\ (OfMods(e, f) \/ OfUsers(e, f))
            ELSE Wants(e, f)
<1> DEFINE f == Filter(r, sc)
<1>1. IsFiniteSet(f.mods)
  BY SearchAssumption DEF Filter
<1>2. Passes(e, f)
  OBVIOUS
<1> HIDE DEF f
<1>3. /\ Cardinality(f.mods) \in Nat
      /\ Cardinality(f.mods) = 0 <=> f.mods = {}
  BY <1>1, FS_CardinalityType, FS_EmptySet
<1>4. /\ \A cond \in Must(f) : Satisfies(e, cond)
      /\ Should(f) # {} => \E cond \in Should(f) : Satisfies(e, cond)
  BY <1>2 DEF Passes
<1>5. /\ \A m : Satisfies(e, <<"mods", m>>) => m \in Place[e].mods
      /\ \A u : Satisfies(e, <<"users", u>>) => u \in Place[e].users
      /\ \A d : Satisfies(e, <<"domain", d>>) => d \in Place[e].domain
      /\ \A d : Satisfies(e, <<"run", d>>) => d \in Place[e].run
  BY DEF Satisfies
<1>6. OfPlace(e, f)
  <2>1. f.domain # Unset => <<"domain", f.domain>> \in Must(f)
    BY DEF Must
  <2>2. f.run # Unset => <<"run", f.run>> \in Must(f)
    BY DEF Must
  <2> QED BY <2>1, <2>2, <1>4, <1>5 DEF OfPlace
<1>7. Cardinality(f.mods) = 1 => OfMods(e, f)
  <2>1. ASSUME Cardinality(f.mods) = 1
        PROVE  \A m \in f.mods : <<"mods", m>> \in Must(f)
    BY <2>1 DEF Must
  <2> QED BY <2>1, <1>4, <1>5 DEF OfMods
<1>8. f.all => OfUsers(e, f)
  <2>1. ASSUME f.all
        PROVE  \A u \in f.users : <<"users", u>> \in Must(f)
    BY <2>1 DEF Must
  <2> QED BY <2>1, <1>4, <1>5 DEF OfUsers
<1>9. ASSUME Cardinality(f.mods) > 1, f.all \/ f.users = {}
      PROVE  OfMods(e, f)
  <2>1. Should(f) = {<<"mods", m>> : m \in f.mods}
    BY <1>3, <1>9 DEF Should
  <2>4. PICK k \in f.mods : TRUE
    BY <1>3, <1>9
  <2>5. Should(f) # {}
    BY <2>1, <2>4
  <2>2. PICK cond \in Should(f) : Satisfies(e, cond)
    BY <1>4, <2>5
  <2>3. PICK m \in f.mods : Satisfies(e, <<"mods", m>>)
    BY <2>1, <2>2
  <2> QED BY <1>5, <2>3 DEF OfMods
<1>10. ASSUME ~(Cardinality(f.mods) > 1), ~f.all, f.users # {}
       PROVE  OfUsers(e, f)
  <2>1. Cardinality(f.mods) = 1 \/ f.mods = {}
    BY <1>3, <1>10
  <2>2. Should(f) = {<<"users", u>> : u \in f.users}
    BY <1>10, <2>1 DEF Should
  <2>3. PICK cond \in Should(f) : Satisfies(e, cond)
    BY <1>4, <1>10, <2>2
  <2>4. PICK u \in f.users : Satisfies(e, <<"users", u>>)
    BY <2>2, <2>3
  <2> QED BY <1>5, <1>10, <2>4 DEF OfUsers
<1>11. ASSUME TwoLists(f)
       PROVE  OfMods(e, f) \/ OfUsers(e, f)
  <2>1. Should(f) = {<<"mods", m>> : m \in f.mods} \cup {<<"users", u>> : u \in f.users}
    BY <1>3, <1>11 DEF Should, TwoLists
  <2>2. PICK cond \in Should(f) : Satisfies(e, cond)
    BY <1>4, <1>11, <2>1 DEF TwoLists
  <2>3. \/ \E m \in f.mods : Satisfies(e, <<"mods", m>>)
        \/ \E u \in f.users : Satisfies(e, <<"users", u>>)
    BY <2>1, <2>2
  <2> QED BY <1>5, <1>11, <2>3 DEF OfMods, OfUsers, TwoLists
<1>12. ASSUME ~TwoLists(f)
       PROVE  Wants(e, f)
  <2>1. OfMods(e, f)
    BY <1>3, <1>7, <1>9, <1>12 DEF TwoLists, OfMods
  <2>2. OfUsers(e, f)
    BY <1>8, <1>10, <1>12 DEF TwoLists, OfUsers
  <2> QED BY <1>6, <2>1, <2>2 DEF Wants
<1> QED BY <1>6, <1>11, <1>12 DEF f

\* AnswerMatches of any number of searches over any entries, with any requests: what is
\* shown is what the filter of the scope means that the answer names, also when another
\* search with another request has put it into the cache; with alternatives in two
\* dimensions it is of one of the two at least, and of the domain and run in any case.
THEOREM AnswersMatch == SearchSpec => []AnswerMatches
<1>1. SearchInv => AnswerMatches
  <2> SUFFICES ASSUME SearchInv, NEW s \in Answers, NEW e \in answer[s].value.hits
               PROVE  LET f == Filter(search[s].req, answer[s].scope)
                      IN IF TwoLists(f)
                         THEN OfPlace(e, f) /\ (OfMods(e, f) \/ OfUsers(e, f))
                         ELSE Wants(e, f)
    BY DEF AnswerMatches
  <2>1. PICK a, r : a = answer[s] /\ r = search[s].req
    OBVIOUS
  <2>2. r \in SearchRequests /\ Passes(e, Filter(r, a.scope))
    BY <2>1, Replied DEF ReplyOK, Vouched
  <2>3. PICK sc : sc = a.scope
    OBVIOUS
  <2>4. LET f == Filter(r, sc)
        IN IF TwoLists(f) THEN OfPlace(e, f) /\ (OfMods(e, f) \/ OfUsers(e, f))
           ELSE Wants(e, f)
    BY <2>2, <2>3, PassesWanted
  <2> QED BY <2>1, <2>3, <2>4
<1> QED BY <1>1, SearchStays, PTL

\* RankedAsConfigured: although all searches share the weights and the cache's key has
\* the blend only, an answer is ranked with the blend it was asked for with, and with
\* boosts that were in force within a lifetime of the cache before it, unless weights
\* were changed during the search that found it.
THEOREM RankedRight == SearchSpec => []RankedAsConfigured
<1>1. ASSUME SearchInv, NEW s \in Answers, answer[s].value.steady
      PROVE  LET v == answer[s].value
             IN /\ v.ranked.blend = search[s].conf.blend
                /\ \/ v.ranked.boosts = weights.boosts
                   \/ answer[s].at <= lastBoosts[v.ranked.boosts] + TTL
  <2>1. PICK a \in Reply : a = answer[s]
    BY <1>1, Replied
  <2>2. PICK v \in Value : v = a.value
    BY DEF Reply
  <2>3. PICK b : b = v.ranked.boosts
    OBVIOUS
  <2>4. b \in Boosts /\ v.put \in 0 .. Horizon /\ a.at \in 0 .. Horizon
    BY <2>2, <2>3 DEF Value, Weights, Reply
  <2>5. /\ v.ranked.blend = search[s].conf.blend
        /\ b = weights.boosts \/ v.put <= lastBoosts[b]
        /\ a.at <= v.put + TTL
    BY <1>1, <2>1, <2>2, <2>3, Replied DEF ReplyOK, Vouched, Boosted
  <2>6. lastBoosts[b] \in 0 .. Horizon /\ TTL \in Nat
    BY <1>1, <2>4, SearchAssumption DEF SearchInv, SearchTypes
  <2>7. b = weights.boosts \/ a.at <= lastBoosts[b] + TTL
    BY <2>4, <2>5, <2>6
  <2> QED BY <2>1, <2>2, <2>3, <2>5, <2>7
<1>2. SearchInv => RankedAsConfigured
  BY <1>1 DEF RankedAsConfigured
<1> QED BY <1>2, SearchStays, PTL

\* An attempt that covers another and was quiet says that the other is.
LEMMA CoveredIsQuiet ==
  ASSUME NEW q \in SearchRequests, NEW r \in SearchRequests, Covers(q, r), NEW t,
         Searched(q, Len(Tries(q)), t)
  PROVE  Quiet(Widest(r), t)
<1>1. PICK n \in DOMAIN Tries(q) :
        LET f == Filter(q, Tries(q)[n])
            w == Widest(r)
        IN /\ f.mods = w.mods
           /\ f.users = {} \/ (f.users = w.users /\ f.all = w.all)
           /\ f.domain \in {Unset, w.domain} /\ f.run \in {Unset, w.run}
  BY DEF Covers
<1>2. n \in 1 .. Len(Tries(q)) /\ n <= Len(Tries(q))
  BY AttemptsOf
<1>3. PICK f, w : f = Filter(q, Tries(q)[n]) /\ w = Widest(r)
  OBVIOUS
<1>4. Quiet(f, t)
  BY <1>2, <1>3 DEF Searched
<1>5. /\ f.mods = w.mods /\ Collections(f) = Collections(w)
      /\ f.users = {} \/ (f.users = w.users /\ f.all = w.all)
      /\ f.domain \in {Unset, w.domain} /\ f.run \in {Unset, w.run}
  BY <1>1, <1>3 DEF Collections
<1>6. \A e : Wants(e, w) => Wants(e, f)
  BY <1>5 DEF Wants, OfMods, OfUsers, OfPlace
<1>7. Quiet(w, t)
  BY <1>4, <1>5, <1>6 DEF Quiet, QuietIn
<1> QED BY <1>3, <1>7

\* CacheIsHonest: whatever is cached, touched, dropped and put by searches in any order,
\* nobody is shown an entry that was gone for longer than a lifetime of the cache and the
\* search that found it, and an empty answer that misses an entry has a failure behind
\* it that is as recent.  Requests fall back in one order.
THEOREM CacheStaysHonest ==
  ASSUME OneOrder
  PROVE  SearchSpec => []CacheIsHonest
<1>1. ASSUME SearchInv, NEW s \in Answers, NEW e \in answer[s].value.hits \ points
      PROVE  answer[s].at <= lastIn[e] + TTL + (answer[s].value.put - answer[s].value.begun)
  <2>1. PICK a \in Reply : a = answer[s]
    BY <1>1, Replied
  <2>2. /\ a.value \in Value /\ a.at \in 0 .. Horizon
    BY DEF Reply
  <2>3. a.value.put \in 0 .. Horizon /\ a.value.begun \in 0 .. Horizon /\ e \in Points
    BY <1>1, <2>1, <2>2 DEF Value
  <2>4. /\ lastIn[e] \in 0 .. Horizon /\ TTL \in Nat /\ Horizon \in Nat
    BY <1>1, <2>3, SearchAssumption DEF SearchInv, SearchTypes
  <2>5. /\ a.value.begun <= a.value.put /\ a.at <= a.value.put + TTL
        /\ lastIn[e] >= a.value.begun
    BY <1>1, <2>1, Replied DEF ReplyOK, Vouched, ThereSince
  <2> QED BY <2>1, <2>2, <2>3, <2>4, <2>5
<1>2. ASSUME SearchInv, NEW s \in Answers, answer[s].value.hits = {},
             NEW e \in points, since[e] < answer[s].value.begun,
             Shows(e, Widest(search[s].req))
      PROVE  /\ lastFail >= answer[s].value.begun
             /\ answer[s].at <= answer[s].value.put + TTL
  <2>1. PICK a, r, t : a = answer[s] /\ r = search[s].req /\ t = a.value.begun
    OBVIOUS
  <2>2. r \in SearchRequests /\ ReplyOK(a, r, search[s].conf.blend) /\ a.value.hits = {}
    BY <1>2, <2>1, Replied
  <2>3. PICK q \in SearchRequests : /\ Filter(r, a.scope) = Widest(q) /\ a.scope = LastScope(q)
                              /\ Searched(q, Len(Tries(q)), t)
    BY <2>1, <2>2 DEF ReplyOK, Vouched
  <2>4. PICK n \in 1 .. Len(Tries(r)) : Tries(r)[n] = a.scope
    BY <2>2 DEF ReplyOK
  <2>5. Relies(r, q)
    BY <2>2, <2>3, <2>4, AttemptsOf DEF Relies
  <2>6. Covers(q, r)
    BY <2>2, <2>5 DEF OneOrder
  <2>7. Quiet(Widest(r), t)
    BY <2>2, <2>3, <2>6, CoveredIsQuiet
  <2>8. lastFail >= t
    BY <1>2, <2>1, <2>7 DEF Quiet, QuietIn, Shows
  <2> QED BY <2>1, <2>2, <2>8 DEF ReplyOK
<1>3. SearchInv => BoundedStaleness
  BY <1>1 DEF BoundedStaleness
<1>4. SearchInv => EmptyHasReason
  BY <1>2 DEF EmptyHasReason
<1>5. SearchInv => CacheIsHonest
  BY <1>3, <1>4 DEF CacheIsHonest
<1> QED BY <1>5, SearchStays, PTL

=============================================================================
