---------------------------- MODULE SemanticQueries ----------------------------
(***************************************************************************)
(* One call of the semantic query endpoints of the API, by a tool of an    *)
(* agent (adk/) or by a client: time-since, quotes, entity-profile,        *)
(* topic-timeline, relations, and the walk through the pages of the        *)
(* entities or topics.                                                     *)
(*                                                                         *)
(* A call is several graph queries with an await between each two, over a  *)
(* graph that the ingest goes on writing.  A query that fails, or that the *)
(* open breaker of the store refuses, returns nothing; one of events       *)
(* returns the earliest, up to a limit, and those of an entity are then    *)
(* sorted by what they fade to, the least faded first.                     *)
(***************************************************************************)
EXTENDS Naturals, Sequences, FiniteSets, SequencesExt

CONSTANTS
  Events, Entities, Topics, Names,
  Involves, Speakers,    \* of each event: its entities, and those with an utterance
  TopicOf, Importance,
  Keyed,                 \* events with a tag and a keyword of their topic's text
  NamedBy,               \* the entities a name finds
  Unfiled,               \* topics the normalizer knows no path for
  MaxDate,               \* dates are 1..MaxDate; 0 is "undated"
  EventLimit, QuoteLimit, PageSize,    \* asked for
  EntityLimit,           \* max(limit, 200)
  MaxPages,
  Nothing,
  MaxChanges             \* bound: events stored or removed, outages begun or over

ASSUME QueryAssumption ==
  /\ Involves \in [Events -> SUBSET Entities] /\ Speakers \in [Events -> SUBSET Entities]
  /\ TopicOf \in [Events -> Topics] /\ NamedBy \in [Names -> SUBSET Entities]
  /\ Importance \in [Events -> Nat \ {0}] /\ Keyed \subseteq Events /\ Unfiled \subseteq Topics
  /\ {EventLimit, QuoteLimit, PageSize, EntityLimit, MaxPages} \subseteq Nat \ {0}
  /\ {MaxDate, MaxChanges} \subseteq Nat /\ Nothing \notin Entities \cup Topics \cup Names
  /\ IsFiniteSet(Events) /\ IsFiniteSet(Entities) /\ IsFiniteSet(Topics)

VARIABLES
  stored,      \* events in the graph, published and not expired
  date,
  reachable,   \* the store answers
  asked,       \* what the call asks for
  at,          \* where it is, or how it ended
  rows,        \* the events the last query returned, in order
  quoted,      \* quotes, as <<event, speaker>>
  listed,      \* entities or topics returned
  page,        \* the walk: how many are counted, where it is, pages so far
  changes,
  added, removed,   \* history: events stored and removed during the call
  dark         \* history: a query of the call went unanswered, or one still cached

graph == <<stored, date, reachable, changes, added, removed>>
found == <<rows, quoted, listed, page>>
queryVars == <<graph, asked, at, found, dark>>

Ended == {"unknown", "ambiguous", "error", "done"}

\* Any choice of n of S with the least f: what ORDER BY f LIMIT n returns.
LeastOf(S, n, f) ==
  {R \in SUBSET S : /\ Cardinality(R) = Min({n, Cardinality(S)})
                    /\ \A r \in R, s \in S \ R : f[r] <= f[s]}

\* The orders of R that respect a relation.
Orderings(R, before) ==
  {s \in SetToSeqs(R) : \A i, j \in DOMAIN s : <<s[i], s[j]>> \in before => i < j}

\* A query in a store that does not answer returns nothing.
Answered(S) == IF reachable THEN S ELSE {}
Look == dark' = (dark \/ ~reachable)

---------------------------------------------------------------------------
(* What is asked *)

Request(tool, who, topic, text, from) ==
  [tool |-> tool, agent |-> who[1], name |-> who[2], entity |-> who[3],
   topic |-> topic, text |-> text, from |-> from]

\* Who asks matters only to how a name is resolved.
Named == ({TRUE, FALSE} \X Names \X {Nothing}) \cup ({FALSE} \X {Nothing} \X Entities)
NoOne == <<FALSE, Nothing, Nothing>>

\* An entity, a topic or both.
About == ((Named \cup {NoOne}) \X (Topics \cup {Nothing})) \ {<<NoOne, Nothing>>}
Froms == 0..MaxDate

TimeRequests     == {Request("time_since", x[1], x[2], FALSE, from) : x \in About, from \in Froms}
QuoteRequests    == {Request("quotes", x[1], x[2], FALSE, from) : x \in About, from \in Froms}
RelationRequests == {Request("relations", w, Nothing, FALSE, from) : w \in Named, from \in Froms}
ProfileRequests  == {Request("profile", w, Nothing, FALSE, 0) : w \in Named}
TimelineRequests ==
  {Request("timeline", NoOne, t, text, from) : t \in Topics, text \in BOOLEAN, from \in Froms}
EntityListRequests == {Request("entities", NoOne, Nothing, FALSE, from) : from \in Froms}
TopicListRequests  == {Request("topics", NoOne, Nothing, FALSE, 0)}

Requests ==
  UNION {TimeRequests, QuoteRequests, RelationRequests, ProfileRequests, TimelineRequests,
         EntityListRequests, TopicListRequests}

\* Events of the topic in the range asked for; an undated one is in no range.
InRange(e)  == asked.from = 0 \/ date[e] >= asked.from
OfTopic(S)  == {e \in S : TopicOf[e] = asked.topic /\ InRange(e)}
OfEntity(S) == {e \in S : asked.entity \in Involves[e]}

---------------------------------------------------------------------------
(* Which entity a name means *)

Hits == Answered(NamedBy[asked.name])

\* The first hit; two hits, or one of low confidence, are returned as candidates.
Resolutions ==
  {r \in [entity : Hits \cup {Nothing}, sure : BOOLEAN] :
     /\ r.entity = Nothing <=> Hits = {}
     /\ r.sure => Cardinality(Hits) = 1}

MutantAgentGoes(r) == IF r.entity = Nothing THEN "unknown" ELSE "find"   \* with the first candidate
AgentGoes(r) ==
  CASE r.entity = Nothing -> "unknown"
    [] r.entity # Nothing /\ ~r.sure -> "ambiguous"
    [] OTHER -> "find"

\* The endpoints go on with the first, some even with none.
EndpointGoes(r) ==
  IF r.entity = Nothing /\ asked.tool \in {"profile", "relations"} THEN "unknown" ELSE "find"

Resolve ==
  /\ at = "resolve" /\ Look
  /\ \E r \in Resolutions :
       /\ asked' = [asked EXCEPT !.entity = r.entity]
       /\ at' = IF asked.agent THEN AgentGoes(r) ELSE EndpointGoes(r)
  /\ UNCHANGED <<graph, found>>

\* The request fails on the way or is answered with an error.  The tools report
\* it, save of resolve-entity: an answer without "found" is "not found".
Drop ==
  /\ at \notin Ended
  /\ at' = IF at = "resolve" /\ asked.agent THEN "unknown" ELSE "error"
  /\ dark' = TRUE
  /\ UNCHANGED <<graph, asked, found>>

---------------------------------------------------------------------------
(* Events: time-since, quotes, entity-profile, topic-timeline *)

\* The normalizer files no text of an unfiled topic: only the timeline then
\* turns to retrieval, the others take the text for the topic's id.
ByRetrieval == asked.tool = "timeline" /\ asked.text /\ asked.topic \in Unfiled

\* The timeline of a text asks for its tags and keywords as well.
Candidates(S) ==
  IF asked.topic # Nothing
  THEN IF asked.tool = "timeline" /\ asked.text THEN OfTopic(S) \cap Keyed ELSE OfTopic(S)
  ELSE IF asked.entity # Nothing THEN OfEntity(S) ELSE {}

Limit ==
  CASE asked.tool = "quotes"  -> (IF asked.topic # Nothing THEN 2 ELSE 3) * QuoteLimit
    [] asked.tool = "profile" -> QuoteLimit
    [] OTHER                  -> EventLimit

\* time-since of a name that means nothing falls through to a retrieval of the
\* empty text, which raises: the breaker of the endpoint counts a failure.
Subjectless == asked.tool = "time_since" /\ asked.entity = Nothing /\ asked.topic = Nothing

Raise ==
  /\ at = "find" /\ Subjectless /\ at' = "error"
  /\ UNCHANGED <<graph, asked, found, dark>>

Earlier == {p \in Events \X Events : date[p[1]] < date[p[2]]}

\* What an event of an entity fades to: of two, the one no less important and no
\* older comes first; an undated one does not fade, and the importance of an
\* older one may outweigh its age.
Fresher ==
  LET youth(e) == IF date[e] = 0 THEN MaxDate + 1 ELSE date[e]
      worth(e) == <<Importance[e], youth(e)>>
  IN {p \in Events \X Events : /\ Importance[p[1]] >= Importance[p[2]] /\ youth(p[1]) >= youth(p[2])
                               /\ worth(p[1]) # worth(p[2])}

\* list_events, and topic_timeline with a topic or without.
EventsOf(n)    == UNION {Orderings(R, Fresher) : R \in LeastOf(Answered(OfEntity(stored)), n, date)}
Timeline(S, n) == UNION {Orderings(R, Earlier) : R \in LeastOf(Answered(S), n, date)}
Fetch(n) ==
  /\ Look
  /\ rows' \in IF asked.topic = Nothing THEN EventsOf(n) ELSE Timeline(Candidates(stored), n)

FindMentions ==        \* time-since
  /\ at = "find" /\ asked.tool = "time_since" /\ ~Subjectless
  /\ Fetch(Limit)
  /\ at' = IF asked.entity # Nothing /\ asked.topic # Nothing THEN "meet" ELSE "done"
  /\ UNCHANGED <<graph, asked, quoted, listed, page>>

FindSaid ==            \* quotes
  /\ at = "find" /\ asked.tool = "quotes" /\ at' = "collect"
  /\ Fetch(Limit)
  /\ UNCHANGED <<graph, asked, quoted, listed, page>>

FindRecent ==          \* entity-profile
  /\ at = "find" /\ asked.tool = "profile"
  /\ Fetch(Limit)
  /\ at' = IF rows' = <<>> THEN "again" ELSE "collect"
  /\ UNCHANGED <<graph, asked, quoted, listed, page>>

FindTimeline ==        \* topic-timeline
  /\ at = "find" /\ asked.tool = "timeline" /\ ~ByRetrieval /\ at' = "done"
  /\ Fetch(Limit)
  /\ UNCHANGED <<graph, asked, quoted, listed, page>>

\* entity-profile: with no recent events, a wider query for the quotes.
Again ==
  /\ at = "again" /\ at' = "collect"
  /\ Fetch(3 * QuoteLimit)
  /\ UNCHANGED <<graph, asked, quoted, listed, page>>

\* What retrieval finds, vectors of removed events included; it fails or finds
\* nothing too.
Retrieve ==
  /\ at = "find" /\ ByRetrieval /\ at' = "ids"
  /\ \E R \in SUBSET (stored \cup removed) : rows' \in SetToSeqs(R)
  /\ UNCHANGED <<graph, asked, quoted, listed, page, dark>>

WithIds(ids, S) == {e \in ids \cap S : InRange(e)}

\* With no ids, the graph is asked by the text after all.
ReadIds ==
  /\ at = "ids" /\ at' = "done" /\ Look
  /\ rows' \in Timeline(IF rows = <<>> THEN Candidates(stored)
                       ELSE WithIds(Range(rows), stored), EventLimit)
  /\ UNCHANGED <<graph, asked, quoted, listed, page>>

\* time-since, both given: the topic's events that are the entity's as well, in
\* the order they have.
Meet ==
  /\ at = "meet" /\ at' = "done" /\ Look
  /\ \E ids \in LeastOf(Answered(OfEntity(stored)), EntityLimit, date) :
       LET inRows == {p \in Events \X Events :
                        \E i, j \in DOMAIN rows : i < j /\ p = <<rows[i], rows[j]>>}
       IN  rows' \in Orderings(Range(rows) \cap ids, inRows)
  /\ UNCHANGED <<graph, asked, quoted, listed, page>>

\* The date time-since answers with: of the last row that has one.
LastMentioned ==
  LET dated == {i \in DOMAIN rows : date[rows[i]] # 0}
  IN IF dated = {} THEN 0 ELSE date[rows[Max(dated)]]

Enough == Cardinality(quoted) >= QuoteLimit
QuotesOf(e) == {<<e, s>> : s \in {x \in Speakers[e] : asked.entity \in {Nothing, x}}}

\* Event after event is explained for its utterances.  An explanation is cached
\* for minutes, that of an event that has gone since, and the empty one of a
\* store that did not answer, too.
Collect ==
  /\ at = "collect" /\ rows # <<>> /\ ~Enough
  /\ rows' = Tail(rows)
  /\ \/ Look /\ quoted' = quoted \cup UNION {QuotesOf(e) : e \in {Head(rows)} \cap Answered(stored)}
     \/ UNCHANGED dark /\ quoted' = quoted \cup QuotesOf(Head(rows))
     \/ dark' = TRUE /\ UNCHANGED quoted
  /\ UNCHANGED <<graph, asked, at, listed, page>>

\* The range asked for is applied to the quotes that were collected, the
\* latest come first and the limit cuts the rest.
Quote ==
  /\ at = "collect" /\ (rows = <<>> \/ Enough) /\ at' = "done"
  /\ LET kept == {q \in quoted : date[q[1]] = 0 \/ InRange(q[1])}
     IN quoted' \in LeastOf(kept, QuoteLimit, [q \in kept |-> MaxDate - date[q[1]]])
  /\ UNCHANGED <<graph, asked, rows, listed, page, dark>>

---------------------------------------------------------------------------
(* Entities and topics *)

\* Events that mention x with the entity asked for.
Together(x) == {e \in OfEntity(stored) : x \in Involves[e] /\ InRange(e)}

\* Entities that occur with the one asked for, the most often first.
Relate ==
  /\ at = "find" /\ asked.tool = "relations" /\ at' = "done" /\ Look
  /\ LET others == {x \in Entities \ {asked.entity} : Together(x) # {}}
     IN listed' \in LeastOf(Answered(others), EventLimit,
                            [x \in others |-> Cardinality(Events) - Cardinality(Together(x))])
  /\ UNCHANGED <<graph, asked, rows, quoted, page>>

Mentions(x, S) ==
  {e \in S : InRange(e) /\ IF asked.tool = "entities" THEN x \in Involves[e] ELSE x = TopicOf[e]}
Listing(S) == {x \in Entities \cup Topics : Mentions(x, S) # {}}

\* ORDER BY last_ts DESC, mention_count DESC: no date at all comes first.
Standing(x, S) ==
  LET last == Max({date[e] : e \in Mentions(x, S)} \cup {0})
  IN (IF last = 0 THEN MaxDate + 1 ELSE last) * (Cardinality(Events) + 1)
       + Cardinality(Mentions(x, S))
Orders(S) ==
  {s \in [1..Cardinality(Listing(S)) -> Listing(S)] :
     /\ Range(s) = Listing(S)
     /\ \A i, j \in DOMAIN s : i < j => Standing(s[i], S) >= Standing(s[j], S)}

Total(S) == Cardinality(Listing(S))
CountAll ==
  /\ at = "count" /\ at' = "page" /\ Look
  /\ page' = [page EXCEPT !.total = Total(Answered(stored))]
  /\ UNCHANGED <<graph, asked, rows, quoted, listed>>

More(p) == p.offset < p.total

MutantNextOffset(length) == page.offset + length + 1      \* the cursor skips one
NextOffset(length) == page.offset + length

Onward(p) == IF More(p) /\ p.pages < MaxPages THEN "count" ELSE "done"

ReadPage ==
  /\ at = "page" /\ Look
  /\ \E order \in Orders(Answered(stored)) :
       LET got  == SubSeq(order, page.offset + 1, Min({page.offset + PageSize, Len(order)}))
           next == [page EXCEPT !.offset = NextOffset(Len(got)), !.pages = @ + 1]
       IN /\ listed' = listed \cup Range(got)
          /\ page' = next
          /\ at' = Onward(next)
  /\ UNCHANGED <<graph, asked, rows, quoted>>

---------------------------------------------------------------------------
(* Meanwhile *)

Change == at \notin Ended /\ changes < MaxChanges /\ changes' = changes + 1

\* An ingest publishes an event.
Store(e) ==
  /\ Change /\ e \notin stored \cup removed
  /\ stored' = stored \cup {e} /\ added' = added \cup {e}
  /\ UNCHANGED <<date, reachable, removed, asked, at, found, dark>>

\* An event expires, is unpublished or purged.
Vanish(e) ==
  /\ Change /\ e \in stored
  /\ stored' = stored \ {e} /\ removed' = removed \cup {e}
  /\ UNCHANGED <<date, reachable, added, asked, at, found, dark>>

\* The store fails until its breaker opens, or answers again.
Outage ==
  /\ Change /\ reachable' = ~reachable
  /\ UNCHANGED <<stored, date, added, removed, asked, at, found, dark>>

QueryInit ==
  /\ stored \in SUBSET Events /\ date \in [Events -> 0..MaxDate] /\ reachable = TRUE
  /\ asked \in Requests
  /\ at = IF asked.tool \in {"entities", "topics"} THEN "count"
          ELSE IF asked.name # Nothing THEN "resolve" ELSE "find"
  /\ rows = <<>> /\ quoted = {} /\ listed = {} /\ page = [total |-> 0, offset |-> 0, pages |-> 0]
  /\ changes = 0 /\ added = {} /\ removed = {} /\ dark = FALSE

QueryNext ==
  \/ Resolve
  \/ Drop
  \/ Raise
  \/ FindMentions
  \/ FindSaid
  \/ FindRecent
  \/ FindTimeline
  \/ Again
  \/ Retrieve
  \/ ReadIds
  \/ Meet
  \/ Collect
  \/ Quote
  \/ Relate
  \/ CountAll
  \/ ReadPage
  \/ \E e \in Events : Store(e) \/ Vanish(e)
  \/ Outage

QuerySpec == QueryInit /\ [][QueryNext]_queryVars

---------------------------------------------------------------------------
(* Properties *)

Always == stored \ added        \* events there from the first query to the last
Ever   == stored \cup removed   \* and those there at some time

\* The events a call is about.
Wanted(S) ==
  IF asked.topic # Nothing /\ asked.entity # Nothing /\ asked.tool = "time_since"
  THEN OfTopic(OfEntity(S)) ELSE Candidates(S)

\* time-since answers with the last mention: no event that was there all the
\* time, of the topic and of the entity, is later (docs/api_reference.md:272).
\* Nothing is asked of a store that failed.
LastMentionIsLast ==
  at = "done" /\ asked.tool = "time_since" /\ ~dark =>
    \A e \in Wanted(Always) : date[e] <= LastMentioned

\* Answers are whole as far as the limits go.  time-since of a topic misses no
\* later mention, nor one at all for an answer of "never", and its date is of an
\* event of both.  Of quotes, timelines and relations, what an event that was
\* there all the time adds is returned, unless more events matched than one
\* query may return or quotes than are asked for (or the range of an entity's
\* quotes, applied to the earliest, left others out).  An agent's answer is
\* about the only entity its name could mean.
AnswerIsWhole ==
  at = "done" /\ ~dark =>
    /\ asked.tool = "time_since" /\ asked.topic # Nothing /\ Cardinality(OfTopic(Ever)) <= Limit
       /\ (asked.entity # Nothing => Cardinality(OfEntity(Ever)) <= EntityLimit) =>
         /\ \A e \in Wanted(Always) : date[e] <= LastMentioned
         /\ LastMentioned # 0 => \E e \in Wanted(Ever) : date[e] = LastMentioned
    /\ asked.tool \in {"quotes", "profile"} /\ Cardinality(Wanted(Ever)) <= Limit
       /\ (asked.from = 0 \/ asked.topic # Nothing) /\ Cardinality(quoted) < QuoteLimit
       => UNION {QuotesOf(e) : e \in Wanted(Always)} \subseteq quoted
    /\ asked.tool = "timeline" /\ ~ByRetrieval /\ Cardinality(Wanted(Ever)) <= Limit
       => Wanted(Always) \subseteq Range(rows)
    /\ asked.tool = "relations" /\ Cardinality(listed) < EventLimit
       => \A e \in OfEntity(Always) : InRange(e) => Involves[e] \ {asked.entity} \subseteq listed
    /\ asked.agent /\ asked.name # Nothing => NamedBy[asked.name] = {asked.entity}

\* A walk through the pages that ends for want of more has shown everything
\* that was listed all the time, though the order changed under it: unless
\* an event went or the list grew meanwhile, or this entity was itself
\* mentioned anew or shared its place with another, whose order is not given.
ListedAreFound ==
  at = "done" /\ asked.tool \in {"entities", "topics"} /\ ~dark /\ ~More(page)
  /\ removed = {} /\ Listing(stored) = Listing(Always)
  /\ (\A y \in Listing(stored) : Standing(y, stored) >= Standing(y, Always)) =>
    \A x \in Listing(stored) :
      \/ x \in listed
      \/ Mentions(x, added) # {}
      \/ \E y \in Listing(stored) \ {x}, S \in SUBSET added :
           Standing(x, stored) = Standing(y, Always \cup S)
=============================================================================
