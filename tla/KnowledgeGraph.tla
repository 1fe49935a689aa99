----------------------------- MODULE KnowledgeGraph -----------------------------
(***************************************************************************)
(* The event graph of one tenant in Neo4j: GraphService.upsert, which      *)
(* writes a request as one statement per kind of node and then one per     *)
(* kind of edge and the vectors after them, purge_source and               *)
(* purge_source_except_events, which delete a source's nodes by several    *)
(* statements, build_first_meetings, and the cached explanations.          *)
(*                                                                         *)
(* Every statement commits on its own.  An upsert runs in a thread         *)
(* (asyncio.to_thread), so the statements of the other pods and of its own *)
(* pod come between; a purge calls the driver from the event loop and      *)
(* blocks its own pod, not the others.  The store swallows every error.    *)
(***************************************************************************)
EXTENDS Naturals, FiniteSets, Sequences

CONSTANTS
  Pods, Sources, Events,
  About,        \* About[s]: the events of source s's request
  Stamps,        \* 0 is "undated": the queries read it as the epoch
  Minor,        \* events below the importance threshold of the gating
  Slight,       \* Slight[s]: edges of s's request that are dropped without a word:
                \* below the confidence threshold, beyond the rel_topk of their
                \* source and type, or of a type that names no labels
  Threshold,    \* failures that open a pod's breaker
  None,
  MaxCalls, MaxFaults    \* bounds: upserts and purges begun, statements failed

Kinds == {"INVOLVES", "DERIVED_FROM"}
Edges == (Events \X Sources) \cup (Kinds \X Events)

ASSUME GraphAssumption ==
  /\ Slight \in [Sources -> SUBSET Edges]
  /\ About \in [Sources -> SUBSET Events] /\ Minor \subseteq Events
  /\ Stamps \subseteq Nat /\ Threshold \in Nat \ {0}
  /\ None \notin Events \cup [at : Stamps, shown : BOOLEAN]
  \* What the model names besides events and pods is neither.
  /\ {"INVOLVES", "DERIVED_FROM", "meet", "unknown"} \cap Events = {} /\ "edge" \notin Pods
  /\ MaxCalls \in Nat /\ MaxFaults \in Nat

VARIABLES
  segs,      \* sources whose segment node exists
  event,     \* the Event nodes: when, and published and not expired; or None
  facts,     \* events with a Knowledge node
  edges,     \* SUMMARIZES as <<e, s>>; INVOLVES and DERIVED_FROM as <<kind, e>>
  vectors,   \* events with a vector
  meet,      \* the FIRST_MEET edge of the two people every event involves
  writer,    \* each pod's upsert
  purger,    \* each pod's purge
  breaker,   \* each pod's store: failures in a row, open or not
  cache,     \* each pod's explanations, by event and for the meeting ("meet")
  calls, faults,
  tied, drawn,   \* history: edges written to nodes that exist since
  raced,         \* history: events an upsert and a purge had at the same time
  purged,        \* history: events a pod's own purge_source removed
  intact,         \* history: sources whose last clean upsert no purge followed
  asOf           \* history: the answers about the meeting since the last change of it

nodes  == <<segs, event, facts, edges>>
tally  == <<calls, faults>>
past   == <<tied, drawn, raced, purged, intact, asOf>>
graphVars == <<nodes, vectors, meet, writer, purger, breaker, cache, tally, past>>

Node     == [at : Stamps, shown : BOOLEAN]
Exists   == {e \in Events : event[e] # None}
NoUpsert == [todo |-> <<>>, source |-> None, as |-> None, clean |-> FALSE]
NoPurge  == [todo |-> <<>>, source |-> None, keep |-> {}, clears |-> FALSE]
NoAnswer == [e \in Events \cup {"meet"} |-> None]
Unknown  == "unknown"

GraphInit ==
  /\ segs = {} /\ event = [e \in Events |-> None] /\ facts = {} /\ edges = {}
  /\ vectors = {} /\ meet = None
  /\ writer = [p \in Pods |-> NoUpsert] /\ purger = [p \in Pods |-> NoPurge]
  /\ breaker = [p \in Pods |-> [fails |-> 0, open |-> FALSE]]
  /\ cache = [p \in Pods |-> NoAnswer]
  /\ calls = 0 /\ faults = 0
  /\ tied = {} /\ drawn = {} /\ raced = {} /\ intact = {} /\ asOf = {}
  /\ purged = [p \in Pods |-> {}]

(***************************************************************************)
(* The upsert.                                                             *)
(***************************************************************************)
Upserting(p) == writer[p].todo # <<>>
Purging(p)   == purger[p].todo # <<>>

\* Events two operations work on at the same time: those of the upserts that
\* run when a purge of src begins, and the reverse.
Shared(src, others) == UNION {About[src] \cap About[s] : s \in others}

Statements ==
  <<"segments", "events", "facts", "SUMMARIZES", "INVOLVES", "DERIVED_FROM", "vectors">>

\* While the breaker is open the store returns at once; the vectors follow all
\* the same.
BeginUpsert(p, src, node) ==
  /\ calls < MaxCalls /\ ~Upserting(p) /\ ~Purging(p)
  /\ calls' = calls + 1
  /\ writer' = [writer EXCEPT ![p] =
       [todo   |-> IF breaker[p].open THEN <<"vectors">> ELSE Statements,
        source |-> src, as |-> node, clean |-> ~breaker[p].open]]
  /\ raced' = raced \cup Shared(src, {purger[q].source : q \in {q \in Pods : Purging(q)}})
  /\ UNCHANGED <<nodes, vectors, meet, purger, breaker, cache, faults, tied, drawn,
                 purged, intact, asOf>>

\* What the gating keeps of a request: it drops minor events, not the facts and
\* not the edges that need them; of the edges it drops the slight ones.
Gated(src) == About[src] \ Minor
Wanted(src, kind) ==
  (IF kind = "SUMMARIZES" THEN About[src] \X {src} ELSE {kind} \X About[src]) \ Slight[src]

\* An edge statement MERGEs an edge for each pair whose ends it finds ...
Ends(edge) ==
  CASE edge[1] \in Events      -> edge[1] \in Exists /\ edge[2] \in segs
    [] edge[1] = "INVOLVES"     -> edge[2] \in Exists
    [] edge[1] = "DERIVED_FROM" -> edge[2] \in Exists /\ edge[2] \in facts
Applied(src, kind) == {edge \in Wanted(src, kind) : Ends(edge)}
\* ... and raises when it found fewer.
MutantComplete(src, kind) == TRUE
Complete(src, kind) == Applied(src, kind) = Wanted(src, kind)

Edgewise(kind) == kind \in {"SUMMARIZES", "INVOLVES", "DERIVED_FROM"}

\* A statement that changes the events makes earlier answers about the meeting
\* old, and a rewritten event is no longer purged.
Write(p, kind, src) ==
  /\ segs' = IF kind = "segments" THEN segs \cup {src} ELSE segs
  /\ event' = IF kind = "events"
              THEN [e \in Events |-> IF e \in Gated(src) THEN writer[p].as ELSE event[e]]
              ELSE event
  /\ facts' = IF kind = "facts" THEN facts \cup About[src] ELSE facts
  /\ edges' = IF Edgewise(kind) THEN edges \cup Applied(src, kind) ELSE edges
  /\ tied'  = IF kind = "SUMMARIZES" THEN tied \cup Applied(src, kind) ELSE tied
  /\ drawn' = IF kind = "DERIVED_FROM"
              THEN drawn \cup {edge[2] : edge \in Applied(src, kind)} ELSE drawn
  /\ purged' = IF kind = "events" THEN [q \in Pods |-> purged[q] \ Gated(src)] ELSE purged
  /\ asOf' = IF kind \in {"events", "INVOLVES"} THEN {} ELSE asOf

\* A failure ends the statements; the vectors are written after it.
Tripped(p) ==
  LET fails == breaker[p].fails + 1
  IN  [fails |-> IF fails > Threshold THEN Threshold ELSE fails,
       open  |-> breaker[p].open \/ fails >= Threshold]

Statement(p) ==
  LET kind == Head(writer[p].todo)  src == writer[p].source
      fits == Edgewise(kind) => Complete(src, kind)
      last == Len(writer[p].todo) = 2
  IN  /\ Upserting(p) /\ kind # "vectors"
      /\ Write(p, kind, src)
      /\ writer' = [writer EXCEPT ![p] =
           [@ EXCEPT !.todo  = IF fits THEN Tail(writer[p].todo) ELSE <<"vectors">>,
                     !.clean = writer[p].clean /\ fits]]
      /\ breaker' = [breaker EXCEPT ![p] =
           IF ~fits THEN Tripped(p) ELSE IF last THEN [@ EXCEPT !.fails = 0] ELSE @]
      /\ UNCHANGED <<vectors, meet, purger, cache, tally, raced, intact>>

StatementFails(p) ==
  /\ faults < MaxFaults /\ Upserting(p) /\ Head(writer[p].todo) # "vectors"
  /\ faults' = faults + 1
  /\ writer' = [writer EXCEPT ![p] = [@ EXCEPT !.todo = <<"vectors">>, !.clean = FALSE]]
  /\ breaker' = [breaker EXCEPT ![p] = Tripped(p)]
  /\ UNCHANGED <<nodes, vectors, meet, purger, cache, calls, past>>

\* _prepare_tkg_vectors: one for the summary of each event the gate lets pass.
Vectors(src) == Gated(src)

\* The vectors are written by the event loop.
WriteVectors(p) ==
  LET w == writer[p]
  IN  /\ w.todo = <<"vectors">> /\ ~Purging(p)
      /\ vectors' = vectors \cup Vectors(w.source)
      /\ intact' = IF w.clean /\ About[w.source] \cap raced = {}
                  THEN intact \cup {w.source} ELSE intact
      /\ writer' = [writer EXCEPT ![p] = NoUpsert]
      /\ UNCHANGED <<nodes, meet, purger, breaker, cache, tally, tied, drawn, raced,
                     purged, asOf>>

VectorsFail(p) ==
  /\ faults < MaxFaults /\ writer[p].todo = <<"vectors">> /\ ~Purging(p)
  /\ faults' = faults + 1
  /\ writer' = [writer EXCEPT ![p] = NoUpsert]
  /\ UNCHANGED <<nodes, vectors, meet, purger, breaker, cache, calls, past>>

BreakerCloses(p) ==
  /\ breaker[p].open
  /\ breaker' = [breaker EXCEPT ![p].open = FALSE]
  /\ UNCHANGED <<nodes, vectors, meet, writer, purger, cache, tally, past>>

(***************************************************************************)
(* The purges.  Knowledge is found through its event and the event through *)
(* its segment, so the segments go last.                                   *)
(***************************************************************************)
MutantDeletions(clears) ==
  IF clears THEN <<"segments", "facts", "events">> ELSE <<"facts", "events">>
Deletions(clears) ==
  IF clears THEN <<"facts", "events", "segments">> ELSE <<"facts", "events">>

\* purge_source clears the pod's explanations first; the overwrite of a session
\* purges all but the new version's events through a service of its own, whose
\* cache is another.
Forgotten(p, clears) == IF clears THEN NoAnswer ELSE cache[p]

BeginSourcePurge(p, src, clears, keep) ==
  /\ calls < MaxCalls /\ ~Purging(p)
  /\ calls' = calls + 1
  /\ cache' = [cache EXCEPT ![p] = Forgotten(p, clears)]
  /\ IF breaker[p].open
     THEN UNCHANGED <<purger, raced, intact>>
     ELSE /\ purger' = [purger EXCEPT ![p] =
               [todo |-> Deletions(clears), source |-> src, keep |-> keep, clears |-> clears]]
          /\ raced' = raced \cup Shared(src, {writer[q].source : q \in {q \in Pods : Upserting(q)}})
          /\ intact' = {s \in intact : About[s] \cap About[src] = {}}
  /\ UNCHANGED <<nodes, vectors, meet, writer, breaker, faults, tied, drawn, purged, asOf>>

\* keep is empty or the ids to leave; an empty one leaves none.
Doomed(p) ==
  {e \in Exists : <<e, purger[p].source>> \in edges /\ e \notin purger[p].keep}

\* DETACH DELETE: the node's edges go with it.
Drop(es, fs, ss) ==
  /\ event' = [e \in Events |-> IF e \in es THEN None ELSE event[e]]
  /\ facts' = facts \ fs
  /\ segs'  = segs \ ss
  /\ edges' = {edge \in edges :
                 IF edge[1] \in Events THEN edge[1] \notin es /\ edge[2] \notin ss
                 ELSE edge[2] \notin es /\ ~(edge[1] = "DERIVED_FROM" /\ edge[2] \in fs)}
  /\ tied'  = {t \in tied : t[1] \notin es}
  /\ drawn' = drawn \ fs
  /\ asOf'  = IF es = {} THEN asOf ELSE {}

Purge(p) ==
  LET kind == Head(purger[p].todo)
  IN  /\ Purging(p)
      /\ CASE kind = "facts"    -> Drop({}, {e \in facts \cap Doomed(p) :
                                               <<"DERIVED_FROM", e>> \in edges}, {})
           [] kind = "events"   -> Drop(Doomed(p), {}, {})
           [] kind = "segments" -> Drop({}, {}, {purger[p].source})
      /\ purged' = IF kind = "events" /\ purger[p].clears
                   THEN [purged EXCEPT ![p] = @ \cup Doomed(p)] ELSE purged
      /\ purger' = [purger EXCEPT ![p] =
           IF Len(@.todo) = 1 THEN NoPurge ELSE [purger[p] EXCEPT !.todo = Tail(@)]]
      /\ UNCHANGED <<vectors, meet, writer, breaker, cache, tally, raced, intact>>

\* The error is logged and the answer is a count of zeros.
SourcePurgeFails(p) ==
  /\ faults < MaxFaults /\ Purging(p)
  /\ faults' = faults + 1
  /\ purger' = [purger EXCEPT ![p] = NoPurge]
  /\ UNCHANGED <<nodes, vectors, meet, writer, breaker, cache, calls, past>>

(***************************************************************************)
(* First meetings: the edge that is built, and the answer that is asked.   *)
(***************************************************************************)
MutantMeetings == {e \in Exists : <<"INVOLVES", e>> \in edges}
Meetings == {e \in Exists : <<"INVOLVES", e>> \in edges /\ event[e].shown}
Earliest(es) == {e \in es : \A f \in es : event[e].at <= event[f].at}
Queried == {e \in Exists : <<"INVOLVES", e>> \in edges /\ event[e].shown}

\* The expires_at of an event passes: the node stays, no query shows it again.
Lapse(e) ==
  /\ e \in Exists /\ event[e].shown
  /\ event' = [event EXCEPT ![e].shown = FALSE]
  /\ asOf' = {}
  /\ UNCHANGED <<segs, facts, edges, vectors, meet, writer, purger, breaker, cache, tally,
                 tied, drawn, raced, purged, intact>>

\* One statement.  With no meeting left the edge stays as it was.
BuildFirstMeetings(p) ==
  /\ ~Purging(p) /\ ~breaker[p].open
  /\ \E e \in Earliest(Meetings) : meet' = e
  /\ asOf' = asOf \cup {"edge"}
  /\ UNCHANGED <<nodes, vectors, writer, purger, breaker, cache, tally, tied, drawn,
                 raced, purged, intact>>

\* Asked of the cache, then of the store: nothing else of the pod runs between
\* the two.  An open breaker answers "not found", and that is cached.
ExplainFirstMeeting(p) ==
  /\ ~Purging(p) /\ cache[p]["meet"] = None
  /\ \E e \in IF breaker[p].open \/ Queried = {} THEN {Unknown} ELSE Earliest(Queried) :
       cache' = [cache EXCEPT ![p]["meet"] = e]
  /\ asOf' = IF breaker[p].open THEN asOf \ {p} ELSE asOf \cup {p}
  /\ UNCHANGED <<nodes, vectors, meet, writer, purger, breaker, tally, tied, drawn,
                 raced, purged, intact>>

ExplainEvent(p, e) ==
  /\ ~Purging(p) /\ cache[p][e] = None
  /\ cache' = [cache EXCEPT ![p][e] =
       IF breaker[p].open \/ e \notin Exists THEN Unknown
       ELSE IF event[e].shown THEN e ELSE Unknown]
  /\ UNCHANGED <<nodes, vectors, meet, writer, purger, breaker, tally, past>>

\* The store logs the error of either query and answers that it found nothing;
\* that is cached as any answer.
ExplainFails(p, key) ==
  /\ ~Purging(p) /\ cache[p][key] = None
  /\ cache' = [cache EXCEPT ![p][key] = Unknown]
  /\ asOf' = IF key = "meet" THEN asOf \ {p} ELSE asOf
  /\ UNCHANGED <<nodes, vectors, meet, writer, purger, breaker, tally, tied, drawn,
                 raced, purged, intact>>

\* The entry expires or is evicted.
Forget(p, key) ==
  /\ cache[p][key] # None
  /\ cache' = [cache EXCEPT ![p][key] = None]
  /\ asOf' = IF key = "meet" THEN asOf \ {p} ELSE asOf
  /\ UNCHANGED <<nodes, vectors, meet, writer, purger, breaker, tally, tied, drawn,
                 raced, purged, intact>>

GraphNext ==
  \/ \E e \in Events : Lapse(e)
  \/ \E p \in Pods :
      \/ \E src \in Sources, node \in Node : BeginUpsert(p, src, node)
      \/ Statement(p) \/ StatementFails(p) \/ WriteVectors(p) \/ VectorsFail(p)
      \/ BreakerCloses(p)
      \/ \E src \in Sources : BeginSourcePurge(p, src, TRUE, {})
      \/ \E src \in Sources, keep \in SUBSET Events : BeginSourcePurge(p, src, FALSE, keep)
      \/ Purge(p) \/ SourcePurgeFails(p)
      \/ BuildFirstMeetings(p) \/ ExplainFirstMeeting(p)
      \/ \E e \in Events : ExplainEvent(p, e)
      \/ \E key \in Events \cup {"meet"} : ExplainFails(p, key) \/ Forget(p, key)

GraphSpec == GraphInit /\ [][GraphNext]_graphVars

(***************************************************************************)
(* Properties.                                                             *)
(***************************************************************************)

GraphTypeOK ==
  /\ segs \subseteq Sources /\ event \in [Events -> Node \cup {None}]
  /\ facts \subseteq Events /\ edges \subseteq Edges /\ vectors \subseteq Events
  /\ meet \in Events \cup {None}
  /\ breaker \in [Pods -> [fails : 0 .. Threshold, open : BOOLEAN]]
  /\ cache \in [Pods -> [Events \cup {"meet"} -> Events \cup {None, Unknown}]]
  /\ \A edge \in edges : Ends(edge)

\* A purge that was cut or failed at any statement can be repeated: what it
\* has not deleted is still found.  No event loses the segment it was tied to,
\* and no fact the event it was drawn from, unless an upsert of the same events
\* ran during the purge.
PurgeCanResume ==
  \A e \in Events \ raced :
    /\ \A s \in Sources : e \in Exists /\ <<e, s>> \in tied => s \in segs
    /\ e \in drawn \cap facts => e \in Exists

\* An upsert that met no error left the request in the graph, as far as the gate
\* and the labels let it through: segment, facts, events, vectors and edges,
\* whatever failed upserts and purges had left of it before.  It stays until a
\* purge reaches one of its events.
UpsertIsWhole ==
  \A s \in intact :
    /\ s \in segs /\ About[s] \subseteq facts /\ Gated(s) \subseteq Exists \cap vectors
    /\ \A kind \in {"SUMMARIZES"} \cup Kinds : Wanted(s, kind) \subseteq edges

\* A pod never explains an event with what it knew before its own purge_source
\* removed the event.
PurgedIsUnknown ==
  \A p \in Pods, key \in Events \cup {"meet"} : cache[p][key] \notin purged[p]

\* The FIRST_MEET edge and the explanation of the first meeting are computed by
\* two queries.  As long as no event is written, deleted or lapses, they name
\* events of the same time - the answer of a query that failed, and that of an
\* open breaker, aside: those say "not found", and stay in the cache.
MeetingsAgree ==
  \A p \in Pods :
    {"edge", p} \subseteq asOf /\ cache[p]["meet"] # None =>
      /\ cache[p]["meet"] # Unknown
      /\ event[meet].at = event[cache[p]["meet"]].at

\* What explain answers, from the cache or the graph, is not refuted by this pod's
\* own purges or by the edge that build_first_meetings wrote.
ExplanationsAgree == PurgedIsUnknown /\ MeetingsAgree
=============================================================================
