----------------------------- MODULE GraphUpkeep -----------------------------
(***************************************************************************)
(* What happens to the graph of a tenant after its upserts: nodes are      *)
(* rewritten, published, hidden and expire; an administrator has derived   *)
(* edges and time slices built from them (/graph/v0/admin), has what is    *)
(* expired cleaned up and exports the edges page by page; and the reads of *)
(* /graph/v0 each filter the nodes in a query of their own.                *)
(*                                                                         *)
(* A build reads the graph in one statement and writes in later ones, each *)
(* committed on its own.  It blocks its own pod: what comes between is the *)
(* work of the other pods.  Answers that their LIMIT cuts are left out,    *)
(* except the rows of build_event_relations and the pages of the export.   *)
(***************************************************************************)
EXTENDS Naturals, FiniteSets, Sequences

CONSTANTS
  Events, Segments, Evidences, Utterances, Entities, Locations, Facts,
  Spans,       \* time slices that upserts bring
  Told,        \* the edges the upserts write, as <<type, from, to>>
  Rank,        \* the order of the ids, where 0 is before them all
  Times,       \* of events, where 0 is "undated", and the starts of segments
  Widths,      \* the window_seconds that are asked for
  Fixed,       \* the widths of the other modes, "hour" and "day"
  RowLimit, PageLimit,
  TtlDays,     \* GRAPH_TTL_DEFAULT_DAYS
  None,
  MaxOps       \* bound: upserts, publications and builds begun

WidthOf(mode, w) == IF mode = "media" THEN w ELSE Fixed[mode]
Modes   == {"media"} \cup DOMAIN Fixed
Numbers == {t \div WidthOf(mode, w) : t \in Times, mode \in Modes, w \in Widths}
Slices  == Modes \X Numbers
Upserted == Events \cup Segments \cup Evidences \cup Utterances \cup Entities
             \cup Locations \cup Facts \cup Spans
Nodes   == Upserted \cup Slices

\* What an edge of each type leads from and to.
Labels ==
  [SUMMARIZES |-> Events \X Segments,  INVOLVES   |-> Events \X Entities,
   OCCURS_AT  |-> Events \X Locations, NEXT_EVENT |-> Events \X Events,
   CAUSES     |-> Events \X Events,    SPOKEN_BY  |-> Utterances \X Entities,
   BELONGS_TO_ENTITY |-> Evidences \X Entities,
   SUPPORTED_BY |-> (Events \cup Utterances \cup Facts) \X (Evidences \cup Utterances),
   COVERS_SEGMENT |-> (Spans \cup Slices) \X Segments, COVERS_EVENT |-> Spans \X Events,
   DERIVED_FROM   |-> Facts \X Events,                STATED_BY    |-> Facts \X Entities]
Edge == {edge \in (DOMAIN Labels) \X Nodes \X Nodes : <<edge[2], edge[3]>> \in Labels[edge[1]]}

Node == [at : Nat, to : Nat, shown : BOOLEAN, life : {"forever", "live", "expired"}]

ASSUME UpkeepAssumption ==
  /\ LET kinds == <<Events, Segments, Evidences, Utterances, Entities, Locations, Facts,
                    Spans, Slices>>
     IN  \A i, j \in DOMAIN kinds : i # j => kinds[i] \cap kinds[j] = {}
  /\ IsFiniteSet(Events) /\ IsFiniteSet(Segments) /\ IsFiniteSet(Locations)
  /\ Told \subseteq Edge /\ None \notin Nodes \cup Node
  /\ Rank \in [Nodes -> Nat \ {0}] /\ Times \subseteq Nat
  /\ Widths \subseteq Nat \ {0} /\ Fixed \in [DOMAIN Fixed -> Nat \ {0}]
  /\ RowLimit \in Nat /\ PageLimit \in Nat \ {0} /\ TtlDays \in Nat /\ MaxOps \in Nat

VARIABLES
  body,      \* the nodes, or None
  derived,   \* the edges that builds made, as <<type, from, to>>
  build,     \* the build that runs: what it has to write
  export,    \* the walk of a client over the pages
  ops,
  moved,     \* history: nodes that an upsert gave another time
  linked     \* history: relations built from all events, and no event written since

upkeepVars == <<body, derived, build, export, ops, moved, linked>>

There(n) == body[n] # None
Shown(n) == There(n) /\ body[n].shown
\* ... WHERE n.expires_at IS NULL OR n.expires_at > datetime()
Fresh(n) == There(n) /\ body[n].life \in {"forever", "live"}
Seen(n)  == Shown(n) /\ Fresh(n)

\* An upsert writes its edges with its nodes.
Edges == {edge \in Told : There(edge[2]) /\ There(edge[3])} \cup derived
To(type, n)   == {edge[3] : edge \in {edge \in Edges : edge[1] = type /\ edge[2] = n}}
From(type, n) == {edge[2] : edge \in {edge \in Edges : edge[1] = type /\ edge[3] = n}}

NoBuild  == [todo |-> <<>>, all |-> FALSE]
NoExport == [on |-> FALSE, after |-> 0, got |-> {}, since |-> {}, cut |-> {}]

UpkeepInit ==
  /\ body = [n \in Nodes |-> None] /\ derived = {}
  /\ build = NoBuild /\ export = NoExport /\ ops = 0
  /\ moved = {} /\ linked = FALSE

(***************************************************************************)
(* Upserts, publication and time.                                          *)
(***************************************************************************)

\* With a default, every node gets a ttl and an expires_at; without, one that
\* brings no expires_at of its own expires in the year 9999.
Stamped(own) == IF own \/ TtlDays > 0 THEN "live" ELSE "forever"

EventsWritten(ns) ==
  /\ linked' = (linked /\ ns \cap Events = {})
  /\ build' = [build EXCEPT !.all = @ /\ ns \cap Events = {}]

\* SET n += with every field of the model: what a request leaves out is removed,
\* and a node without published is a published one.
Upsert(n, t, shown, own) ==
  /\ n \in Upserted /\ ops < MaxOps /\ ops' = ops + 1
  /\ body' = [body EXCEPT ![n] = [at |-> t, to |-> t, shown |-> shown, life |-> Stamped(own)]]
  /\ moved' = IF There(n) /\ body[n].at # t THEN moved \cup {n} ELSE moved
  /\ EventsWritten({n})
  /\ UNCHANGED <<derived, export>>

SetPublished(ns, shown) ==
  /\ ops < MaxOps /\ ops' = ops + 1
  /\ body' = [n \in Nodes |-> IF n \in ns /\ There(n)
                              THEN [body[n] EXCEPT !.shown = shown] ELSE body[n]]
  /\ EventsWritten(ns)
  /\ UNCHANGED <<derived, export, moved>>

\* expires_at passes.
TimePasses(n) ==
  /\ There(n) /\ body[n].life = "live"
  /\ body' = [body EXCEPT ![n].life = "expired"]
  /\ UNCHANGED <<derived, build, export, ops, moved, linked>>

\* The query has {seconds: ...} in it and is given to str.format: the error is
\* logged, nothing is deleted and the answer is ok.
CleanupExpired == UNCHANGED upkeepVars

(***************************************************************************)
(* build_event_relations.                                                  *)
(***************************************************************************)

\* One row for each segment and place of an event, with or without one.
OrNone(ns) == IF ns = {} THEN {None} ELSE ns
Rows(place, sourced) ==
  {row \in UNION {{e} \X OrNone(To("SUMMARIZES", e)) \X OrNone(To("OCCURS_AT", e))
                  : e \in {e \in Events : Shown(e)}} :
     /\ sourced => row[2] # None
     /\ place # None => row[3] = place}

\* ORDER BY t_abs_start ASC: the undated last, and ties in any order.
MutantLater(a, b) == body[b].at # 0 /\ (body[a].at = 0 \/ body[a].at < body[b].at)
Later(a, b) == body[b].at # 0 /\ (body[a].at = 0 \/ body[a].at > body[b].at)
InOrder(rows) ==
  {order \in [1 .. Cardinality(rows) -> rows] :
     /\ \A row \in rows : \E i \in DOMAIN order : order[i] = row
     /\ \A i, j \in DOMAIN order : i < j => ~Later(order[i][1], order[j][1])}

\* Of the rows up to the limit the dated are taken: they come first.
Taken(order) == {i \in DOMAIN order : i <= RowLimit /\ body[order[i][1]].at # 0}

Pairs(type, order) ==
  {<<type, order[i][1], order[i + 1][1]>> :
     i \in {i \in Taken(order) :
              /\ i + 1 \in Taken(order)
              /\ type = "CAUSES" => order[i][3] # None /\ order[i][3] = order[i + 1][3]}}

\* The edges are computed before the first is written.
Idle == build.todo = <<>>
BuildEventRelations(place, sourced, causes) ==
  /\ Idle /\ ops < MaxOps /\ ops' = ops + 1
  /\ \E order \in InOrder(Rows(place, sourced)) :
       LET nexts == Pairs("NEXT_EVENT", order)
           more  == IF causes THEN Pairs("CAUSES", order) ELSE {}
       IN  build' = [todo |-> IF nexts = {} THEN <<>>
                              ELSE IF more = {} THEN <<nexts>> ELSE <<nexts, more>>,
                     all  |-> place = None /\ ~sourced /\ Len(order) <= RowLimit]
  /\ UNCHANGED <<body, derived, export, moved, linked>>

(***************************************************************************)
(* build_time_slices_from_segments.  A slice's id is the number of its     *)
(* window, whatever the width; hidden and expired segments count.          *)
(***************************************************************************)
MutantSliceOf(s, mode, w) == <<mode, (body[s].at + 1) \div WidthOf(mode, w)>>
SliceOf(s, mode, w) == <<mode, body[s].at \div WidthOf(mode, w)>>
Window(i, w) ==
  LET width == WidthOf(i[1], w)
  IN  [at |-> i[2] * width, to |-> (i[2] + 1) * width, shown |-> TRUE, life |-> "forever"]

\* The slices are written as by an upsert without defaults: what was hidden or
\* had expired is there again.
BuildTimeSlices(modes, w) ==
  LET covers == {<<"COVERS_SEGMENT", SliceOf(s, mode, w), s>> :
                   s \in {s \in Segments : There(s)}, mode \in modes}
      slices == {edge[2] : edge \in covers}
  IN  /\ Idle /\ ops < MaxOps /\ ops' = ops + 1 /\ covers # {}
      /\ body' = [n \in Nodes |-> IF n \in slices THEN Window(n, w) ELSE body[n]]
      /\ build' = [todo |-> <<covers>>, all |-> FALSE]
      /\ UNCHANGED <<derived, export, moved, linked>>

\* One statement for each type of edge, in this order.
WriteEdges ==
  /\ ~Idle
  /\ derived' = derived \cup Head(build.todo)
  /\ linked' = (linked \/ build.all)
  /\ build' = [build EXCEPT !.todo = Tail(@)]
  /\ UNCHANGED <<body, export, ops, moved>>

\* The error is logged and the answer is a count of zeros.
BuildFails ==
  /\ ~Idle
  /\ build' = NoBuild
  /\ UNCHANGED <<body, derived, export, ops, moved, linked>>

(***************************************************************************)
(* export_srot: the edges in the order of their subjects, ties in any      *)
(* order; the cursor is the last subject of a full page, exclusive.        *)
(***************************************************************************)
Subject(edge) == Rank[edge[2]]
Rest  == {edge \in Edges : Subject(edge) > export.after}
OfLimit(page) ==
  \/ Cardinality(page) = PageLimit
  \/ Cardinality(page) < PageLimit /\ page = Rest
MutantIsPage(page) == OfLimit(page)
IsPage(page) ==
  OfLimit(page) /\ \A edge \in page, left \in Rest \ page : Subject(edge) <= Subject(left)

BeginExport ==
  /\ ~export.on
  /\ export' = [NoExport EXCEPT !.on = TRUE, !.since = Edges]
  /\ UNCHANGED <<body, derived, build, ops, moved, linked>>

ExportPage ==
  /\ export.on
  /\ \E page \in SUBSET Rest :
       /\ IsPage(page)
       /\ IF Cardinality(page) = PageLimit
          THEN \E last \in {Subject(edge) : edge \in page} :
                 /\ \A edge \in page : Subject(edge) <= last
                 /\ export' = [export EXCEPT !.after = last, !.got = @ \cup page,
                                            !.cut = @ \cup {last}]
          ELSE export' = [export EXCEPT !.on = FALSE, !.got = @ \cup page]
  /\ UNCHANGED <<body, derived, build, ops, moved, linked>>

(***************************************************************************)
(* The reads: the nodes each answer names.                                 *)
(***************************************************************************)
SeenOf(ns)  == {n \in ns : Seen(n)}
ShownOf(ns) == {n \in ns : Shown(n)}

ListSegments == SeenOf(Segments)
ListTimeSlices(i) ==
  IF Seen(i) THEN SeenOf(To("COVERS_SEGMENT", i) \cup To("COVERS_EVENT", i)) ELSE {}

MutantEventDetail(e) ==
  IF ~Shown(e) THEN {}
  ELSE {e} \cup SeenOf(To("SUMMARIZES", e) \cup From("COVERS_EVENT", e))
EventDetail(e) ==
  IF ~Seen(e) THEN {}
  ELSE {e} \cup SeenOf(To("SUMMARIZES", e) \cup From("COVERS_EVENT", e))
           \cup ShownOf(To("INVOLVES", e) \cup To("OCCURS_AT", e)
                        \cup (To("SUPPORTED_BY", e) \cap Evidences)
                        \cup To("NEXT_EVENT", e) \cup To("CAUSES", e))

\* The chain of an event: its utterances bring their voices and their speakers,
\* its facts the entities that state them and the utterances they rest on.
EventEvidence(e) ==
  LET utterances == SeenOf(To("SUPPORTED_BY", e) \cap Utterances)
      facts      == SeenOf(From("DERIVED_FROM", e))
  IN  IF ~Seen(e) THEN {}
      ELSE {e} \cup utterances \cup facts
               \cup ShownOf(To("INVOLVES", e))
               \cup SeenOf(To("OCCURS_AT", e) \cup (To("SUPPORTED_BY", e) \cap Evidences)
                           \cup From("COVERS_EVENT", e))
               \cup SeenOf(UNION {To("SUPPORTED_BY", u) \cap Evidences : u \in utterances})
               \cup ShownOf(UNION {To("STATED_BY", k) : k \in facts})
               \cup ShownOf(UNION {To("SUPPORTED_BY", k) \cap Utterances : k \in facts})
Speakers(e) ==
  ShownOf(UNION {To("SPOKEN_BY", u) :
                   u \in IF Seen(e) THEN SeenOf(To("SUPPORTED_BY", e) \cap Utterances) ELSE {}})

\* The events of a place, and through them their segments and slices.
EventsAt(p) == SeenOf(From("OCCURS_AT", p) \cap Events)
Around(p) ==
  SeenOf(UNION {To("SUMMARIZES", e) \cup From("COVERS_EVENT", e) : e \in EventsAt(p)})
PlaceDetail(p) == IF Seen(p) THEN EventsAt(p) \cup Around(p) ELSE {}
ListPlaces == [p \in {p \in Locations : Seen(p)} |-> Around(p)]

EntityEvidences(x) ==
  IF Shown(x) THEN SeenOf(From("BELONGS_TO_ENTITY", x)) ELSE {}
EntityTimeline(x) ==
  IF Shown(x) THEN SeenOf(From("BELONGS_TO_ENTITY", x)) \cup SeenOf(From("SPOKEN_BY", x))
  ELSE {}

\* Knowledge stated by an entity, whatever has become of the entity.
EntityFacts(x) ==
  LET facts == SeenOf(From("STATED_BY", x))
  IN  facts \cup SeenOf(UNION {To("DERIVED_FROM", k) \cap Events : k \in facts})

\* expand_neighbors follows any edge forward, two over any node between; only
\* the node at the end must not be hidden.
Out(n) == {edge[3] : edge \in {edge \in Edges : edge[2] = n}}
Neighbors(n, hops) ==
  ShownOf(Out(n) \cup IF hops >= 2 THEN (UNION {Out(m) : m \in Out(n)}) \ {n} ELSE {})

\* The endpoints answer 404 to an empty detail.
Answered(found) == IF found = {} THEN 404 ELSE 200
GetEvent(e)     == Answered(EventDetail(e))
ExplainEvent(e) == Answered(EventEvidence(e))
GetPlace(p)     == Answered(PlaceDetail(p))

\* The writes to some of the nodes, and what administrators start.
Writes(ns) ==
  \/ \E n \in ns, t \in Times, shown, own \in BOOLEAN : Upsert(n, t, shown, own)
  \/ \E n \in ns, shown \in BOOLEAN : SetPublished({n}, shown)
Aging == \E n \in Nodes : TimePasses(n)
Relations ==
  \E place \in Locations \cup {None}, sourced, causes \in BOOLEAN :
    BuildEventRelations(place, sourced, causes)
Slicing == \E modes \in SUBSET Modes, w \in Widths : BuildTimeSlices(modes, w)
Building == WriteEdges \/ BuildFails
Exporting == BeginExport \/ ExportPage

UpkeepNext ==
  Writes(Nodes) \/ Aging \/ Relations \/ Slicing \/ Building \/ CleanupExpired \/ Exporting

UpkeepSpec == UpkeepInit /\ [][UpkeepNext]_upkeepVars

(***************************************************************************)
(* Properties.                                                             *)
(***************************************************************************)

\* Whatever is rewritten between and during the builds: a NEXT_EVENT edge never
\* leads back in time, unless an end has got another date since; a CAUSES edge
\* joins events that are also next to each other; and once all events were read
\* and none was written since, those adjacent in time are linked.
LinksKeepTime ==
  /\ \A a, b \in Events \ moved : <<"NEXT_EVENT", a, b>> \in derived =>
       body[a].at # 0 /\ body[b].at # 0 /\ body[a].at <= body[b].at
  /\ \A a, b \in Events :
       <<"CAUSES", a, b>> \in derived => <<"NEXT_EVENT", a, b>> \in derived
  /\ linked =>
       LET dated == {e \in Events : Shown(e) /\ body[e].at # 0}
           At(t) == {e \in dated : body[e].at = t}
       IN  \A a, b \in dated :
             body[a].at < body[b].at
               /\ (\A c \in dated : body[c].at <= body[a].at \/ body[c].at >= body[b].at)
             => \E c \in At(body[a].at), d \in At(body[b].at) :
                  <<"NEXT_EVENT", c, d>> \in derived

\* The same width is asked for every time.
OneWidth == \A v, w \in Widths : v = w

\* A segment begins within every slice that covers it, unless an upsert has
\* moved it since.
CoveredBeginInside ==
  \A i \in Slices, s \in Segments \ moved :
    <<"COVERS_SEGMENT", i, s>> \in derived =>
      body[i].at <= body[s].at /\ body[s].at < body[i].to

\* An edge that was there when the walk began is on a page, whatever is built
\* meanwhile, or its subject is one at which a full page ended.
ExportMissesOnlyCut ==
  \A edge \in export.since :
    \/ export.on /\ Subject(edge) > export.after
    \/ edge \in export.got
    \/ Subject(edge) \in export.cut

\* The answers name nothing that is hidden, and they agree: where one names a
\* node, the answer about that node names the first.
ReadsAgree ==
  LET Known(ns) == {n \in ns : There(n)}
  IN  /\ UNION ({EventDetail(e) \cup EventEvidence(e) \cup Speakers(e) \cup Neighbors(e, 2)
                  : e \in Known(Events)}
                \cup {EntityTimeline(x) \cup EntityFacts(x) : x \in Known(Entities)}
                \cup {PlaceDetail(p) : p \in Known(Locations)})
         \subseteq {n \in Nodes : Shown(n)}
      /\ \A e \in Known(Events) :
           LET detail == EventDetail(e)
               chain  == EventEvidence(e)
           IN  /\ GetEvent(e) = ExplainEvent(e)
               /\ detail \cap Spans = chain \cap Spans
               /\ detail \cap Entities \subseteq chain
               /\ detail \ ({e} \cup Spans) \subseteq Neighbors(e, 1)
               /\ \A i \in Spans : e \in ListTimeSlices(i) <=> i \in detail
               /\ \A p \in Locations :
                    /\ e \in PlaceDetail(p) <=> Fresh(p) /\ p \in detail
                    /\ e \in PlaceDetail(p) =>
                         detail \cap (Spans \cup Segments) \subseteq PlaceDetail(p)
               /\ \A k \in Facts, x \in Entities :
                    Shown(x) /\ {k, e} \subseteq EntityFacts(x)
                      /\ <<"DERIVED_FROM", k, e>> \in Edges =>
                      {k, x} \subseteq chain
      /\ \A p \in Known(Locations) : GetPlace(p) = 200 => p \in DOMAIN ListPlaces
      /\ \A x \in Known(Entities) : EntityEvidences(x) = EntityTimeline(x) \cap Evidences
      /\ \A i \in Known(Nodes) : ListTimeSlices(i) \cap Segments \subseteq ListSegments
=============================================================================
