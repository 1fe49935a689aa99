------------------------------ MODULE DialogGraph ------------------------------
(***************************************************************************)
(* What becomes of the turns of one session: stage 2 marks them and drops *)
(* some, session_write numbers those that are left, the extractor finds    *)
(* events and facts in them by the ids of the turns, the builder makes the *)
(* request for the graph, which is MERGEd into what earlier calls left; an *)
(* overwrite purges the events that are no longer there, and the vector    *)
(* index follows.  Nodes are named by their rank in the request, so two    *)
(* calls of a session write the same ones.                                 *)
(*                                                                         *)
(* A turn is its rank among the turns posted, which is its id (t0001) too. *)
(* How a call can fail between any two of its steps is in SessionWrite.    *)
(***************************************************************************)
EXTENDS Integers, Sequences, FiniteSets, FiniteSetsExt, Functions

CONSTANTS
  TurnCount,
  Speaker,        \* who says a turn
  Given,          \* the timestamp a turn is posted with, or Absent
  Now,            \* the time, in turns
  Blank,          \* turns without text
  Markings,       \* what the marking may answer: a kind of mark for each turn
  SegmentTurns,   \* turns of one prompt of the extractor
  SupportLimit,   \* turns an event may rest on
  Absent,
  MaxEvents, MaxFacts, MaxCalls, MaxFaults   \* bounds: of an extraction, of a run

Posted == 1..TurnCount
MarkKinds == {"none", "drop", "note", "fact", "rule", "preference", "save"}

ASSUME DialogAssumption ==
  /\ {TurnCount, SegmentTurns, SupportLimit} \subseteq Nat \ {0}
  /\ {MaxEvents, MaxFacts, MaxCalls, MaxFaults, Now} \subseteq Nat
  /\ DOMAIN Speaker = Posted /\ Given \in [Posted -> Nat \cup {Absent}]
  /\ Markings \subseteq [Posted -> MarkKinds]
  /\ Blank \subseteq Posted
  /\ \A m \in Markings, t \in Blank : m[t] \in {"none", "note"}   \* it is not shown them
  /\ Absent \notin Nat

VARIABLES
  step,      \* "idle", "extract", "upsert", "purge", "index"
  call,      \* the call in progress: its marks, its turns, what it extracted
  dialog,     \* utterances, events, facts and edges, each node by its rank
  index,     \* the vectors: utterance entries and facts
  marker,    \* the session's: its status, and the facts of a completed call
  calls, faults,
  fresh,     \* history: nothing was stored when the call in progress began
  swallowed, \* history: the graph did not take, or purge, all that its last call was to
  last       \* history: the last call that ended well, or Absent

dialogVars == <<step, call, dialog, index, marker, calls, faults, fresh, swallowed,
                last>>

NoCall  == [over |-> FALSE, marks |-> Absent, turns |-> <<>>, events |-> <<>>, facts |-> <<>>]
Nowhere == [utterances |-> <<>>, events |-> <<>>, facts |-> <<>>, edges |-> {}]

DialogInit ==
  /\ step = "idle" /\ call = NoCall
  /\ dialog = Nowhere /\ index = [utterances |-> <<>>, facts |-> <<>>]
  /\ marker = [status |-> "none", facts |-> {}]
  /\ calls = 0 /\ faults = 0 /\ fresh = TRUE /\ swallowed = FALSE /\ last = Absent

---------------------------------------------------------------------------
(* Stage 2: which turns are kept, and for how long what they say is. *)

Kept(kind) == kind \notin {"none", "drop"}

\* In days; 0 is for ever.
Days(kind)   == CASE kind \in {"rule", "preference", "save"} -> 0
                  [] kind = "fact" -> 180
                  [] OTHER         -> 30
Policy(kind) == CASE kind = "preference"       -> "until_changed"
                  [] kind \in {"rule", "save"} -> "permanent"
                  [] OTHER                     -> "temporary"

\* apply_turn_marks; when nothing is kept, everything is.
KeptTurns(marks) ==
  LET kept == {t \in Posted : Kept(marks[t])}
  IN  IF kept = {} THEN Posted ELSE kept

\* Turns stay in the order they were posted in.
InPostedOrder(turns) ==
  [i \in 1..Cardinality(turns) |-> CHOOSE t \in turns : Cardinality({s \in turns : s < t}) = i - 1]

\* _normalize_turns: what session_write numbers.
Numbered(turns) == InPostedOrder(turns \ Blank)

\* Turns the user asked to save make one more fact.
Saved(marks)  == {t \in Posted : marks[t] = "save"}
Pinned(marks) == IF Saved(marks) = {} THEN <<>> ELSE <<Saved(marks)>>

---------------------------------------------------------------------------
(* The extraction *)

Segment(turns, t) == ((CHOOSE u \in DOMAIN turns : turns[u] = t) - 1) \div SegmentTurns

\* Turns one answer of the LLM can name: those of its prompt.  Other ids are
\* taken out; a fact that is left without one is dropped, an event looks for
\* turns that are like it and is dropped when there are none.
Picks(turns) == {picked \in SUBSET Range(turns) : picked # {} /\
                   \A s, t \in picked : Segment(turns, s) = Segment(turns, t)}

\* _apply_event_policy: an event rests on the first of the turns it names.
EventsIn(turns) ==
  UNION {{[about |-> picked, rests |-> rests] : rests \in
            {sub \in SUBSET picked : Cardinality(sub) = Min({SupportLimit, Cardinality(picked)})}} :
           picked \in Picks(turns)}

\* The answers are joined in the order of the segments, whichever came first.
InOrder(turns, picked) == \A i, k \in DOMAIN picked :
  i < k => Segment(turns, Max(picked[i])) <= Segment(turns, Max(picked[k]))

ListsOf(S, n) == UNION {[1..k -> S] : k \in 0..n}
EventLists(turns) == {events \in ListsOf(EventsIn(turns), MaxEvents) :
                        InOrder(turns, [i \in DOMAIN events |-> events[i].about])}
FactLists(turns)  == {facts \in ListsOf(Picks(turns), MaxFacts) : InOrder(turns, facts)}

---------------------------------------------------------------------------
(* How long a fact is kept *)

\* _apply_marks_to_facts takes the number in a turn's id for the turn's place
\* among those that are left.
MarksOf(turns, marks, about) ==
  {marks[turns[t]] : t \in {t \in about : t \in DOMAIN turns}} \ {"none"}

\* _merge_ttl_seconds: the shortest, if any of them ends.
Merged(kinds) ==
  LET ending == {Days(kind) : kind \in kinds} \ {0}
  IN  IF kinds = {} THEN Absent ELSE IF ending = {} THEN 0 ELSE Min(ending)

MergedPolicy(kinds) ==
  LET all == {Policy(kind) : kind \in kinds}
  IN  IF all = {} THEN Absent
      ELSE IF "until_changed" \in all THEN "until_changed"
      ELSE IF "permanent" \in all THEN "permanent" ELSE "temporary"

Fact(turns, marks, about) ==
  LET kinds == MarksOf(turns, marks, about)
  IN  [about |-> about, days |-> Merged(kinds), policy |-> MergedPolicy(kinds)]

---------------------------------------------------------------------------
(* The builder *)

MutantPlace(turns, t) ==
  IF t \in DOMAIN turns THEN t ELSE CHOOSE u \in DOMAIN turns : turns[u] = t
\* _parse_turn_index_from_source_id: a turn's place is looked up by its id; the
\* number in the id is used for one that is not there.
Place(turns, t) ==
  IF t \in Range(turns) THEN CHOOSE u \in DOMAIN turns : turns[u] = t
  ELSE IF t \in DOMAIN turns THEN t ELSE Absent
Places(turns, picked) == {Place(turns, t) : t \in picked} \ {Absent}

\* _fill_turn_timestamps: turns without a time are counted from the first that
\* has one, a minute each.
Reference(turns) ==
  LET timed == {u \in DOMAIN turns : Given[turns[u]] # Absent}
  IN  IF timed = {} THEN Now ELSE Given[turns[Min(timed)]] - (Min(timed) - 1)
TimeAt(turns, u) ==
  IF Given[turns[u]] # Absent THEN Given[turns[u]] ELSE Reference(turns) + (u - 1)
StartsAt(turns, picked) == Min({TimeAt(turns, u) : u \in Places(turns, picked)})

EventNode(turns, ev) ==
  LET times == {TimeAt(turns, u) : u \in Places(turns, ev.rests)}
  IN  [about |-> ev.about, rests |-> ev.rests, from |-> Min(times), to |-> Max(times)]

SupportedBy(c) == UNION {{<<"event", i, u>> : u \in Places(c.turns, c.events[i].rests)} :
                          i \in DOMAIN c.events}
Involves(c) == UNION {{<<"involves", i, Speaker[c.turns[u]]>> :
                         u \in Places(c.turns, c.events[i].rests)} : i \in DOMAIN c.events}
SpokenBy(c) == {<<"spoken", u, Speaker[c.turns[u]]>> : u \in DOMAIN c.turns}

\* NEXT_EVENT: by the start, then the first turn, then the order they came in.
Precedes(c, i, k) ==
  LET start(e) == StartsAt(c.turns, c.events[e].rests)
      first(e) == Min(Places(c.turns, c.events[e].rests))
  IN  \/ start(i) < start(k)
      \/ start(i) = start(k) /\ first(i) < first(k)
      \/ start(i) = start(k) /\ first(i) = first(k) /\ i < k
NextEvent(c) ==
  {<<"next", link[1], link[2]>> : link \in {pair \in (DOMAIN c.events) \X (DOMAIN c.events) :
     /\ Precedes(c, pair[1], pair[2])
     /\ ~\E j \in DOMAIN c.events : Precedes(c, pair[1], j) /\ Precedes(c, j, pair[2])}}

FactPlaces(c, j) == Places(c.turns, c.facts[j].about)
FactEdges(c) ==
  UNION {{<<"fact", j, u>> : u \in FactPlaces(c, j)} \cup
         {<<"stated", j, Speaker[c.turns[u]]>> : u \in FactPlaces(c, j)} :
           j \in DOMAIN c.facts}

\* A fact is derived from the events that share a turn with it.
Derived(c, j, i) == FactPlaces(c, j) \cap Places(c.turns, c.events[i].rests) # {}
DerivedFrom(c) ==
  {<<"derived", link[1], link[2]>> : link \in
     {pair \in (DOMAIN c.facts) \X (DOMAIN c.events) : Derived(c, pair[1], pair[2])}}

Request(c) ==
  [utterances |-> c.turns,
   events     |-> [i \in DOMAIN c.events |-> EventNode(c.turns, c.events[i])],
   facts      |-> c.facts,
   edges      |-> SupportedBy(c) \cup Involves(c) \cup SpokenBy(c) \cup NextEvent(c)
                  \cup FactEdges(c) \cup DerivedFrom(c)]

\* The entry of an utterance names the events that rest on it.
IndexEntries(c) ==
  [u \in DOMAIN c.turns |->
     [turn   |-> c.turns[u],
      events |-> {i \in DOMAIN c.events : <<"event", i, u>> \in SupportedBy(c)}]]

---------------------------------------------------------------------------
(* One call *)

\* A completed session is not written again unless it is overwritten.
Begin(over, marks) ==
  LET turns == Numbered(KeptTurns(marks))
  IN  /\ step = "idle" /\ calls < MaxCalls
      /\ over \/ marker.status # "completed"
      /\ turns # <<>>
      /\ calls' = calls + 1 /\ step' = "extract"
      /\ call' = [NoCall EXCEPT !.over = over, !.marks = marks, !.turns = turns]
      /\ fresh' = (dialog = Nowhere) /\ swallowed' = FALSE
      /\ UNCHANGED <<dialog, index, marker, faults, last>>

Extract ==
  /\ step = "extract" /\ step' = "upsert"
  /\ \E events \in EventLists(call.turns), found \in FactLists(call.turns) :
       LET facts == found \o Pinned(call.marks)
       IN  call' = [call EXCEPT
             !.events = events,
             !.facts  = [j \in DOMAIN facts |-> Fact(call.turns, call.marks, facts[j])]]
  /\ UNCHANGED <<dialog, index, marker, calls, faults, fresh, swallowed, last>>

\* What is new takes the place of what had its rank before.
Onto(new, old) ==
  [x \in DOMAIN new \cup DOMAIN old |-> IF x \in DOMAIN new THEN new[x] ELSE old[x]]

\* upsert_graph_v0 and purge_source_except_events log their errors, and do
\* nothing while the breaker is open: the call goes on.
Works     == UNCHANGED <<faults, swallowed>>
Swallowed == faults < MaxFaults /\ faults' = faults + 1 /\ swallowed' = TRUE

\* upsert_graph_v0 MERGEs the nodes and then the edges: what was there and is
\* not in the request stays.
Merge(req) ==
  [utterances |-> Onto(req.utterances, dialog.utterances),
   events     |-> Onto(req.events, dialog.events),
   facts      |-> Onto(req.facts, dialog.facts),
   edges      |-> req.edges \cup dialog.edges]
Upsert ==
  LET req == Request(call)
  IN  /\ step = "upsert" /\ step' = IF call.over THEN "purge" ELSE "index"
      /\ \/ dialog' = Merge(req) /\ Works
         \/ dialog' \in {dialog, Merge([req EXCEPT !.edges = {}])} /\ Swallowed
      /\ UNCHANGED <<call, index, marker, calls, fresh, last>>

\* An edge touches a node of a kind by its first or its second end.
Touches(edge, events, facts) ==
  CASE edge[1] \in {"event", "involves"} -> edge[2] \in events
    [] edge[1] = "next"                  -> edge[2] \in events \/ edge[3] \in events
    [] edge[1] = "derived"               -> edge[2] \in facts \/ edge[3] \in events
    [] edge[1] \in {"fact", "stated"}    -> edge[2] \in facts
    [] OTHER                             -> FALSE

MutantDropped(keep) == IF keep = {} THEN {} ELSE DOMAIN dialog.events \ keep
\* Without events to keep none are.
Dropped(keep) == DOMAIN dialog.events \ keep

Without(events, facts) ==
  [dialog EXCEPT !.events = Restrict(@, DOMAIN @ \ events),
                 !.facts  = Restrict(@, DOMAIN @ \ facts),
                 !.edges  = {edge \in @ : ~Touches(edge, events, facts)}]

\* purge_source_except_events: every fact with an edge to an event that is not
\* in the new request, and then these events.
Purge ==
  LET events == Dropped(DOMAIN call.events)
      facts  == {edge[2] : edge \in {edge \in dialog.edges :
                                       edge[1] = "derived" /\ edge[3] \in events}}
  IN  /\ step = "purge" /\ step' = "index"
      /\ \/ dialog' = Without(events, facts) /\ Works
         \/ dialog' \in {dialog, Without({}, facts)} /\ Swallowed
      /\ UNCHANGED <<call, index, marker, calls, fresh, last>>

\* The vectors, the facts of the version before that are no longer there, and
\* the marker.
Index ==
  LET stale == IF call.over THEN marker.facts \ DOMAIN call.facts ELSE {}
  IN  /\ step = "index" /\ step' = "idle"
      /\ index' = [utterances |-> Onto(IndexEntries(call), index.utterances),
                   facts |-> Restrict(Onto(call.facts, index.facts),
                                      (DOMAIN call.facts \cup DOMAIN index.facts) \ stale)]
      /\ marker' = [status |-> "completed", facts |-> DOMAIN call.facts]
      /\ last' = call /\ call' = NoCall
      /\ UNCHANGED <<dialog, calls, faults, fresh, swallowed>>

\* A step fails: what was written stays, and the marker forgets its facts.
Fail ==
  /\ step \in {"extract", "upsert", "purge", "index"} /\ faults < MaxFaults
  /\ faults' = faults + 1 /\ step' = "idle" /\ call' = NoCall
  /\ marker' = [status |-> "failed", facts |-> {}] /\ last' = Absent
  /\ UNCHANGED <<dialog, index, calls, fresh, swallowed>>

DialogNext ==
  \/ \E over \in BOOLEAN, marks \in Markings : Begin(over, marks)
  \/ Extract \/ Upsert \/ Purge \/ Index \/ Fail
DialogSpec == DialogInit /\ [][DialogNext]_dialogVars

---------------------------------------------------------------------------
(* Properties *)

Done == step = "idle" /\ last # Absent
Stored == Done /\ ~swallowed          \* ... and the graph did all it was told
Said(edges, kind, n) == {dialog.utterances[edge[3]] : edge \in
                           {edge \in edges : edge[1] = kind /\ edge[2] = n}}

\* A session that is written for the first time can be read back from the
\* graph: an event rests on the turns it was found in, whatever was dropped
\* before the turns were numbered ...
EventsRest == \A i \in DOMAIN last.events :
  /\ i \in DOMAIN dialog.events
  /\ Said(dialog.edges, "event", i) = last.events[i].rests
\* ... a fact on its own, and on the events that rest on one of them ...
FactsRest == \A j \in DOMAIN last.facts :
  /\ j \in DOMAIN dialog.facts
  /\ Said(dialog.edges, "fact", j) = last.facts[j].about
  /\ \A i \in DOMAIN last.events :
       <<"derived", j, i>> \in dialog.edges
         <=> last.facts[j].about \cap last.events[i].rests # {}
\* ... the chain of the events has one beginning and one end, and time does not
\* run backwards on it ...
ChainInOrder ==
  LET links == {edge \in dialog.edges : edge[1] = "next"}
  IN  /\ Cardinality(links) = Max({0, Cardinality(DOMAIN last.events) - 1})
      /\ \A one, two \in links : (one[2] = two[2]) = (one[3] = two[3])
      /\ \A link \in links : /\ link[2] # link[3]
                             /\ dialog.events[link[2]].from <= dialog.events[link[3]].from
\* ... and the vector of a turn names the events that rest on it.
IndexAgrees == \A u \in DOMAIN last.turns :
  LET entry == index.utterances[u]
  IN  /\ entry.turn = dialog.utterances[u]
      /\ entry.events = {i \in DOMAIN last.events : entry.turn \in last.events[i].rests}
\* (build_dialog_graph_upsert_v1 and the utterance index)
GraphIsFaithful ==
  Stored /\ fresh => EventsRest /\ FactsRest /\ ChainInOrder /\ IndexAgrees

\* A fact lives as long as its own turns say, in the graph as in the vectors:
\* it ends with the first of them that does, and what the user asked to save
\* never ends.  (_apply_marks_to_facts goes by the numbers in the ids: this is
\* about facts of turns no turn before which was dropped.)
InPlace(c, about) == \A t \in about : t \in DOMAIN c.turns /\ c.turns[t] = t
LifetimesAreOwn ==
  Done => \A j \in DOMAIN last.facts :
    LET own == {Days(last.marks[t]) : t \in {t \in last.facts[j].about : last.marks[t] # "none"}}
    IN  InPlace(last, last.facts[j].about) =>
          /\ last.facts[j].days = 0 => own = {0}
          /\ last.facts[j].days \notin {0, Absent} => last.facts[j].days \in own
          /\ \A d \in own : d = 0 \/ last.facts[j].days \in 1..d
          /\ last.facts[j].days = Absent => own = {}
          /\ index.facts[j].days = last.facts[j].days

\* What a finished call leaves says of every event and fact where it is from and
\* how long it lives.
SessionIsFaithful == GraphIsFaithful /\ LifetimesAreOwn

\* An overwrite whose statements the graph carried out leaves the events of its
\* own extraction and no others, also when that found none and whatever was left
\* by calls that failed or were not carried out.  (purge_source_except_events)
OverwriteReplaces ==
  Stored /\ last.over => DOMAIN dialog.events = DOMAIN last.events

\* "Extracted facts must be traceable back to specific turns/events": the facts
\* of the last version are in the graph, which did all it was told.
FactsAreTraceable ==
  Stored => DOMAIN last.facts \subseteq DOMAIN dialog.facts
================================================================================
