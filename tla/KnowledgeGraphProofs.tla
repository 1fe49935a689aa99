---------------------- MODULE KnowledgeGraphProofs ----------------------
(***************************************************************************)
(* What the event graph keeps for every number of pods, sources and        *)
(* events, and every number of upserts, purges and failed statements.  The *)
(* statements of an upsert and of a purge interleave freely: what the      *)
(* proofs rest on is that the two begin after one another, so that either  *)
(* finds the other running when their events meet (Apart).                 *)
(***************************************************************************)
EXTENDS KnowledgeGraph, TLAPS

-----------------------------------------------------------------------------
(* Types.                                                                  *)

\* What is left of an upsert, from the last statement to the first.
Last1 == <<"vectors">>
Last2 == <<"DERIVED_FROM", "vectors">>
Last3 == <<"INVOLVES", "DERIVED_FROM", "vectors">>
Last4 == <<"SUMMARIZES", "INVOLVES", "DERIVED_FROM", "vectors">>
Last5 == <<"facts", "SUMMARIZES", "INVOLVES", "DERIVED_FROM", "vectors">>
Last6 == <<"events", "facts", "SUMMARIZES", "INVOLVES", "DERIVED_FROM", "vectors">>
Last7 == <<"segments", "events", "facts", "SUMMARIZES", "INVOLVES", "DERIVED_FROM", "vectors">>

AfterDerived  == {Last1}
AfterInvolves == AfterDerived \cup {Last2}
AfterTies     == AfterInvolves \cup {Last3}
AfterFacts    == AfterTies \cup {Last4}
AfterEvents   == AfterFacts \cup {Last5}
AfterSegments == AfterEvents \cup {Last6}
Begun         == AfterSegments \cup {Last7}

\* What is left of a purge_source, and of the purge of an overwrite.
Clear3 == <<"facts", "events", "segments">>
Clear2 == <<"events", "segments">>
Clear1 == <<"segments">>
Keep2  == <<"facts", "events">>
Keep1  == <<"events">>

ClearSteps == {Clear3, Clear2, Clear1}
KeepSteps  == {Keep2, Keep1}

Upsert == [todo : Begun \cup {<<>>}, source : Sources \cup {None},
           as : Node \cup {None}, clean : BOOLEAN]
Removal == [todo : ClearSteps \cup KeepSteps \cup {<<>>}, source : Sources \cup {None},
            keep : SUBSET Events, clears : BOOLEAN]

\* The pods' calls are of sources, and a purge_source keeps nothing.
Working ==
  /\ writer \in [Pods -> Upsert] /\ purger \in [Pods -> Removal]
  /\ \A p \in Pods : Upserting(p) => writer[p].source \in Sources /\ writer[p].as \in Node
  /\ \A p \in Pods : Purging(p) => purger[p].source \in Sources
  /\ \A p \in Pods : purger[p].todo \in ClearSteps => purger[p].keep = {}

History ==
  /\ tied \subseteq Events \X Sources /\ drawn \subseteq facts /\ raced \subseteq Events
  /\ purged \in [Pods -> SUBSET Events] /\ intact \subseteq Sources
  /\ asOf \subseteq Pods \cup {"edge"}

Types == GraphTypeOK /\ Working /\ History

LEMMA Lists ==
  /\ Last7 # <<>> /\ Head(Last7) = "segments" /\ Tail(Last7) = Last6 /\ Len(Last7) = 7
  /\ Last6 # <<>> /\ Head(Last6) = "events" /\ Tail(Last6) = Last5 /\ Len(Last6) = 6
  /\ Last5 # <<>> /\ Head(Last5) = "facts" /\ Tail(Last5) = Last4 /\ Len(Last5) = 5
  /\ Last4 # <<>> /\ Head(Last4) = "SUMMARIZES" /\ Tail(Last4) = Last3 /\ Len(Last4) = 4
  /\ Last3 # <<>> /\ Head(Last3) = "INVOLVES" /\ Tail(Last3) = Last2 /\ Len(Last3) = 3
  /\ Last2 # <<>> /\ Head(Last2) = "DERIVED_FROM" /\ Tail(Last2) = Last1 /\ Len(Last2) = 2
  /\ Last1 # <<>> /\ Head(Last1) = "vectors" /\ Len(Last1) = 1
<1>1. Last7 # <<>> /\ Head(Last7) = "segments" /\ Tail(Last7) = Last6 /\ Len(Last7) = 7
  BY DEF Last7, Last6
<1>2. Last6 # <<>> /\ Head(Last6) = "events" /\ Tail(Last6) = Last5 /\ Len(Last6) = 6
  BY DEF Last6, Last5
<1>3. Last5 # <<>> /\ Head(Last5) = "facts" /\ Tail(Last5) = Last4 /\ Len(Last5) = 5
  BY DEF Last5, Last4
<1>4. Last4 # <<>> /\ Head(Last4) = "SUMMARIZES" /\ Tail(Last4) = Last3 /\ Len(Last4) = 4
  BY DEF Last4, Last3
<1>5. Last3 # <<>> /\ Head(Last3) = "INVOLVES" /\ Tail(Last3) = Last2 /\ Len(Last3) = 3
  BY DEF Last3, Last2
<1>6. Last2 # <<>> /\ Head(Last2) = "DERIVED_FROM" /\ Tail(Last2) = Last1 /\ Len(Last2) = 2
  BY DEF Last2, Last1
<1>7. Last1 # <<>> /\ Head(Last1) = "vectors" /\ Len(Last1) = 1
  BY DEF Last1
<1> QED BY <1>1, <1>2, <1>3, <1>4, <1>5, <1>6, <1>7

LEMMA PurgeLists ==
  /\ Clear3 # <<>> /\ Head(Clear3) = "facts" /\ Tail(Clear3) = Clear2 /\ Len(Clear3) = 3
  /\ Clear2 # <<>> /\ Head(Clear2) = "events" /\ Tail(Clear2) = Clear1 /\ Len(Clear2) = 2
  /\ Clear1 # <<>> /\ Head(Clear1) = "segments" /\ Len(Clear1) = 1
  /\ Keep2 # <<>> /\ Head(Keep2) = "facts" /\ Tail(Keep2) = Keep1 /\ Len(Keep2) = 2
  /\ Keep1 # <<>> /\ Head(Keep1) = "events" /\ Len(Keep1) = 1
  /\ Deletions(TRUE) = Clear3 /\ Deletions(FALSE) = Keep2
<1>1. Clear3 # <<>> /\ Head(Clear3) = "facts" /\ Tail(Clear3) = Clear2 /\ Len(Clear3) = 3
  BY DEF Clear3, Clear2
<1>2. Clear2 # <<>> /\ Head(Clear2) = "events" /\ Tail(Clear2) = Clear1 /\ Len(Clear2) = 2
  BY DEF Clear2, Clear1
<1>3. Clear1 # <<>> /\ Head(Clear1) = "segments" /\ Len(Clear1) = 1
  BY DEF Clear1
<1>4. Keep2 # <<>> /\ Head(Keep2) = "facts" /\ Tail(Keep2) = Keep1 /\ Len(Keep2) = 2
  BY DEF Keep2, Keep1
<1>5. Keep1 # <<>> /\ Head(Keep1) = "events" /\ Len(Keep1) = 1
  BY DEF Keep1
<1>6. Deletions(TRUE) = Clear3 /\ Deletions(FALSE) = Keep2
  BY DEF Deletions, Clear3, Keep2
<1> QED BY <1>1, <1>2, <1>3, <1>4, <1>5, <1>6

\* A statement is taken off the list of an upsert.
LEMMA UpsertSteps ==
  ASSUME NEW t \in Begun
  PROVE  /\ t # <<>>
         /\ Head(t) = "vectors" <=> t = Last1
         /\ Head(t) # "vectors" =>
              \/ Head(t) = "segments" /\ t \notin AfterSegments
                 /\ Tail(t) \in AfterSegments \ AfterEvents
              \/ Head(t) = "events" /\ t \in AfterSegments
                 /\ Tail(t) \in AfterEvents \ AfterFacts
              \/ Head(t) = "facts" /\ t \in AfterEvents /\ Tail(t) \in AfterFacts \ AfterTies
              \/ Head(t) = "SUMMARIZES" /\ t \in AfterFacts
                 /\ Tail(t) \in AfterTies \ AfterInvolves
              \/ Head(t) = "INVOLVES" /\ t \in AfterTies
                 /\ Tail(t) \in AfterInvolves \ AfterDerived
              \/ Head(t) = "DERIVED_FROM" /\ t \in AfterInvolves /\ Tail(t) \in AfterDerived
         /\ Last1 \in Begun
<1>1. t \in {Last1, Last2, Last3, Last4, Last5, Last6, Last7}
  BY DEF Begun, AfterSegments, AfterEvents, AfterFacts, AfterTies, AfterInvolves, AfterDerived
<1>2. /\ Last1 \notin {Last2, Last3, Last4, Last5, Last6, Last7}
      /\ Last2 \notin {Last3, Last4, Last5, Last6, Last7}
      /\ Last3 \notin {Last4, Last5, Last6, Last7}
      /\ Last4 \notin {Last5, Last6, Last7}
      /\ Last5 \notin {Last6, Last7} /\ Last6 # Last7
  BY Lists
<1> USE DEF Begun, AfterSegments, AfterEvents, AfterFacts, AfterTies, AfterInvolves, AfterDerived
<1>3. CASE t = Last1
  BY <1>3, Lists
<1>4. CASE t = Last2
  BY <1>2, <1>4, Lists
<1>5. CASE t = Last3
  BY <1>2, <1>5, Lists
<1>6. CASE t = Last4
  BY <1>2, <1>6, Lists
<1>7. CASE t = Last5
  BY <1>2, <1>7, Lists
<1>8. CASE t = Last6
  BY <1>2, <1>8, Lists
<1>9. CASE t = Last7
  BY <1>2, <1>9, Lists
<1> QED BY <1>1, <1>3, <1>4, <1>5, <1>6, <1>7, <1>8, <1>9

\* A deletion is taken off the list of a purge.
LEMMA PurgeSteps ==
  ASSUME NEW t \in ClearSteps \cup KeepSteps
  PROVE  /\ t # <<>>
         /\ \/ Head(t) = "facts" /\ Len(t) # 1 /\ t \in {Clear3, Keep2}
               /\ Tail(t) \in {Clear2, Keep1}
            \/ Head(t) = "events" /\ t \in {Clear2, Keep1} /\ (Len(t) # 1 => Tail(t) = Clear1)
            \/ Head(t) = "segments" /\ t = Clear1 /\ Len(t) = 1
         /\ Len(t) # 1 => /\ Tail(t) \in ClearSteps \cup KeepSteps
                          /\ Tail(t) \in ClearSteps => t \in ClearSteps
         /\ t \in ClearSteps <=> t \notin KeepSteps
         /\ Clear1 \notin {Clear2, Clear3, Keep1, Keep2} /\ Clear2 \notin {Clear3, Keep1, Keep2}
         /\ Keep1 \notin {Clear3, Keep2} /\ Clear3 # Keep2
  BY PurgeLists DEF ClearSteps, KeepSteps

\* An edge is of one of three kinds, and hangs between nodes accordingly.
LEMMA EdgeForms ==
  ASSUME GraphAssumption, NEW edge \in Edges
  PROVE  \/ /\ edge[1] \in Events /\ edge[2] \in Sources /\ edge = <<edge[1], edge[2]>>
            /\ Ends(edge) <=> edge[1] \in Exists /\ edge[2] \in segs
            /\ Ends(edge)' <=> edge[1] \in Exists' /\ edge[2] \in segs'
         \/ /\ edge[1] \notin Events /\ edge[2] \in Events /\ edge = <<"INVOLVES", edge[2]>>
            /\ edge[1] # "DERIVED_FROM"
            /\ Ends(edge) <=> edge[2] \in Exists
            /\ Ends(edge)' <=> edge[2] \in Exists'
         \/ /\ edge[1] \notin Events /\ edge[2] \in Events /\ edge = <<"DERIVED_FROM", edge[2]>>
            /\ Ends(edge) <=> edge[2] \in Exists /\ edge[2] \in facts
            /\ Ends(edge)' <=> edge[2] \in Exists' /\ edge[2] \in facts'
<1>1. CASE edge \in Events \X Sources
  <2>1. edge[1] \in Events /\ edge[2] \in Sources /\ edge = <<edge[1], edge[2]>>
    BY <1>1
  <2>2. edge[1] # "INVOLVES" /\ edge[1] # "DERIVED_FROM"
    BY <2>1 DEF GraphAssumption
  <2> QED BY <2>1, <2>2 DEF Ends
<1>2. ASSUME NEW e \in Events, edge = <<"INVOLVES", e>>
      PROVE  /\ edge[1] \notin Events /\ edge[2] \in Events /\ edge = <<"INVOLVES", edge[2]>>
             /\ edge[1] # "DERIVED_FROM"
             /\ Ends(edge) <=> edge[2] \in Exists
             /\ Ends(edge)' <=> edge[2] \in Exists'
  <2>1. edge[1] = "INVOLVES" /\ edge[2] = e
    BY <1>2
  <2>2. edge[1] \notin Events
    BY <2>1 DEF GraphAssumption
  <2> QED BY <1>2, <2>1, <2>2 DEF Ends
<1>3. ASSUME NEW e \in Events, edge = <<"DERIVED_FROM", e>>
      PROVE  /\ edge[1] \notin Events /\ edge[2] \in Events
             /\ edge = <<"DERIVED_FROM", edge[2]>>
             /\ Ends(edge) <=> edge[2] \in Exists /\ edge[2] \in facts
             /\ Ends(edge)' <=> edge[2] \in Exists' /\ edge[2] \in facts'
  <2>1. edge[1] = "DERIVED_FROM" /\ edge[2] = e
    BY <1>3
  <2>2. edge[1] \notin Events
    BY <2>1 DEF GraphAssumption
  <2> QED BY <1>3, <2>1, <2>2 DEF Ends
<1>4. edge \in Kinds \X Events =>
        \E e \in Events : edge = <<"INVOLVES", e>> \/ edge = <<"DERIVED_FROM", e>>
  BY DEF Kinds
<1> QED BY <1>1, <1>2, <1>3, <1>4 DEF Edges

\* The edges of a request.
LEMMA WantedForms ==
  ASSUME GraphAssumption, NEW src \in Sources
  PROVE  /\ Wanted(src, "SUMMARIZES") = (About[src] \X {src}) \ Slight[src]
         /\ Wanted(src, "INVOLVES") = ({"INVOLVES"} \X About[src]) \ Slight[src]
         /\ Wanted(src, "DERIVED_FROM") = ({"DERIVED_FROM"} \X About[src]) \ Slight[src]
         /\ \A kind \in {"SUMMARIZES"} \cup Kinds : Wanted(src, kind) \subseteq Edges
         /\ About[src] \subseteq Events
<1>1. About[src] \subseteq Events
  BY DEF GraphAssumption
<1>2. Wanted(src, "SUMMARIZES") = (About[src] \X {src}) \ Slight[src]
  BY DEF Wanted
<1>3. Wanted(src, "INVOLVES") = ({"INVOLVES"} \X About[src]) \ Slight[src]
  BY DEF Wanted
<1>4. Wanted(src, "DERIVED_FROM") = ({"DERIVED_FROM"} \X About[src]) \ Slight[src]
  BY DEF Wanted
<1> QED BY <1>1, <1>2, <1>3, <1>4 DEF Kinds, Edges

\* What one statement of an upsert does: it only adds.
LEMMA Writing ==
  ASSUME Types, GraphAssumption, NEW p \in Pods, Statement(p)
  PROVE  /\ writer[p].source \in Sources /\ writer[p].todo \in Begun
         /\ Upserting(p) /\ Head(writer[p].todo) # "vectors"
         /\ Write(p, Head(writer[p].todo), writer[p].source)
         /\ segs \subseteq segs' /\ Exists \subseteq Exists' /\ facts \subseteq facts'
         /\ edges \subseteq edges' /\ tied \subseteq tied' /\ drawn \subseteq drawn'
         /\ segs' \subseteq segs \cup {writer[p].source}
         /\ Exists' \subseteq Exists \cup Gated(writer[p].source)
         /\ event' \in [Events -> Node \cup {None}]
         /\ facts' \subseteq facts \cup About[writer[p].source]
         /\ \/ edges' = edges
            \/ /\ Edgewise(Head(writer[p].todo)) /\ UNCHANGED <<segs, event, facts>>
               /\ edges' = edges \cup Applied(writer[p].source, Head(writer[p].todo))
         /\ UNCHANGED <<purger, raced, intact, vectors, cache, meet>>
<1> DEFINE src == writer[p].source  kind == Head(writer[p].todo)
<1>1. writer[p].todo \in Begun /\ src \in Sources /\ writer[p].as \in Node /\ Upserting(p)
  BY DEF Types, Working, Statement, Upserting, Upsert
<1>2. /\ Write(p, kind, src) /\ kind # "vectors"
      /\ UNCHANGED <<purger, raced, intact, vectors, cache, meet>>
  BY DEF Statement
<1>3. kind \in {"segments", "events", "facts", "SUMMARIZES", "INVOLVES", "DERIVED_FROM"}
  BY <1>1, <1>2, UpsertSteps
<1>4. event \in [Events -> Node \cup {None}] /\ Gated(src) \subseteq Events /\ None \notin Node
  <2>1. About[src] \subseteq Events
    BY <1>1, WantedForms
  <2> QED BY <2>1 DEF Types, GraphTypeOK, Gated, GraphAssumption, Node
<1>5. /\ event' \in [Events -> Node \cup {None}]
      /\ Exists \subseteq Exists' /\ Exists' \subseteq Exists \cup Gated(src)
  <2>1. CASE event' = event
    BY <1>4, <2>1 DEF Exists
  <2>2. CASE event' = [e \in Events |-> IF e \in Gated(src) THEN writer[p].as ELSE event[e]]
    BY <1>1, <1>4, <2>2 DEF Exists
  <2> QED BY <1>2, <2>1, <2>2 DEF Write
<1>6. /\ segs \subseteq segs' /\ segs' \subseteq segs \cup {src}
      /\ facts \subseteq facts' /\ facts' \subseteq facts \cup About[src]
      /\ edges \subseteq edges' /\ tied \subseteq tied' /\ drawn \subseteq drawn'
  BY <1>2 DEF Write
<1>7. \/ edges' = edges
      \/ /\ Edgewise(kind) /\ UNCHANGED <<segs, event, facts>>
         /\ edges' = edges \cup Applied(src, kind)
  BY <1>2, <1>3 DEF Write, Edgewise
<1> QED BY <1>1, <1>2, <1>5, <1>6, <1>7

\* SUMMARIZES edges go from the events of a source to it.
Owned == \A e \in Events, s \in Sources : <<e, s>> \in edges => e \in About[s]

\* What one statement of a purge does: it deletes what hangs on its own source.
Deletes(p, es, fs, ss) ==
  LET t == purger[p].todo  src == purger[p].source
  IN  \/ /\ t \in {Clear3, Keep2} /\ es = {} /\ ss = {}
         /\ fs = {e \in facts \cap Doomed(p) : <<"DERIVED_FROM", e>> \in edges}
         /\ purger'[p].todo \in {Clear2, Keep1}
      \/ /\ t \in {Clear2, Keep1} /\ es = Doomed(p) /\ fs = {} /\ ss = {}
         /\ purger'[p].todo \in {Clear1, <<>>}
      \/ /\ t = Clear1 /\ es = {} /\ fs = {} /\ ss = {src}
         /\ purger'[p].todo = <<>>

LEMMA Purges ==
  ASSUME Types, Owned, GraphAssumption, NEW p \in Pods, Purge(p)
  PROVE  /\ purger[p].source \in Sources /\ Purging(p)
         /\ \E es, fs \in SUBSET About[purger[p].source], ss \in SUBSET {purger[p].source} :
              Drop(es, fs, ss) /\ Deletes(p, es, fs, ss)
         /\ \A q \in Pods \ {p} : purger'[q] = purger[q]
         /\ purger' \in [Pods -> Removal]
         /\ purger'[p].todo # <<>> =>
              /\ purger'[p].source = purger[p].source /\ purger'[p].keep = purger[p].keep
              /\ purger'[p].clears = purger[p].clears
              /\ purger'[p].todo \in ClearSteps => purger[p].todo \in ClearSteps
         /\ UNCHANGED <<vectors, meet, writer, cache, raced, intact>>
         /\ Head(purger[p].todo) = "events" <=> purger[p].todo \in {Clear2, Keep1}
<1> DEFINE src == purger[p].source  t == purger[p].todo
<1>1. purger \in [Pods -> Removal] /\ Purging(p) /\ src \in Sources
  BY DEF Types, Working, Purge
<1>2. t \in ClearSteps \cup KeepSteps
  BY <1>1 DEF Removal, Purging
<1>3. Doomed(p) \subseteq About[src] /\ About[src] \subseteq Events
  <2>1. About[src] \subseteq Events
    BY <1>1, WantedForms
  <2> QED BY <1>1, <2>1 DEF Doomed, Owned, Exists
<1>4. purger' = [purger EXCEPT ![p] =
        IF Len(@.todo) = 1 THEN NoPurge ELSE [purger[p] EXCEPT !.todo = Tail(@)]]
  BY DEF Purge
<1>none. NoPurge \in Removal /\ NoPurge.todo = <<>>
  BY DEF NoPurge, Removal
<1>5. /\ purger' \in [Pods -> Removal]
      /\ \A q \in Pods \ {p} : purger'[q] = purger[q]
      /\ Len(t) = 1 => purger'[p].todo = <<>>
      /\ Len(t) # 1 => /\ purger'[p].todo = Tail(t)
                       /\ purger'[p].source = src /\ purger'[p].keep = purger[p].keep
                       /\ purger'[p].clears = purger[p].clears
  <2>1. CASE Len(t) = 1
    <3>1. purger' = [purger EXCEPT ![p] = NoPurge]
      BY <1>1, <1>4, <2>1
    <3> QED BY <1>1, <1>none, <2>1, <3>1
  <2>2. CASE Len(t) # 1
    <3>1. purger' = [purger EXCEPT ![p] = [purger[p] EXCEPT !.todo = Tail(t)]]
      BY <1>1, <1>4, <2>2
    <3>2. Tail(t) \in ClearSteps \cup KeepSteps
      BY <1>2, <2>2, PurgeSteps
    <3> QED BY <1>1, <2>2, <3>1, <3>2 DEF Removal
  <2> QED BY <2>1, <2>2
<1>6. /\ Len(t) # 1 /\ Tail(t) \in ClearSteps => t \in ClearSteps
      /\ Head(t) = "events" <=> t \in {Clear2, Keep1}
  BY <1>2, PurgeSteps
<1>7. purger'[p].todo # <<>> =>
        /\ purger'[p].source = purger[p].source /\ purger'[p].keep = purger[p].keep
        /\ purger'[p].clears = purger[p].clears
        /\ purger'[p].todo \in ClearSteps => purger[p].todo \in ClearSteps
  BY <1>5, <1>6
<1>8. \E es, fs \in SUBSET About[src], ss \in SUBSET {src} :
        Drop(es, fs, ss) /\ Deletes(p, es, fs, ss)
  <2> DEFINE drawnFrom == {e \in facts \cap Doomed(p) : <<"DERIVED_FROM", e>> \in edges}
  <2>1. CASE Head(t) = "facts"
    <3>1. Drop({}, drawnFrom, {})
      BY <2>1 DEF Purge
    <3>2. t \in {Clear3, Keep2} /\ purger'[p].todo \in {Clear2, Keep1}
      BY <1>2, <1>5, <2>1, PurgeSteps
    <3>3. Deletes(p, {}, drawnFrom, {}) /\ drawnFrom \subseteq About[src]
      BY <1>3, <3>2 DEF Deletes
    <3> QED BY <3>1, <3>3
  <2>2. CASE Head(t) = "events"
    <3>1. Drop(Doomed(p), {}, {})
      BY <2>2 DEF Purge
    <3>2. t \in {Clear2, Keep1} /\ purger'[p].todo \in {Clear1, <<>>}
      BY <1>2, <1>5, <2>2, PurgeSteps
    <3>3. Deletes(p, Doomed(p), {}, {})
      BY <3>2 DEF Deletes
    <3> QED BY <1>3, <3>1, <3>3
  <2>3. CASE Head(t) = "segments"
    <3>1. Drop({}, {}, {src})
      BY <2>3 DEF Purge
    <3>2. t = Clear1 /\ purger'[p].todo = <<>>
      BY <1>2, <1>5, <2>3, PurgeSteps
    <3>3. Deletes(p, {}, {}, {src})
      BY <3>2 DEF Deletes
    <3> QED BY <3>1, <3>3
  <2>4. Head(t) \in {"facts", "events", "segments"}
    BY <1>2, PurgeSteps
  <2> QED BY <2>1, <2>2, <2>3, <2>4
<1>9. UNCHANGED <<vectors, meet, writer, cache, raced, intact>>
  BY DEF Purge
<1> QED BY <1>1, <1>5, <1>6, <1>7, <1>8, <1>9

\* The nodes and the edges that a deletion leaves.
Dropped(es, fs, ss) ==
  /\ event' \in [Events -> Node \cup {None}] /\ Exists' = Exists \ es
  /\ \A e \in Exists' : event'[e] = event[e]
  /\ facts' = facts \ fs /\ segs' = segs \ ss /\ edges' \subseteq edges
  /\ \A e \in Events, s \in Sources :
       <<e, s>> \in edges' <=> <<e, s>> \in edges /\ e \notin es /\ s \notin ss
  /\ \A e \in Events :
       /\ <<"INVOLVES", e>> \in edges' <=> <<"INVOLVES", e>> \in edges /\ e \notin es
       /\ <<"DERIVED_FROM", e>> \in edges' <=>
            <<"DERIVED_FROM", e>> \in edges /\ e \notin es /\ e \notin fs
  /\ \A e \in Events, s \in Sources : <<e, s>> \in tied' <=> <<e, s>> \in tied /\ e \notin es
  /\ tied' \subseteq tied /\ drawn' = drawn \ fs
  /\ asOf' \subseteq asOf /\ (es # {} => asOf' = {})

LEMMA Deleting ==
  ASSUME Types, Owned, GraphAssumption, NEW p \in Pods, Purge(p)
  PROVE  \E es, fs \in SUBSET About[purger[p].source], ss \in SUBSET {purger[p].source} :
           Dropped(es, fs, ss) /\ Deletes(p, es, fs, ss)
<1> PICK es \in SUBSET About[purger[p].source], fs \in SUBSET About[purger[p].source],
         ss \in SUBSET {purger[p].source} : Drop(es, fs, ss) /\ Deletes(p, es, fs, ss)
  BY Purges
<1>1. event \in [Events -> Node \cup {None}]
  BY DEF Types, GraphTypeOK
<1>2. event' = [e \in Events |-> IF e \in es THEN None ELSE event[e]]
  BY DEF Drop
<1>3. event' \in [Events -> Node \cup {None}] /\ Exists' = Exists \ es
      /\ \A e \in Exists' : event'[e] = event[e]
  BY <1>1, <1>2 DEF Exists
<1>4. \A edge \in edges : edge \in edges' <=>
        IF edge[1] \in Events THEN edge[1] \notin es /\ edge[2] \notin ss
        ELSE edge[2] \notin es /\ ~(edge[1] = "DERIVED_FROM" /\ edge[2] \in fs)
  BY DEF Drop
<1>5. edges' \subseteq edges
  BY DEF Drop
<1>6. "INVOLVES" \notin Events /\ "DERIVED_FROM" \notin Events
  BY DEF GraphAssumption
<1>7. \A e \in Events, s \in Sources :
        <<e, s>> \in edges' <=> <<e, s>> \in edges /\ e \notin es /\ s \notin ss
  BY <1>4, <1>5
<1>8. \A e \in Events :
        /\ <<"INVOLVES", e>> \in edges' <=> <<"INVOLVES", e>> \in edges /\ e \notin es
        /\ <<"DERIVED_FROM", e>> \in edges' <=>
             <<"DERIVED_FROM", e>> \in edges /\ e \notin es /\ e \notin fs
  BY <1>4, <1>5, <1>6
<1>9. \A e \in Events, s \in Sources : <<e, s>> \in tied' <=> <<e, s>> \in tied /\ e \notin es
  BY DEF Drop
<1>10. facts' = facts \ fs /\ segs' = segs \ ss /\ drawn' = drawn \ fs /\ tied' \subseteq tied
  BY DEF Drop
<1>11. asOf' \subseteq asOf /\ (es # {} => asOf' = {})
  BY DEF Drop
<1>12. Dropped(es, fs, ss)
  BY <1>3, <1>5, <1>7, <1>8, <1>9, <1>10, <1>11 DEF Dropped
<1> QED BY <1>12

-----------------------------------------------------------------------------
(* Type correctness, with the ownership of the edges.                      *)

\* The nodes are typed, and no edge dangles.
Whole ==
  /\ segs \subseteq Sources /\ event \in [Events -> Node \cup {None}]
  /\ facts \subseteq Events /\ edges \subseteq Edges
  /\ \A edge \in edges : Ends(edge)
  /\ Owned

\* A statement of an upsert and one of a purge keep the graph whole.
LEMMA WholeStep ==
  ASSUME Types, Owned, GraphAssumption, NEW p \in Pods, Statement(p) \/ Purge(p)
  PROVE  Whole'
<1> USE DEF Whole
<1>types. /\ segs \subseteq Sources /\ event \in [Events -> Node \cup {None}]
          /\ facts \subseteq Events /\ edges \subseteq Edges
          /\ \A edge \in edges : Ends(edge)
  BY DEF Types, GraphTypeOK
<1>1. CASE Statement(p)
  <2> DEFINE src == writer[p].source  kind == Head(writer[p].todo)
  <2>1. /\ src \in Sources /\ segs \subseteq segs' /\ segs' \subseteq segs \cup {src}
        /\ Exists \subseteq Exists' /\ facts \subseteq facts'
        /\ event' \in [Events -> Node \cup {None}] /\ facts' \subseteq facts \cup About[src]
        /\ edges \subseteq edges'
        /\ \/ edges' = edges
           \/ /\ Edgewise(kind) /\ UNCHANGED <<segs, event, facts>>
              /\ edges' = edges \cup Applied(src, kind)
    BY <1>1, Writing
  <2>2. About[src] \subseteq Events
    BY <2>1, WantedForms
  <2>3. \A edge \in edges : Ends(edge)'
    BY <1>types, <2>1, EdgeForms
  <2>4. CASE edges' = edges
    BY <1>types, <2>1, <2>2, <2>3, <2>4 DEF Owned
  <2>5. CASE /\ Edgewise(kind) /\ UNCHANGED <<segs, event, facts>>
             /\ edges' = edges \cup Applied(src, kind)
    <3>1. kind \in {"SUMMARIZES"} \cup Kinds
      BY <2>5 DEF Edgewise, Kinds
    <3>2. Applied(src, kind) \subseteq Edges /\ Applied(src, kind) \subseteq Wanted(src, kind)
      BY <2>1, <3>1, WantedForms DEF Applied
    <3>3. \A edge \in Applied(src, kind) : Ends(edge)
      BY DEF Applied
    <3>4. \A edge \in Applied(src, kind) : Ends(edge)'
      BY <2>5, <3>2, <3>3, EdgeForms DEF Exists
    <3>5. Owned'
      <4>1. SUFFICES ASSUME NEW e \in Events, NEW s \in Sources, <<e, s>> \in Wanted(src, kind)
                     PROVE  e \in About[s]
        BY <2>5, <3>2 DEF Owned
      <4>2. e \notin Kinds
        BY DEF GraphAssumption, Kinds
      <4>3. kind = "SUMMARIZES"
        <5>1. kind = "INVOLVES" => FALSE
          BY <2>1, <4>1, <4>2, WantedForms DEF Kinds
        <5>2. kind = "DERIVED_FROM" => FALSE
          BY <2>1, <4>1, <4>2, WantedForms DEF Kinds
        <5> QED BY <3>1, <5>1, <5>2 DEF Kinds
      <4> QED BY <2>1, <4>1, <4>3, WantedForms
    <3> QED BY <1>types, <2>1, <2>2, <2>3, <2>5, <3>2, <3>4, <3>5
  <2> QED BY <2>1, <2>4, <2>5
<1>2. CASE Purge(p)
  <2>1. purger[p].source \in Sources
    BY <1>2, Purges
  <2>2. PICK es \in SUBSET About[purger[p].source], fs \in SUBSET About[purger[p].source],
             ss \in SUBSET {purger[p].source} : Dropped(es, fs, ss)
    BY <1>2, Deleting
  <2>4. /\ event' \in [Events -> Node \cup {None}] /\ Exists' = Exists \ es
        /\ facts' = facts \ fs /\ segs' = segs \ ss /\ edges' \subseteq edges
        /\ \A e \in Events, s \in Sources :
              <<e, s>> \in edges' <=> <<e, s>> \in edges /\ e \notin es /\ s \notin ss
        /\ \A e \in Events :
              /\ <<"INVOLVES", e>> \in edges' <=> <<"INVOLVES", e>> \in edges /\ e \notin es
              /\ <<"DERIVED_FROM", e>> \in edges' <=>
                   <<"DERIVED_FROM", e>> \in edges /\ e \notin es /\ e \notin fs
    BY <2>2 DEF Dropped
  <2>5. ASSUME NEW edge \in edges' PROVE Ends(edge)'
    <3>1. edge \in edges /\ edge \in Edges /\ Ends(edge)
      BY <1>types, <2>4, <2>5
    <3>2. CASE /\ edge[1] \in Events /\ edge[2] \in Sources /\ edge = <<edge[1], edge[2]>>
               /\ Ends(edge) <=> edge[1] \in Exists /\ edge[2] \in segs
               /\ Ends(edge)' <=> edge[1] \in Exists' /\ edge[2] \in segs'
      BY <2>4, <2>5, <3>1, <3>2
    <3>3. CASE /\ edge[2] \in Events /\ edge = <<"INVOLVES", edge[2]>>
               /\ Ends(edge) <=> edge[2] \in Exists
               /\ Ends(edge)' <=> edge[2] \in Exists'
      BY <2>4, <2>5, <3>1, <3>3
    <3>4. CASE /\ edge[2] \in Events /\ edge = <<"DERIVED_FROM", edge[2]>>
               /\ Ends(edge) <=> edge[2] \in Exists /\ edge[2] \in facts
               /\ Ends(edge)' <=> edge[2] \in Exists' /\ edge[2] \in facts'
      BY <2>4, <2>5, <3>1, <3>4
    <3> QED BY <3>1, <3>2, <3>3, <3>4, EdgeForms
  <2>6. Owned'
    BY <2>4 DEF Owned
  <2> QED BY <1>types, <2>4, <2>5, <2>6
<1> QED BY <1>1, <1>2

\* A step that does not touch the nodes keeps them whole.
LEMMA WholeKept ==
  ASSUME Types, Owned, UNCHANGED nodes
  PROVE  Whole'
  BY DEF Types, GraphTypeOK, Whole, Owned, nodes, Ends, Exists

\* A step of one pod's calls.
LEMMA WorkingStep ==
  ASSUME Working, NEW p \in Pods, writer' \in [Pods -> Upsert], purger' \in [Pods -> Removal],
         \A q \in Pods \ {p} : writer'[q] = writer[q] /\ purger'[q] = purger[q],
         writer'[p].todo # <<>> => writer'[p].source \in Sources /\ writer'[p].as \in Node,
         purger'[p].todo # <<>> => purger'[p].source \in Sources,
         purger'[p].todo \in ClearSteps => purger'[p].keep = {}
  PROVE  Working'
<1>1. \A q \in Pods : Upserting(q)' => writer'[q].source \in Sources /\ writer'[q].as \in Node
  BY DEF Working, Upserting
<1>2. \A q \in Pods : Purging(q)' => purger'[q].source \in Sources
  BY DEF Working, Purging
<1>3. \A q \in Pods : purger'[q].todo \in ClearSteps => purger'[q].keep = {}
  BY DEF Working
<1> QED BY <1>1, <1>2, <1>3 DEF Working

\* An event that lapses is no other than before, but it is not shown.
LEMMA Lapses ==
  ASSUME Types, GraphAssumption, NEW e \in Events, event[e] # None,
         event' = [event EXCEPT ![e].shown = FALSE]
  PROVE  event' \in [Events -> Node \cup {None}] /\ Exists' = Exists
<1>1. event \in [Events -> Node \cup {None}] /\ None \notin Node
  BY DEF Types, GraphTypeOK, GraphAssumption, Node
<1>2. event'[e] = [event[e] EXCEPT !.shown = FALSE]
  BY <1>1
<1>3. event[e] \in Node
  BY <1>1
<1>4. event'[e] \in Node
  BY ONLY <1>2, <1>3 DEF Node
<1>5. event' \in [Events -> Node \cup {None}] /\ \A f \in Events \ {e} : event'[f] = event[f]
  BY <1>1, <1>4
<1> QED BY <1>1, <1>4, <1>5 DEF Exists

LEMMA TypesStep ==
  ASSUME Types, Owned, GraphAssumption, [GraphNext]_graphVars
  PROVE  Types' /\ Owned'
<1> DEFINE
      Rest == /\ vectors' \subseteq Events /\ meet' \in Events \cup {None}
              /\ breaker' \in [Pods -> [fails : 0 .. Threshold, open : BOOLEAN]]
              /\ cache' \in [Pods -> [Events \cup {"meet"} -> Events \cup {None, Unknown}]]
<1>split. Whole' /\ Rest /\ Working' /\ History' => Types' /\ Owned'
  BY DEF Whole, Types, GraphTypeOK
<1>rest. /\ vectors \subseteq Events /\ meet \in Events \cup {None}
         /\ breaker \in [Pods -> [fails : 0 .. Threshold, open : BOOLEAN]]
         /\ cache \in [Pods -> [Events \cup {"meet"} -> Events \cup {None, Unknown}]]
         /\ writer \in [Pods -> Upsert] /\ purger \in [Pods -> Removal]
  BY DEF Types, GraphTypeOK, Working
<1>empty. NoUpsert \in Upsert /\ NoPurge \in Removal /\ NoUpsert.todo = <<>> /\ NoPurge.todo = <<>>
  BY DEF NoUpsert, NoPurge, Upsert, Removal
<1>vectors. <<"vectors">> \in Begun /\ <<"vectors">> # <<>>
  BY DEF Begun, AfterSegments, AfterEvents, AfterFacts, AfterTies, AfterInvolves, AfterDerived,
     Last1
<1>tripped. ASSUME NEW p \in Pods PROVE Tripped(p) \in [fails : 0 .. Threshold, open : BOOLEAN]
  <2>1. breaker[p] \in [fails : 0 .. Threshold, open : BOOLEAN] /\ Threshold \in Nat
    BY <1>rest DEF GraphAssumption
  <2> QED BY <2>1 DEF Tripped
\* The failures of the breaker and of the vectors, and the answers.
<1>1. ASSUME NEW p \in Pods, NEW src \in Sources, NEW node \in Node, BeginUpsert(p, src, node)
      PROVE  Types' /\ Owned'
  <2> DEFINE w == [todo |-> IF breaker[p].open THEN <<"vectors">> ELSE Statements,
                   source |-> src, as |-> node, clean |-> ~breaker[p].open]
  <2>1. /\ writer' = [writer EXCEPT ![p] = w]
        /\ raced' = raced \cup Shared(src, {purger[q].source : q \in {q \in Pods : Purging(q)}})
        /\ UNCHANGED <<nodes, vectors, meet, purger, breaker, cache, faults, tied, drawn,
                       purged, intact, asOf>>
    BY <1>1 DEF BeginUpsert
  <2>2. w \in Upsert /\ w.todo # <<>>
    <3>1. Statements \in Begun /\ Statements # <<>>
      <4>1. Statements = Last7
        BY DEF Statements, Last7
      <4> QED BY <4>1, Lists DEF Begun
    <3>2. breaker[p].open \in BOOLEAN
      BY <1>rest
    <3> QED BY <1>vectors, <3>1, <3>2 DEF Upsert
  <2>3. Working'
    BY <2>1, <2>2, <1>rest DEF Types, Working, Upserting, Purging
  <2>4. raced' \subseteq Events
    <3>1. About[src] \subseteq Events
      BY WantedForms
    <3>2. Shared(src, {purger[q].source : q \in {q \in Pods : Purging(q)}}) \subseteq About[src]
      BY DEF Shared
    <3> QED BY <2>1, <3>1, <3>2 DEF Types, History
  <2>5. History'
    BY <2>1, <2>4 DEF Types, History, nodes
  <2> QED BY <2>1, <2>3, <2>5, <1>rest, <1>split, WholeKept
<1>2. ASSUME NEW p \in Pods, Statement(p) PROVE Types' /\ Owned'
  <2> DEFINE src == writer[p].source  kind == Head(writer[p].todo)
             fits == Edgewise(kind) => Complete(src, kind)
             last == Len(writer[p].todo) = 2
  <2>1. /\ src \in Sources /\ writer[p].todo \in Begun /\ Upserting(p) /\ kind # "vectors"
        /\ Write(p, kind, src) /\ UNCHANGED <<purger, raced, intact, vectors, cache, meet>>
        /\ facts \subseteq facts'
    BY <1>2, Writing
  <2>2. /\ writer' = [writer EXCEPT ![p] =
             [writer[p] EXCEPT !.todo  = IF fits THEN Tail(writer[p].todo) ELSE <<"vectors">>,
                               !.clean = writer[p].clean /\ fits]]
        /\ breaker' = [breaker EXCEPT ![p] =
             IF ~fits THEN Tripped(p) ELSE IF last THEN [@ EXCEPT !.fails = 0] ELSE @]
    BY <1>2 DEF Statement
  <2>3. Tail(writer[p].todo) \in Begun
    BY <2>1, UpsertSteps DEF Begun, AfterSegments, AfterEvents, AfterFacts, AfterTies, AfterInvolves
  <2>4. /\ writer' \in [Pods -> Upsert]
        /\ \A q \in Pods \ {p} : writer'[q] = writer[q]
        /\ writer'[p].source = src /\ writer'[p].as = writer[p].as
    <3>1. writer[p] \in Upsert /\ (writer[p].clean /\ fits) \in BOOLEAN
      BY <1>rest DEF Upsert
    <3>2. PICK t \in Begun, b \in BOOLEAN :
            writer' = [writer EXCEPT ![p] = [writer[p] EXCEPT !.todo = t, !.clean = b]]
      <4>1. (IF fits THEN Tail(writer[p].todo) ELSE <<"vectors">>) \in Begun
        BY <2>3, <1>vectors
      <4> QED BY <2>2, <3>1, <4>1
    <3>3. /\ [writer[p] EXCEPT !.todo = t, !.clean = b] \in Upsert
          /\ [writer[p] EXCEPT !.todo = t, !.clean = b].source = src
          /\ [writer[p] EXCEPT !.todo = t, !.clean = b].as = writer[p].as
      BY <3>1 DEF Upsert
    <3> QED BY <3>2, <3>3, <1>rest
  <2>5. Working'
    BY <2>1, <2>4 DEF Types, Working, Upserting, Purging
  <2>6. breaker' \in [Pods -> [fails : 0 .. Threshold, open : BOOLEAN]]
    <3>1. breaker[p] \in [fails : 0 .. Threshold, open : BOOLEAN] /\ 0 \in 0 .. Threshold
      BY <1>rest DEF GraphAssumption
    <3>2. [breaker[p] EXCEPT !.fails = 0] \in [fails : 0 .. Threshold, open : BOOLEAN]
      BY <3>1
    <3> QED BY <1>rest, <1>tripped, <2>2, <3>1, <3>2
  <2>7. History'
    <3>1. About[src] \subseteq Events
      BY <2>1, WantedForms
    <3>2. tied' \subseteq Events \X Sources
      BY <2>1, <3>1, WantedForms DEF Write, Applied, Types, History
    <3>3. drawn' \subseteq facts'
      <4>1. CASE kind # "DERIVED_FROM"
        BY <2>1, <4>1 DEF Write, Types, History
      <4>2. CASE kind = "DERIVED_FROM"
        <5>1. facts' = facts /\ drawn' = drawn \cup {edge[2] : edge \in Applied(src, kind)}
          BY <2>1, <4>2 DEF Write
        <5>2. \A edge \in Applied(src, kind) : edge[2] \in facts
          <6>1. ASSUME NEW edge \in Applied(src, kind) PROVE edge[2] \in facts
            <7>1. edge \in Wanted(src, kind) /\ Ends(edge)
              BY DEF Applied
            <7>2. edge[1] = "DERIVED_FROM" /\ edge \in Edges
              BY <2>1, <4>2, <7>1, WantedForms DEF Kinds
            <7>3. "DERIVED_FROM" \notin Events
              BY DEF GraphAssumption
            <7> QED BY <7>1, <7>2, <7>3, EdgeForms
          <6> QED BY <6>1
        <5> QED BY <5>1, <5>2 DEF Types, History
      <4> QED BY <4>1, <4>2
    <3>4. purged' \in [Pods -> SUBSET Events] /\ asOf' \subseteq Pods \cup {"edge"}
      BY <2>1 DEF Write, Types, History
    <3> QED BY <2>1, <3>2, <3>3, <3>4 DEF Types, History
  <2> QED BY <1>2, <2>1, <2>5, <2>6, <2>7, <1>rest, <1>split, WholeStep
<1>3. ASSUME NEW p \in Pods, StatementFails(p) PROVE Types' /\ Owned'
  <2>1. /\ writer' = [writer EXCEPT ![p] =
                        [writer[p] EXCEPT !.todo = <<"vectors">>, !.clean = FALSE]]
        /\ breaker' = [breaker EXCEPT ![p] = Tripped(p)] /\ Upserting(p)
        /\ UNCHANGED <<nodes, vectors, meet, purger, cache, calls, past>>
    BY <1>3 DEF StatementFails
  <2>2. /\ writer' \in [Pods -> Upsert]
        /\ \A q \in Pods \ {p} : writer'[q] = writer[q]
        /\ writer'[p].source = writer[p].source /\ writer'[p].as = writer[p].as
    <3>1. writer[p] \in Upsert
      BY <1>rest
    <3>2. /\ [writer[p] EXCEPT !.todo = <<"vectors">>, !.clean = FALSE] \in Upsert
          /\ [writer[p] EXCEPT !.todo = <<"vectors">>, !.clean = FALSE].source = writer[p].source
          /\ [writer[p] EXCEPT !.todo = <<"vectors">>, !.clean = FALSE].as = writer[p].as
      BY <3>1, <1>vectors DEF Upsert
    <3> QED BY <2>1, <3>2, <1>rest
  <2>3. Working'
    BY <2>1, <2>2 DEF Types, Working, Upserting, Purging
  <2>4. History'
    BY <2>1 DEF Types, History, past, nodes
  <2>5. breaker' \in [Pods -> [fails : 0 .. Threshold, open : BOOLEAN]]
    BY <1>rest, <1>tripped, <2>1
  <2> QED BY <2>1, <2>3, <2>4, <2>5, <1>rest, <1>split, WholeKept
<1>4. ASSUME NEW p \in Pods, WriteVectors(p) \/ VectorsFail(p) PROVE Types' /\ Owned'
  <2>1. /\ writer' = [writer EXCEPT ![p] = NoUpsert] /\ writer[p].todo = <<"vectors">>
        /\ vectors' = vectors \/ vectors' = vectors \cup Vectors(writer[p].source)
        /\ intact' \subseteq intact \cup {writer[p].source}
        /\ UNCHANGED <<nodes, meet, purger, breaker, cache, tied, drawn, raced, purged, asOf>>
    BY <1>4 DEF WriteVectors, VectorsFail, past
  <2>2. writer[p].source \in Sources
    BY <2>1, <1>vectors DEF Types, Working, Upserting
  <2>3. vectors' \subseteq Events
    BY <1>rest, <2>1, <2>2, WantedForms DEF Vectors, Gated
  <2>4. Working'
    BY <2>1, <1>rest, <1>empty DEF Types, Working, Upserting, Purging
  <2>5. History'
    BY <2>1, <2>2 DEF Types, History, nodes
  <2> QED BY <2>1, <2>3, <2>4, <2>5, <1>rest, <1>split, WholeKept
<1>5. ASSUME NEW p \in Pods, BreakerCloses(p) PROVE Types' /\ Owned'
  <2>1. /\ breaker' = [breaker EXCEPT ![p].open = FALSE]
        /\ UNCHANGED <<nodes, vectors, meet, writer, purger, cache, tally, past>>
    BY <1>5 DEF BreakerCloses
  <2>2. Working' /\ History'
    <3>1. Working'
      BY <2>1 DEF Types, Working, Upserting, Purging
    <3>2. History'
      BY <2>1 DEF Types, History, past, nodes
    <3> QED BY <3>1, <3>2
  <2>3. breaker' \in [Pods -> [fails : 0 .. Threshold, open : BOOLEAN]]
    <3>1. breaker[p] \in [fails : 0 .. Threshold, open : BOOLEAN]
      BY <1>rest
    <3>2. [breaker[p] EXCEPT !.open = FALSE] \in [fails : 0 .. Threshold, open : BOOLEAN]
      BY <3>1
    <3>3. breaker' = [breaker EXCEPT ![p] = [breaker[p] EXCEPT !.open = FALSE]]
      BY <2>1, <1>rest
    <3> QED BY <1>rest, <3>2, <3>3
  <2> QED BY <2>1, <2>2, <2>3, <1>rest, <1>split, WholeKept
<1>6. ASSUME NEW p \in Pods, NEW src \in Sources, NEW clears \in BOOLEAN,
             NEW keep \in SUBSET Events, clears => keep = {},
             BeginSourcePurge(p, src, clears, keep)
      PROVE  Types' /\ Owned'
  <2> DEFINE r == [todo |-> Deletions(clears), source |-> src, keep |-> keep, clears |-> clears]
  <2>1. /\ purger' = purger \/ purger' = [purger EXCEPT ![p] = r]
        /\ raced' = raced \/
             raced' = raced \cup Shared(src, {writer[q].source : q \in {q \in Pods : Upserting(q)}})
        /\ intact' \subseteq intact
        /\ cache' = [cache EXCEPT ![p] = Forgotten(p, clears)]
        /\ UNCHANGED <<nodes, vectors, meet, writer, breaker, tied, drawn, purged, asOf>>
    BY <1>6 DEF BeginSourcePurge
  <2>2. r \in Removal /\ r.todo # <<>> /\ (r.todo \in ClearSteps => r.keep = {})
    <3>1. Deletions(TRUE) = Clear3 /\ Deletions(FALSE) = Keep2 /\ Clear3 # <<>> /\ Keep2 # <<>>
      BY PurgeLists
    <3>2. Clear3 \in ClearSteps /\ Keep2 \in KeepSteps /\ Keep2 \notin ClearSteps
      BY PurgeSteps DEF ClearSteps, KeepSteps
    <3>3. CASE clears
      BY <1>6, <3>1, <3>2, <3>3 DEF Removal
    <3>4. CASE ~clears
      BY <3>1, <3>2, <3>4 DEF Removal
    <3> QED BY <3>3, <3>4
  <2>3. Working'
    <3>1. CASE purger' = purger
      BY <2>1, <3>1 DEF Types, Working, Upserting, Purging
    <3>2. CASE purger' = [purger EXCEPT ![p] = r]
      <4>1. purger' \in [Pods -> Removal] /\ purger'[p] = r
            /\ \A q \in Pods \ {p} : purger'[q] = purger[q]
        BY <2>2, <3>2, <1>rest
      <4>2. writer[p].todo # <<>> => writer[p].source \in Sources /\ writer[p].as \in Node
        BY DEF Types, Working, Upserting
      <4>3. /\ writer' \in [Pods -> Upsert]
            /\ \A q \in Pods \ {p} : writer'[q] = writer[q] /\ purger'[q] = purger[q]
            /\ writer'[p].todo # <<>> => writer'[p].source \in Sources /\ writer'[p].as \in Node
            /\ purger'[p].todo # <<>> => purger'[p].source \in Sources
            /\ purger'[p].todo \in ClearSteps => purger'[p].keep = {}
        BY <2>1, <2>2, <4>1, <4>2, <1>rest
      <4> QED BY <4>1, <4>3, WorkingStep DEF Types
    <3> QED BY <2>1, <3>1, <3>2
  <2>4. raced' \subseteq Events
    <3>1. About[src] \subseteq Events
      BY WantedForms
    <3>2. Shared(src, {writer[q].source : q \in {q \in Pods : Upserting(q)}}) \subseteq About[src]
      BY DEF Shared
    <3> QED BY <2>1, <3>1, <3>2 DEF Types, History
  <2>5. History'
    BY <2>1, <2>4 DEF Types, History, nodes
  <2>6. cache' \in [Pods -> [Events \cup {"meet"} -> Events \cup {None, Unknown}]]
    <3>1. NoAnswer \in [Events \cup {"meet"} -> Events \cup {None, Unknown}]
      BY DEF NoAnswer
    <3> QED BY <2>1, <3>1, <1>rest DEF Forgotten
  <2> QED BY <2>1, <2>3, <2>5, <2>6, <1>rest, <1>split, WholeKept
<1>7. ASSUME NEW p \in Pods, Purge(p) PROVE Types' /\ Owned'
  <2>1. /\ purger[p].source \in Sources
        /\ \A q \in Pods \ {p} : purger'[q] = purger[q]
        /\ purger' \in [Pods -> Removal]
        /\ purger'[p].todo # <<>> =>
              /\ purger'[p].source = purger[p].source /\ purger'[p].keep = purger[p].keep
              /\ purger'[p].todo \in ClearSteps => purger[p].todo \in ClearSteps
        /\ UNCHANGED <<vectors, meet, writer, cache, raced, intact>>
    BY <1>7, Purges
  <2>2. PICK es \in SUBSET About[purger[p].source], fs \in SUBSET About[purger[p].source],
             ss \in SUBSET {purger[p].source} : Drop(es, fs, ss)
    BY <1>7, Purges
  <2>3. es \in SUBSET Events /\ fs \in SUBSET Events /\ ss \in SUBSET Sources
    BY <2>1, WantedForms
  <2>4. <<>> \notin ClearSteps
    BY PurgeLists DEF ClearSteps
  <2>5. Working'
    <3>1. writer[p].todo # <<>> => writer[p].source \in Sources /\ writer[p].as \in Node
      BY DEF Types, Working, Upserting
    <3>2. purger[p].todo \in ClearSteps => purger[p].keep = {}
      BY DEF Types, Working
    <3>3. /\ writer' \in [Pods -> Upsert]
          /\ \A q \in Pods \ {p} : writer'[q] = writer[q] /\ purger'[q] = purger[q]
          /\ writer'[p].todo # <<>> => writer'[p].source \in Sources /\ writer'[p].as \in Node
      BY <2>1, <3>1, <1>rest
    <3>4. /\ purger'[p].todo # <<>> => purger'[p].source \in Sources
          /\ purger'[p].todo \in ClearSteps => purger'[p].keep = {}
      BY <2>1, <2>4, <3>2
    <3>5. Working /\ purger' \in [Pods -> Removal]
      BY <2>1 DEF Types
    <3> QED BY ONLY p \in Pods, <3>3, <3>4, <3>5, WorkingStep
  <2>6. drawn' \subseteq facts'
    <3>1. drawn' = drawn \ fs /\ facts' = facts \ fs
      BY <2>2 DEF Drop
    <3> QED BY <3>1 DEF Types, History
  <2>7. tied' \subseteq Events \X Sources /\ asOf' \subseteq Pods \cup {"edge"}
    BY <2>2 DEF Drop, Types, History
  <2>8. purged' \in [Pods -> SUBSET Events]
    <3>1. Doomed(p) \subseteq Events
      BY DEF Doomed, Exists
    <3> QED BY <1>7, <3>1 DEF Purge, Types, History
  <2>9. History'
    BY <2>1, <2>6, <2>7, <2>8 DEF Types, History
  <2>10. UNCHANGED breaker
    BY <1>7 DEF Purge
  <2> QED BY <1>7, <2>1, <2>5, <2>9, <2>10, <1>rest, <1>split, WholeStep
<1>8. ASSUME NEW p \in Pods, SourcePurgeFails(p) PROVE Types' /\ Owned'
  <2>1. /\ purger' = [purger EXCEPT ![p] = NoPurge]
        /\ UNCHANGED <<nodes, vectors, meet, writer, breaker, cache, calls, past>>
    BY <1>8 DEF SourcePurgeFails
  <2>2. <<>> \notin ClearSteps
    BY PurgeLists DEF ClearSteps
  <2>3. Working'
    BY <2>1, <2>2, <1>rest, <1>empty DEF Types, Working, Upserting, Purging
  <2>4. History'
    BY <2>1 DEF Types, History, past, nodes
  <2> QED BY <2>1, <2>3, <2>4, <1>rest, <1>split, WholeKept
<1>9. ASSUME UNCHANGED <<nodes, vectors, writer, purger, breaker>>,
             UNCHANGED <<tied, drawn, raced, purged, intact>>,
             Rest, asOf' \subseteq Pods \cup {"edge"}
      PROVE  Types' /\ Owned'
  <2>1. Working' /\ History'
    BY <1>9 DEF Types, Working, Upserting, Purging, History, nodes
  <2> QED BY <1>9, <2>1, <1>split, WholeKept
<1>10. ASSUME NEW p \in Pods, BuildFirstMeetings(p) PROVE Types' /\ Owned'
  <2>1. meet' \in Events
    BY <1>10 DEF BuildFirstMeetings, Earliest, Meetings, Exists
  <2> QED BY <1>9, <1>10, <1>rest, <2>1 DEF BuildFirstMeetings, Types, History
<1>11. ASSUME NEW p \in Pods, ExplainFirstMeeting(p) PROVE Types' /\ Owned'
  <2>1. PICK e \in IF breaker[p].open \/ Queried = {} THEN {Unknown} ELSE Earliest(Queried) :
          cache' = [cache EXCEPT ![p]["meet"] = e]
    BY <1>11 DEF ExplainFirstMeeting
  <2>2. e \in Events \cup {Unknown}
    BY DEF Earliest, Queried, Exists
  <2>3. cache' \in [Pods -> [Events \cup {"meet"} -> Events \cup {None, Unknown}]]
    BY <1>rest, <2>1, <2>2
  <2> QED BY <1>9, <1>11, <1>rest, <2>3 DEF ExplainFirstMeeting, Types, History
<1>12. ASSUME NEW p \in Pods, NEW e \in Events, ExplainEvent(p, e) PROVE Types' /\ Owned'
  <2>1. cache' \in [Pods -> [Events \cup {"meet"} -> Events \cup {None, Unknown}]]
    BY <1>12, <1>rest DEF ExplainEvent
  <2> QED BY <1>9, <1>12, <1>rest, <2>1 DEF ExplainEvent, Types, History, past
<1>13. ASSUME NEW p \in Pods, NEW key \in Events \cup {"meet"}, Forget(p, key)
       PROVE  Types' /\ Owned'
  <2>1. cache' \in [Pods -> [Events \cup {"meet"} -> Events \cup {None, Unknown}]]
    BY <1>13, <1>rest DEF Forget
  <2> QED BY <1>9, <1>13, <1>rest, <2>1 DEF Forget, Types, History
<1>17. ASSUME NEW p \in Pods, NEW key \in Events \cup {"meet"}, ExplainFails(p, key)
       PROVE  Types' /\ Owned'
  <2>1. cache' \in [Pods -> [Events \cup {"meet"} -> Events \cup {None, Unknown}]]
    BY <1>17, <1>rest DEF ExplainFails
  <2> QED BY <1>9, <1>17, <1>rest, <2>1 DEF ExplainFails, Types, History
<1>18. ASSUME NEW e \in Events, Lapse(e) PROVE Types' /\ Owned'
  <2>1. /\ event' = [event EXCEPT ![e].shown = FALSE] /\ asOf' = {} /\ event[e] # None
        /\ UNCHANGED <<segs, facts, edges, vectors, meet, writer, purger, breaker, cache,
                       tied, drawn, raced, purged, intact>>
    BY <1>18 DEF Lapse, Exists
  <2>2. event' \in [Events -> Node \cup {None}] /\ Exists' = Exists
    BY <2>1, Lapses
  <2>3. \A edge \in edges' : Ends(edge)'
    BY <2>1, <2>2 DEF Types, GraphTypeOK, Ends
  <2>4. GraphTypeOK'
    BY <2>1, <2>2, <2>3 DEF Types, GraphTypeOK
  <2>5. Working' /\ History' /\ Owned'
    BY <2>1 DEF Types, Working, Upserting, Purging, History, Owned
  <2> QED BY <2>4, <2>5 DEF Types
<1>14. CASE UNCHANGED graphVars
  BY <1>9, <1>14, <1>rest DEF graphVars, past, tally, Types, History
<1>15. \A p \in Pods, src \in Sources : BeginSourcePurge(p, src, TRUE, {}) => Types' /\ Owned'
  BY <1>6
<1>16. \A p \in Pods, src \in Sources, keep \in SUBSET Events :
         BeginSourcePurge(p, src, FALSE, keep) => Types' /\ Owned'
  BY <1>6
<1> QED
  BY <1>1, <1>2, <1>3, <1>4, <1>5, <1>7, <1>8, <1>10, <1>11, <1>12, <1>13, <1>14, <1>15, <1>16,
     <1>17, <1>18
  DEF GraphNext

LEMMA TypesInit ==
  ASSUME GraphInit, GraphAssumption
  PROVE  Types /\ Owned
<1>1. NoUpsert \in Upsert /\ NoPurge \in Removal /\ NoUpsert.todo = <<>> /\ NoPurge.todo = <<>>
  BY DEF NoUpsert, NoPurge, Upsert, Removal
<1>2. <<>> \notin ClearSteps
  BY PurgeLists DEF ClearSteps
<1>3. Working
  BY <1>1, <1>2 DEF GraphInit, Working, Upserting, Purging
<1>4. History
  BY DEF GraphInit, History
<1>5. breaker \in [Pods -> [fails : 0 .. Threshold, open : BOOLEAN]]
  <2>1. 0 \in 0 .. Threshold
    BY DEF GraphAssumption
  <2> QED BY <2>1 DEF GraphInit
<1>6. cache \in [Pods -> [Events \cup {"meet"} -> Events \cup {None, Unknown}]]
  BY DEF GraphInit, NoAnswer
<1> QED BY <1>3, <1>4, <1>5, <1>6 DEF GraphInit, Types, GraphTypeOK, Owned
-----------------------------------------------------------------------------
(* A purge that was cut can be repeated.                                   *)

\* Where an upsert and a purge run together, they know of each other.
Apart == \A p, q \in Pods : Upserting(q) /\ Purging(p) =>
           About[writer[q].source] \cap About[purger[p].source] \subseteq raced

\* An edge that was written still hangs between its nodes, and no purge is
\* about to delete the segment.
TiesHold ==
  \A e \in Events, s \in Sources : <<e, s>> \in tied =>
    /\ e \in Exists
    /\ e \notin raced => /\ s \in segs /\ <<e, s>> \in edges
                         /\ \A p \in Pods : purger[p].todo = Clear1 => purger[p].source # s

\* A fact is found through its event, and no purge that has passed the facts is
\* about to delete the event.
DrawnHold ==
  \A e \in drawn \ raced :
    /\ e \in Exists /\ <<"DERIVED_FROM", e>> \in edges
    /\ \A p \in Pods : purger[p].todo \in {Clear2, Keep1} => e \notin Doomed(p)

Resumable == Apart /\ TiesHold /\ DrawnHold

\* The calls go on, or end.
LEMMA ApartKept ==
  ASSUME Apart, raced \subseteq raced',
         \A q \in Pods : writer'[q].todo # <<>> =>
           writer[q].todo # <<>> /\ writer'[q].source = writer[q].source,
         \A q \in Pods : purger'[q].todo # <<>> =>
           purger[q].todo # <<>> /\ purger'[q].source = purger[q].source
  PROVE  Apart'
  BY DEF Apart, Upserting, Purging

\* What an upsert begins with, or a purge, is entered with what runs.
LEMMA ApartUpsert ==
  ASSUME Types, Apart, GraphAssumption,
         NEW p \in Pods, NEW src \in Sources, NEW node \in Node, BeginUpsert(p, src, node)
  PROVE  Apart' /\ raced \subseteq raced'
<1> DEFINE others == {purger[q].source : q \in {q \in Pods : Purging(q)}}
<1>1. raced' = raced \cup Shared(src, others) /\ UNCHANGED purger
  BY DEF BeginUpsert
<1>2. writer'[p].source = src /\ \A q \in Pods \ {p} : writer'[q] = writer[q]
  BY DEF BeginUpsert, Types, Working
<1>3. ASSUME NEW x \in Pods, NEW q \in Pods, writer'[q].todo # <<>>, purger'[x].todo # <<>>
      PROVE  About[writer'[q].source] \cap About[purger'[x].source] \subseteq raced'
  <2>1. Purging(x) /\ purger'[x].source = purger[x].source
    BY <1>1, <1>3 DEF Purging
  <2>2. CASE q = p
    <3>1. purger[x].source \in others
      BY <2>1
    <3>2. About[src] \cap About[purger[x].source] \subseteq Shared(src, others)
      BY <3>1 DEF Shared
    <3> QED BY <1>1, <1>2, <2>1, <2>2, <3>2
  <2>3. CASE q # p
    BY <1>1, <1>2, <1>3, <2>1, <2>3 DEF Apart, Upserting
  <2> QED BY <2>2, <2>3
<1> QED BY <1>1, <1>3 DEF Apart, Upserting, Purging

LEMMA ApartPurge ==
  ASSUME Types, Apart, GraphAssumption, NEW p \in Pods, NEW src \in Sources,
         NEW clears \in BOOLEAN, NEW keep \in SUBSET Events,
         BeginSourcePurge(p, src, clears, keep)
  PROVE  Apart' /\ raced \subseteq raced'
<1> DEFINE others == {writer[q].source : q \in {q \in Pods : Upserting(q)}}
<1>1. CASE breaker[p].open
  <2>1. UNCHANGED <<purger, raced, writer>>
    BY <1>1 DEF BeginSourcePurge
  <2> QED BY <2>1, ApartKept
<1>2. CASE ~breaker[p].open
  <2>1. raced' = raced \cup Shared(src, others) /\ UNCHANGED writer
    BY <1>2 DEF BeginSourcePurge
  <2>2. purger'[p].source = src /\ \A q \in Pods \ {p} : purger'[q] = purger[q]
    BY <1>2 DEF BeginSourcePurge, Types, Working
  <2>3. ASSUME NEW x \in Pods, NEW q \in Pods, writer'[q].todo # <<>>, purger'[x].todo # <<>>
        PROVE  About[writer'[q].source] \cap About[purger'[x].source] \subseteq raced'
    <3>1. Upserting(q) /\ writer'[q].source = writer[q].source
      BY <2>1, <2>3 DEF Upserting
    <3>2. CASE x = p
      <4>1. writer[q].source \in others
        BY <3>1
      <4>2. About[src] \cap About[writer[q].source] \subseteq Shared(src, others)
        BY <4>1 DEF Shared
      <4> QED BY <2>1, <2>2, <3>1, <3>2, <4>2
    <3>3. CASE x # p
      BY <2>1, <2>2, <2>3, <3>1, <3>3 DEF Apart, Purging
    <3> QED BY <3>2, <3>3
  <2> QED BY <2>1, <2>3 DEF Apart, Upserting, Purging
<1> QED BY <1>1, <1>2

\* No step but a purge's changes a purge that has begun to delete.
LEMMA ResumeKept ==
  ASSUME Types, Resumable, UNCHANGED <<nodes, tied, drawn>>, raced \subseteq raced',
         \A q \in Pods : purger'[q].todo \in {Clear1, Clear2, Keep1} => purger'[q] = purger[q]
  PROVE  TiesHold' /\ DrawnHold'
<1>1. TiesHold'
  BY DEF Resumable, TiesHold, nodes, Exists
<1>2. DrawnHold'
  BY DEF Resumable, DrawnHold, nodes, Exists, Doomed
<1> QED BY <1>1, <1>2

LEMMA ResumeWritten ==
  ASSUME Types, Owned, Owned', Resumable, GraphAssumption, NEW p \in Pods, Statement(p)
  PROVE  TiesHold' /\ DrawnHold'
<1> DEFINE src == writer[p].source  kind == Head(writer[p].todo)
<1>1. /\ src \in Sources /\ Upserting(p) /\ Write(p, kind, src) /\ UNCHANGED <<purger, raced>>
      /\ segs \subseteq segs' /\ Exists \subseteq Exists' /\ edges \subseteq edges'
      /\ Exists' \subseteq Exists \cup Gated(src)
  BY Writing
<1>2. ASSUME NEW x \in Pods, NEW e \in About[src] \cap About[purger[x].source], Purging(x)
      PROVE  e \in raced
  BY <1>1, <1>2 DEF Resumable, Apart
<1>3. \A x \in Pods : purger[x].todo \in {Clear1, Clear2, Keep1} => Purging(x)
  BY PurgeLists DEF Purging
<1>4. About[src] \subseteq Events /\ Gated(src) \subseteq About[src]
  BY <1>1, WantedForms DEF Gated
<1>5. TiesHold'
  <2>1. SUFFICES ASSUME NEW e \in Events, NEW s \in Sources, <<e, s>> \in tied'
                 PROVE  /\ e \in Exists'
                        /\ e \notin raced' =>
                             /\ s \in segs' /\ <<e, s>> \in edges'
                             /\ \A x \in Pods : purger'[x].todo = Clear1 => purger'[x].source # s
    BY DEF TiesHold
  <2>2. CASE <<e, s>> \in tied
    BY <1>1, <2>2 DEF Resumable, TiesHold
  <2>3. CASE <<e, s>> \notin tied
    <3>1. kind = "SUMMARIZES" /\ <<e, s>> \in Applied(src, kind)
      BY <1>1, <2>1, <2>3 DEF Write
    <3>2. UNCHANGED <<segs, event>> /\ <<e, s>> \in edges'
      BY <1>1, <3>1 DEF Write, Edgewise
    <3>3. e \in About[src] /\ s = src /\ Ends(<<e, s>>)
      BY <1>1, <3>1, WantedForms DEF Applied
    <3>4. e \in Exists' /\ s \in segs'
      BY <3>2, <3>3 DEF Ends, Exists
    <3>5. \A x \in Pods : purger[x].todo = Clear1 /\ purger[x].source = s => e \in raced
      BY <1>2, <1>3, <3>3
    <3> QED BY <1>1, <3>2, <3>4, <3>5
  <2> QED BY <2>2, <2>3
<1>6. DrawnHold'
  <2>1. SUFFICES ASSUME NEW e \in drawn', e \notin raced'
                 PROVE  /\ e \in Exists' /\ <<"DERIVED_FROM", e>> \in edges'
                        /\ \A x \in Pods :
                             purger'[x].todo \in {Clear2, Keep1} => e \notin Doomed(x)'
    BY DEF DrawnHold
  <2>2. e \in drawn \/ (kind = "DERIVED_FROM" /\ \E edge \in Applied(src, kind) : e = edge[2])
    BY <1>1, <2>1 DEF Write
  <2>3. /\ e \in Exists' /\ <<"DERIVED_FROM", e>> \in edges'
        /\ e \in drawn \/ e \in About[src]
    <3>1. CASE e \in drawn
      BY <1>1, <2>1, <3>1 DEF Resumable, DrawnHold
    <3>2. CASE kind = "DERIVED_FROM" /\ \E edge \in Applied(src, kind) : e = edge[2]
      <4>1. PICK edge \in Applied(src, kind) : e = edge[2]
        BY <3>2
      <4>2. edge \in {"DERIVED_FROM"} \X About[src] /\ Ends(edge)
        BY <1>1, <3>2, <4>1, WantedForms DEF Applied
      <4>3. e \in About[src] /\ edge = <<"DERIVED_FROM", e>> /\ edge \in Edges
        BY <1>4, <4>1, <4>2 DEF Edges, Kinds
      <4>4. "DERIVED_FROM" \notin Events
        BY DEF GraphAssumption
      <4>5. e \in Exists
        BY <4>2, <4>3, <4>4, EdgeForms
      <4>6. edge \in edges'
        BY <1>1, <3>2 DEF Write, Edgewise
      <4> QED BY <1>1, <4>3, <4>5, <4>6
    <3> QED BY <2>2, <3>1, <3>2
  <2>4. ASSUME NEW x \in Pods, purger[x].todo \in {Clear2, Keep1}, e \in Doomed(x)'
        PROVE  FALSE
    <3>1. e \in Events /\ <<e, purger[x].source>> \in edges' /\ e \notin purger[x].keep
      BY <1>1, <2>4 DEF Doomed, Exists
    <3>2. Purging(x) /\ purger[x].source \in Sources
      BY <1>3, <2>4 DEF Types, Working
    <3>3. e \in About[purger[x].source]
      BY <3>1, <3>2 DEF Owned
    <3>4. e \notin About[src]
      BY <1>1, <1>2, <2>1, <3>2, <3>3
    <3>5. e \in drawn /\ e \in Exists
      BY <1>1, <1>4, <2>3, <3>4
    <3>6. <<e, purger[x].source>> \in edges
      <4>1. CASE edges' = edges
        BY <3>1, <4>1
      <4>2. CASE Edgewise(kind) /\ edges' = edges \cup Applied(src, kind)
        <5>1. e \notin Kinds
          BY <3>1 DEF GraphAssumption, Kinds
        <5>2. <<e, purger[x].source>> \notin Wanted(src, kind)
          BY <1>1, <3>4, <4>2, <5>1, WantedForms DEF Edgewise, Kinds
        <5> QED BY <3>1, <4>2, <5>2 DEF Applied
      <4> QED BY <4>1, <4>2, Writing
    <3>7. e \in Doomed(x)
      BY <3>1, <3>5, <3>6 DEF Doomed
    <3> QED BY <1>1, <2>1, <2>4, <3>5, <3>7 DEF Resumable, DrawnHold
  <2> QED BY <1>1, <2>3, <2>4
<1> QED BY <1>5, <1>6

LEMMA ResumePurged ==
  ASSUME Types, Owned, Resumable, GraphAssumption, NEW p \in Pods, Purge(p)
  PROVE  TiesHold' /\ DrawnHold'
<1> DEFINE src == purger[p].source  t == purger[p].todo
<1>1. /\ src \in Sources /\ UNCHANGED raced
      /\ \A q \in Pods \ {p} : purger'[q] = purger[q]
      /\ purger'[p].todo # <<>> =>
           /\ purger'[p].source = src /\ purger'[p].keep = purger[p].keep
           /\ purger'[p].todo \in ClearSteps => t \in ClearSteps
  BY Purges
<1>2. PICK es \in SUBSET About[src], fs \in SUBSET About[src], ss \in SUBSET {src} :
        Dropped(es, fs, ss) /\ Deletes(p, es, fs, ss)
  BY Deleting
<1>3. About[src] \subseteq Events
  BY <1>1, WantedForms
<1>4. /\ Exists' = Exists \ es /\ facts' = facts \ fs /\ segs' = segs \ ss /\ edges' \subseteq edges
      /\ \A e \in Events, s \in Sources :
            <<e, s>> \in edges' <=> <<e, s>> \in edges /\ e \notin es /\ s \notin ss
      /\ \A e \in Events : <<"DERIVED_FROM", e>> \in edges' <=>
            <<"DERIVED_FROM", e>> \in edges /\ e \notin es /\ e \notin fs
      /\ \A e \in Events, s \in Sources : <<e, s>> \in tied' <=> <<e, s>> \in tied /\ e \notin es
      /\ drawn' = drawn \ fs
  BY <1>2 DEF Dropped
<1>5. \/ /\ t \in {Clear3, Keep2} /\ es = {} /\ ss = {}
         /\ fs = {e \in facts \cap Doomed(p) : <<"DERIVED_FROM", e>> \in edges}
         /\ purger'[p].todo \in {Clear2, Keep1}
      \/ /\ t \in {Clear2, Keep1} /\ es = Doomed(p) /\ fs = {} /\ ss = {}
         /\ purger'[p].todo \in {Clear1, <<>>}
      \/ t = Clear1 /\ es = {} /\ fs = {} /\ ss = {src} /\ purger'[p].todo = <<>>
  BY <1>2 DEF Deletes
<1>6. /\ Clear1 # <<>> /\ Clear2 # <<>> /\ Keep1 # <<>>
      /\ Clear1 \notin {Clear2, Clear3, Keep1, Keep2} /\ Clear2 \notin {Clear3, Keep1, Keep2}
      /\ Keep1 \notin {Clear3, Keep2} /\ Clear1 \in ClearSteps
  BY PurgeLists, PurgeSteps DEF ClearSteps, KeepSteps
<1>7. TiesHold'
  <2>1. SUFFICES ASSUME NEW e \in Events, NEW s \in Sources, <<e, s>> \in tied'
                 PROVE  /\ e \in Exists'
                        /\ e \notin raced' =>
                             /\ s \in segs' /\ <<e, s>> \in edges'
                             /\ \A x \in Pods : purger'[x].todo = Clear1 => purger'[x].source # s
    BY DEF TiesHold
  <2>2. /\ <<e, s>> \in tied /\ e \notin es /\ e \in Exists
        /\ e \notin raced =>
             /\ s \in segs /\ <<e, s>> \in edges
             /\ \A x \in Pods : purger[x].todo = Clear1 => purger[x].source # s
    BY <1>4, <2>1 DEF Resumable, TiesHold
  <2>3. e \notin raced => s \notin ss
    BY <1>5, <2>2
  <2>4. ASSUME e \notin raced, purger'[p].todo = Clear1, purger'[p].source = s
        PROVE  FALSE
    <3>1. es = Doomed(p) /\ t \in ClearSteps /\ src = s
      BY <1>1, <1>5, <1>6, <2>4
    <3>2. purger[p].keep = {}
      BY <3>1 DEF Types, Working
    <3> QED BY <2>2, <2>4, <3>1, <3>2 DEF Doomed
  <2> QED BY <1>1, <1>4, <2>2, <2>3, <2>4
<1>8. DrawnHold'
  <2>1. SUFFICES ASSUME NEW e \in drawn', e \notin raced'
                 PROVE  /\ e \in Exists' /\ <<"DERIVED_FROM", e>> \in edges'
                        /\ \A x \in Pods :
                             purger'[x].todo \in {Clear2, Keep1} => e \notin Doomed(x)'
    BY DEF DrawnHold
  <2>2. /\ e \in drawn /\ e \notin fs /\ e \in facts /\ e \in Events
        /\ e \in Exists /\ <<"DERIVED_FROM", e>> \in edges
        /\ \A x \in Pods : purger[x].todo \in {Clear2, Keep1} => e \notin Doomed(x)
    BY <1>1, <1>4, <2>1 DEF Resumable, DrawnHold, Types, History, GraphTypeOK
  <2>3. e \notin es
    BY <1>5, <2>2
  <2>4. ASSUME NEW x \in Pods, purger'[x].todo \in {Clear2, Keep1}, e \in Doomed(x)'
        PROVE  FALSE
    <3>1. purger'[x].source = purger[x].source /\ purger'[x].keep = purger[x].keep
      BY <1>1, <1>6, <2>4
    <3>2. <<e, purger[x].source>> \in edges /\ e \notin purger[x].keep
      BY <1>4, <2>4, <3>1 DEF Doomed
    <3>3. e \in Doomed(x)
      BY <2>2, <3>2 DEF Doomed
    <3>4. purger[x].todo \in {Clear2, Keep1} => FALSE
      BY <2>2, <3>3
    <3>5. x = p
      BY <1>1, <2>4, <3>4
    <3>6. fs = {f \in facts \cap Doomed(p) : <<"DERIVED_FROM", f>> \in edges}
      BY <1>5, <1>6, <2>4, <3>5
    <3> QED BY <2>2, <3>3, <3>5, <3>6
  <2> QED BY <1>4, <2>2, <2>3, <2>4
<1> QED BY <1>7, <1>8

LEMMA ResumeStep ==
  ASSUME Types, Owned, Types', Owned', Resumable, GraphAssumption, [GraphNext]_graphVars
  PROVE  Resumable'
<1> USE DEF Resumable
<1>lists. /\ <<>> \notin {Clear1, Clear2, Keep1} /\ Clear3 \notin {Clear1, Clear2, Keep1}
          /\ Keep2 \notin {Clear1, Clear2, Keep1} /\ Last1 # <<>>
          /\ Deletions(TRUE) = Clear3 /\ Deletions(FALSE) = Keep2
  BY Lists, PurgeLists, PurgeSteps DEF ClearSteps, KeepSteps
\* The upserts and the purges that are under way go on as they were.
<1>quiet. ASSUME UNCHANGED <<nodes, tied, drawn, raced>>, UNCHANGED purger,
                 \A q \in Pods : writer'[q].todo # <<>> =>
                   writer[q].todo # <<>> /\ writer'[q].source = writer[q].source
          PROVE  Resumable'
  BY <1>quiet, ApartKept, ResumeKept
<1>1. ASSUME NEW p \in Pods, NEW src \in Sources, NEW node \in Node, BeginUpsert(p, src, node)
      PROVE  Resumable'
  <2>1. UNCHANGED <<nodes, tied, drawn, purger>>
    BY <1>1 DEF BeginUpsert
  <2> QED BY <1>1, <2>1, ApartUpsert, ResumeKept
<1>2. ASSUME NEW p \in Pods, Statement(p) PROVE Resumable'
  <2>1. TiesHold' /\ DrawnHold'
    BY <1>2, ResumeWritten
  <2>2. UNCHANGED <<purger, raced>> /\ writer[p].todo # <<>>
    BY <1>2 DEF Statement, Upserting
  <2>3. /\ \A q \in Pods \ {p} : writer'[q] = writer[q]
        /\ writer'[p].source = writer[p].source
    BY <1>2 DEF Statement, Types, Working
  <2>4. Apart'
    BY <2>2, <2>3, ApartKept
  <2> QED BY <2>1, <2>4
<1>3. ASSUME NEW p \in Pods, StatementFails(p) PROVE Resumable'
  <2>1. UNCHANGED <<nodes, tied, drawn, raced, purger>> /\ writer[p].todo # <<>>
    BY <1>3 DEF StatementFails, Upserting, past
  <2>2. /\ \A q \in Pods \ {p} : writer'[q] = writer[q]
        /\ writer'[p].source = writer[p].source
    BY <1>3 DEF StatementFails, Types, Working
  <2> QED BY <2>1, <2>2, <1>quiet
<1>4. ASSUME NEW p \in Pods, WriteVectors(p) \/ VectorsFail(p) PROVE Resumable'
  <2>1. /\ UNCHANGED <<nodes, tied, drawn, raced, purger>>
        /\ writer' = [writer EXCEPT ![p] = NoUpsert]
    BY <1>4 DEF WriteVectors, VectorsFail, past
  <2>2. /\ \A q \in Pods \ {p} : writer'[q] = writer[q]
        /\ writer'[p].todo = <<>>
    BY <2>1 DEF Types, Working, NoUpsert
  <2> QED BY <2>1, <2>2, <1>quiet
<1>5. ASSUME NEW p \in Pods, BreakerCloses(p) PROVE Resumable'
  BY <1>5, <1>quiet DEF BreakerCloses, past
<1>6. ASSUME NEW p \in Pods, NEW src \in Sources, NEW clears \in BOOLEAN,
             NEW keep \in SUBSET Events, BeginSourcePurge(p, src, clears, keep)
      PROVE  Resumable'
  <2>1. UNCHANGED <<nodes, tied, drawn>>
    BY <1>6 DEF BeginSourcePurge
  <2>2. \A q \in Pods : purger'[q].todo \in {Clear1, Clear2, Keep1} => purger'[q] = purger[q]
    <3>1. CASE breaker[p].open
      BY <1>6, <3>1 DEF BeginSourcePurge
    <3>2. CASE ~breaker[p].open
      <4>1. /\ \A q \in Pods \ {p} : purger'[q] = purger[q]
            /\ purger'[p].todo = Deletions(clears)
        BY <1>6, <3>2 DEF BeginSourcePurge, Types, Working
      <4> QED BY <4>1, <1>lists
    <3> QED BY <3>1, <3>2
  <2>3. Apart' /\ raced \subseteq raced'
    BY <1>6, ApartPurge
  <2> QED BY <2>1, <2>2, <2>3, ResumeKept
<1>7. ASSUME NEW p \in Pods, Purge(p) PROVE Resumable'
  <2>1. TiesHold' /\ DrawnHold'
    BY <1>7, ResumePurged
  <2>2. /\ UNCHANGED <<writer, raced>> /\ purger[p].todo # <<>>
        /\ \A q \in Pods \ {p} : purger'[q] = purger[q]
        /\ purger'[p].todo # <<>> => purger'[p].source = purger[p].source
    BY <1>7, Purges DEF Purging
  <2>3. Apart'
    BY <2>2, ApartKept
  <2> QED BY <2>1, <2>3
<1>8. ASSUME NEW p \in Pods, SourcePurgeFails(p) PROVE Resumable'
  <2>1. /\ UNCHANGED <<nodes, tied, drawn, raced, writer>>
        /\ purger' = [purger EXCEPT ![p] = NoPurge]
    BY <1>8 DEF SourcePurgeFails, past
  <2>2. /\ \A q \in Pods \ {p} : purger'[q] = purger[q]
        /\ purger'[p].todo = <<>>
    BY <2>1 DEF Types, Working, NoPurge
  <2>3. Apart'
    BY <2>1, <2>2, ApartKept
  <2>4. TiesHold' /\ DrawnHold'
    BY <2>1, <2>2, <1>lists, ResumeKept
  <2> QED BY <2>3, <2>4
<1>9. ASSUME NEW p \in Pods, BuildFirstMeetings(p) \/ ExplainFirstMeeting(p) PROVE Resumable'
  BY <1>9, <1>quiet DEF BuildFirstMeetings, ExplainFirstMeeting
<1>10. ASSUME NEW p \in Pods, NEW e \in Events, ExplainEvent(p, e) PROVE Resumable'
  BY <1>10, <1>quiet DEF ExplainEvent, past
<1>11. ASSUME NEW p \in Pods, NEW key \in Events \cup {"meet"}, Forget(p, key) PROVE Resumable'
  BY <1>11, <1>quiet DEF Forget
<1>15. ASSUME NEW p \in Pods, NEW key \in Events \cup {"meet"}, ExplainFails(p, key)
       PROVE  Resumable'
  BY <1>15, <1>quiet DEF ExplainFails
<1>16. ASSUME NEW e \in Events, Lapse(e) PROVE Resumable'
  <2>1. /\ event' = [event EXCEPT ![e].shown = FALSE] /\ event[e] # None
        /\ UNCHANGED <<segs, facts, edges, writer, purger, tied, drawn, raced>>
    BY <1>16 DEF Lapse, Exists
  <2>2. Exists' = Exists
    BY <2>1, Lapses
  <2>3. Apart'
    BY <2>1, ApartKept
  <2>4. TiesHold' /\ DrawnHold'
    BY <2>1, <2>2 DEF TiesHold, DrawnHold, Doomed
  <2> QED BY <2>3, <2>4
<1>12. CASE UNCHANGED graphVars
  BY <1>12, <1>quiet DEF graphVars, past
<1>13. \A p \in Pods, src \in Sources : BeginSourcePurge(p, src, TRUE, {}) => Resumable'
  BY <1>6
<1>14. \A p \in Pods, src \in Sources, keep \in SUBSET Events :
         BeginSourcePurge(p, src, FALSE, keep) => Resumable'
  BY <1>6
<1> QED
  BY <1>1, <1>2, <1>3, <1>4, <1>5, <1>7, <1>8, <1>9, <1>10, <1>11, <1>12, <1>13, <1>14,
     <1>15, <1>16
  DEF GraphNext

\* The nodes, the edges, the calls and the answers have their types, and no
\* edge is left without its two ends: a deletion takes the edges of a node with
\* it, and an edge statement binds the nodes it finds (neo4j_store).
THEOREM GraphTypes == GraphSpec => []GraphTypeOK
<1>1. GraphInit => Types /\ Owned
  BY TypesInit, GraphAssumption
<1>2. Types /\ Owned /\ [GraphNext]_graphVars => (Types /\ Owned)'
  BY TypesStep, GraphAssumption
<1>3. Types /\ Owned => GraphTypeOK
  BY DEF Types
<1> QED BY <1>1, <1>2, <1>3, PTL DEF GraphSpec

\* A purge of a source that was cut between its statements, or failed at one of
\* them, finds what it has not deleted when it is called again, whatever upserts
\* and purges of other events ran meanwhile: purge_source deletes from the facts
\* to the segments, and an upsert ties an event only to a segment it finds.
THEOREM PurgeIsResumable == GraphSpec => []PurgeCanResume
<1> DEFINE Inv == Types /\ Owned /\ Resumable
<1>1. GraphInit => Inv
  <2>1. SUFFICES ASSUME GraphInit PROVE Inv
    OBVIOUS
  <2>2. Types /\ Owned
    BY <2>1, TypesInit, GraphAssumption
  <2>3. \A p \in Pods : ~Upserting(p)
    BY <2>1 DEF GraphInit, Upserting, NoUpsert
  <2>4. Resumable
    BY <2>1, <2>3 DEF GraphInit, Resumable, Apart, TiesHold, DrawnHold
  <2> QED BY <2>2, <2>4
<1>2. Inv /\ [GraphNext]_graphVars => Inv'
  BY TypesStep, ResumeStep, GraphAssumption
<1>3. Inv => PurgeCanResume
  BY DEF PurgeCanResume, Resumable, TiesHold, DrawnHold
<1> QED BY <1>1, <1>2, <1>3, PTL DEF GraphSpec

-----------------------------------------------------------------------------
(* The explanations.                                                       *)

\* A pod whose purge clears has no explanation, and what it removed is either
\* still gone or was written again.
Known ==
  /\ \A p \in Pods : Purging(p) /\ purger[p].clears => cache[p] = NoAnswer
  /\ \A p \in Pods : purged[p] \cap Exists = {}
  /\ PurgedIsUnknown

\* The answers that no write followed are those the graph gives now.
Answered ==
  /\ "edge" \in asOf => meet \in Earliest(Meetings)
  /\ \A p \in Pods : p \in asOf /\ cache[p]["meet"] # None =>
       cache[p]["meet"] \in IF Queried = {} THEN {Unknown} ELSE Earliest(Queried)

LEMMA Answers ==
  ASSUME Types, GraphAssumption
  PROVE  /\ None \notin Events /\ Unknown \notin Events
         /\ "meet" \notin Events /\ "edge" \notin Pods
         /\ Meetings \subseteq Exists /\ Queried = Meetings /\ Exists \subseteq Events
         /\ \A p \in Pods, key \in Events \cup {"meet"} : NoAnswer[key] = None
         /\ \A p \in Pods : purged[p] \subseteq Events
  BY DEF GraphAssumption, Unknown, Meetings, Queried, Exists, NoAnswer, Types, History

\* The meetings are those of before, unless an event or its edge to the people
\* changes.
LEMMA SameMeetings ==
  ASSUME Exists' = Exists, \A e \in Exists : event'[e] = event[e],
         \A e \in Events : <<"INVOLVES", e>> \in edges' <=> <<"INVOLVES", e>> \in edges
  PROVE  /\ Meetings' = Meetings /\ Queried' = Queried
         /\ Earliest(Meetings)' = Earliest(Meetings) /\ Earliest(Queried)' = Earliest(Queried)
<1>1. Exists \subseteq Events
  BY DEF Exists
<1>2. Meetings' = Meetings /\ Queried' = Queried
  BY <1>1 DEF Meetings, Queried
<1>3. Meetings \subseteq Exists /\ Queried \subseteq Exists
  BY DEF Meetings, Queried
<1> QED BY <1>2, <1>3 DEF Earliest

LEMMA AnsweredKept ==
  ASSUME Answered, Exists' = Exists, \A e \in Exists : event'[e] = event[e],
         \A e \in Events : <<"INVOLVES", e>> \in edges' <=> <<"INVOLVES", e>> \in edges,
         asOf' \subseteq asOf, meet' = meet,
         \A p \in Pods : p \in asOf' /\ cache'[p]["meet"] # None =>
           cache'[p]["meet"] = cache[p]["meet"]
  PROVE  Answered'
<1>1. /\ Meetings' = Meetings /\ Queried' = Queried
      /\ Earliest(Meetings)' = Earliest(Meetings) /\ Earliest(Queried)' = Earliest(Queried)
  BY SameMeetings
<1>2. "edge" \in asOf' => meet' \in Earliest(Meetings)'
  BY <1>1 DEF Answered
<1>3. ASSUME NEW p \in Pods, p \in asOf', cache'[p]["meet"] # None
      PROVE  cache'[p]["meet"] \in IF Queried' = {} THEN {Unknown} ELSE Earliest(Queried)'
  BY <1>1, <1>3 DEF Answered
<1> QED BY <1>2, <1>3 DEF Answered, Unknown

LEMMA KnownKept ==
  ASSUME Known, UNCHANGED <<event, purged, cache>>,
         \A p \in Pods : purger'[p].todo # <<>> /\ purger'[p].clears =>
           purger[p].todo # <<>> /\ purger[p].clears
  PROVE  Known'
  BY DEF Known, Purging, PurgedIsUnknown, Exists, NoAnswer

\* A statement that writes events has them no longer purged, and makes the
\* answers old.
LEMMA ExplainWritten ==
  ASSUME Types, GraphAssumption, Known, Answered, NEW p \in Pods, Statement(p)
  PROVE  Known' /\ Answered'
<1> DEFINE src == writer[p].source  kind == Head(writer[p].todo)
<1>1. /\ src \in Sources /\ Write(p, kind, src) /\ UNCHANGED <<purger, cache, meet>>
      /\ Exists \subseteq Exists' /\ Exists' \subseteq Exists \cup Gated(src)
      /\ edges \subseteq edges'
  BY Writing
<1>2. CASE kind = "events"
  <2>1. asOf' = {} /\ purged' = [q \in Pods |-> purged[q] \ Gated(src)]
    BY <1>1, <1>2 DEF Write
  <2>2. Answered'
    BY <2>1 DEF Answered
  <2>3. \A q \in Pods : purged'[q] \subseteq purged[q] /\ purged'[q] \cap Exists' = {}
    BY <1>1, <2>1 DEF Known
  <2>4. Known'
    BY <1>1, <2>3 DEF Known, Purging, PurgedIsUnknown, NoAnswer
  <2> QED BY <2>2, <2>4
<1>3. CASE kind # "events"
  <2>1. UNCHANGED <<event, purged>>
    BY <1>1, <1>3 DEF Write
  <2>2. Known'
    BY <1>1, <2>1, KnownKept
  <2>3. CASE kind = "INVOLVES"
    <3>1. asOf' = {}
      BY <1>1, <2>3 DEF Write
    <3> QED BY <2>2, <3>1 DEF Answered
  <2>4. CASE kind # "INVOLVES"
    <3>1. ASSUME NEW e \in Events, <<"INVOLVES", e>> \in edges' PROVE <<"INVOLVES", e>> \in edges
      <4>1. CASE edges' = edges
        BY <3>1, <4>1
      <4>2. CASE Edgewise(kind) /\ edges' = edges \cup Applied(src, kind)
        <5>1. "INVOLVES" \notin Events
          BY DEF GraphAssumption
        <5>2. <<"INVOLVES", e>> \notin Wanted(src, kind)
          BY <1>1, <2>4, <4>2, <5>1, WantedForms DEF Edgewise
        <5> QED BY <3>1, <4>2, <5>2 DEF Applied
      <4> QED BY <4>1, <4>2, Writing
    <3>2. UNCHANGED asOf /\ Exists' = Exists
      BY <1>1, <1>3, <2>1, <2>4 DEF Write, Exists
    <3>3. Answered'
      BY <1>1, <2>1, <3>1, <3>2, AnsweredKept
    <3> QED BY <2>2, <3>3
  <2> QED BY <2>3, <2>4
<1> QED BY <1>2, <1>3

\* A deletion of events makes the answers old; purge_source does it when the pod
\* has forgotten its explanations.
LEMMA ExplainPurged ==
  ASSUME Types, Owned, GraphAssumption, Known, Answered, NEW p \in Pods, Purge(p)
  PROVE  Known' /\ Answered'
<1> DEFINE t == purger[p].todo
<1>1. /\ UNCHANGED <<cache, meet>> /\ Purging(p)
      /\ \A q \in Pods \ {p} : purger'[q] = purger[q]
      /\ purger'[p].todo # <<>> => purger'[p].clears = purger[p].clears
      /\ Head(t) = "events" <=> t \in {Clear2, Keep1}
  BY Purges
<1>2. PICK es \in SUBSET About[purger[p].source], fs \in SUBSET About[purger[p].source],
           ss \in SUBSET {purger[p].source} : Dropped(es, fs, ss) /\ Deletes(p, es, fs, ss)
  BY Deleting
<1>3. /\ Exists' = Exists \ es /\ \A e \in Exists' : event'[e] = event[e]
      /\ \A e \in Events :
           <<"INVOLVES", e>> \in edges' <=> <<"INVOLVES", e>> \in edges /\ e \notin es
      /\ asOf' \subseteq asOf /\ (es # {} => asOf' = {})
  BY <1>2 DEF Dropped
<1>4. t \in {Clear2, Keep1} => es = Doomed(p)
  BY <1>2, PurgeSteps DEF Deletes, ClearSteps, KeepSteps
<1>5. Answered'
  <2>1. CASE es = {}
    BY <1>1, <1>3, <2>1, AnsweredKept
  <2>2. CASE es # {}
    BY <1>3, <2>2 DEF Answered
  <2> QED BY <2>1, <2>2
<1>6. purged' = IF Head(t) = "events" /\ purger[p].clears
                THEN [purged EXCEPT ![p] = @ \cup Doomed(p)] ELSE purged
  BY DEF Purge
<1>7. \A q \in Pods : purged'[q] \cap Exists' = {}
  <2>1. CASE Head(t) = "events" /\ purger[p].clears
    BY <1>1, <1>3, <1>4, <1>6, <2>1 DEF Known, Types, History
  <2>2. CASE ~(Head(t) = "events" /\ purger[p].clears)
    BY <1>3, <1>6, <2>2 DEF Known
  <2> QED BY <2>1, <2>2
<1>8. ASSUME NEW q \in Pods, NEW key \in Events \cup {"meet"} PROVE cache'[q][key] \notin purged'[q]
  <2>1. CASE q = p /\ Head(t) = "events" /\ purger[p].clears
    <3>1. cache[p][key] = None
      BY <1>1, <2>1, Answers DEF Known
    <3>2. Doomed(p) \subseteq Events
      BY DEF Doomed, Exists
    <3> QED BY <1>1, <1>6, <2>1, <3>1, <3>2, Answers DEF Types, History
  <2>2. CASE ~(q = p /\ Head(t) = "events" /\ purger[p].clears)
    <3>1. purged'[q] = purged[q]
      BY <1>6, <2>2 DEF Types, History
    <3> QED BY <1>1, <3>1 DEF Known, PurgedIsUnknown
  <2> QED BY <2>1, <2>2
<1>9. \A q \in Pods : Purging(q)' /\ purger'[q].clears => cache'[q] = NoAnswer
  BY <1>1 DEF Known, Purging
<1>10. Known'
  BY <1>7, <1>8, <1>9 DEF Known, PurgedIsUnknown, NoAnswer
<1> QED BY <1>5, <1>10

\* One pod learns an answer or forgets one.
LEMMA KnownLearned ==
  ASSUME Known, UNCHANGED <<event, purged>>, NEW p \in Pods,
         \A q \in Pods \ {p} : cache'[q] = cache[q] /\ purger'[q] = purger[q],
         \A key \in Events \cup {"meet"} : cache'[p][key] \notin purged[p],
         purger'[p].todo # <<>> /\ purger'[p].clears => cache'[p] = NoAnswer
  PROVE  Known'
<1>1. \A q \in Pods : Purging(q)' /\ purger'[q].clears => cache'[q] = NoAnswer
  BY DEF Known, Purging
<1>2. \A q \in Pods : purged'[q] \cap Exists' = {}
  BY DEF Known, Exists
<1>3. \A q \in Pods, key \in Events \cup {"meet"} : cache'[q][key] \notin purged'[q]
  BY DEF Known, PurgedIsUnknown
<1> QED BY <1>1, <1>2, <1>3 DEF Known, PurgedIsUnknown, NoAnswer

LEMMA ExplainStep ==
  ASSUME Types, Owned, GraphAssumption, Known, Answered, [GraphNext]_graphVars
  PROVE  Known' /\ Answered'
<1>types. /\ cache \in [Pods -> [Events \cup {"meet"} -> Events \cup {None, Unknown}]]
          /\ writer \in [Pods -> Upsert] /\ purger \in [Pods -> Removal]
  BY DEF Types, GraphTypeOK, Working
\* A step that changes neither the events nor what is known of them.
<1>quiet. ASSUME UNCHANGED <<nodes, purged, cache, meet, asOf>>,
                 \A q \in Pods : purger'[q].todo # <<>> /\ purger'[q].clears =>
                   purger[q].todo # <<>> /\ purger[q].clears
          PROVE  Known' /\ Answered'
  <2>1. Known'
    BY <1>quiet, KnownKept DEF nodes
  <2>2. Exists' = Exists
    BY <1>quiet DEF nodes, Exists
  <2>3. Answered'
    BY <1>quiet, <2>2, AnsweredKept DEF nodes
  <2> QED BY <2>1, <2>3
<1>1. ASSUME NEW p \in Pods, NEW src \in Sources, NEW node \in Node, BeginUpsert(p, src, node)
      PROVE  Known' /\ Answered'
  BY <1>1, <1>quiet DEF BeginUpsert
<1>2. ASSUME NEW p \in Pods, Statement(p) PROVE Known' /\ Answered'
  BY <1>2, ExplainWritten
<1>3. ASSUME NEW p \in Pods, StatementFails(p) PROVE Known' /\ Answered'
  BY <1>3, <1>quiet DEF StatementFails, past
<1>4. ASSUME NEW p \in Pods, WriteVectors(p) \/ VectorsFail(p) PROVE Known' /\ Answered'
  <2>1. UNCHANGED <<nodes, purged, cache, meet, asOf, purger>>
    BY <1>4 DEF WriteVectors, VectorsFail, past
  <2> QED BY <2>1, <1>quiet
<1>5. ASSUME NEW p \in Pods, BreakerCloses(p) PROVE Known' /\ Answered'
  BY <1>5, <1>quiet DEF BreakerCloses, past
<1>6. ASSUME NEW p \in Pods, NEW src \in Sources, NEW clears \in BOOLEAN,
             NEW keep \in SUBSET Events, BeginSourcePurge(p, src, clears, keep)
      PROVE  Known' /\ Answered'
  <2>1. /\ UNCHANGED <<nodes, purged, meet>> /\ ~Purging(p)
        /\ cache' = [cache EXCEPT ![p] = Forgotten(p, clears)]
    BY <1>6 DEF BeginSourcePurge
  <2>2. /\ \A q \in Pods \ {p} : cache'[q] = cache[q]
        /\ clears => cache'[p] = NoAnswer
        /\ ~clears => cache'[p] = cache[p]
    BY <2>1, <1>types DEF Forgotten
  <2>3. /\ \A q \in Pods \ {p} : purger'[q] = purger[q]
        /\ purger'[p].todo # <<>> => purger'[p].clears = clears
    <3>1. CASE breaker[p].open
      BY <1>6, <2>1, <3>1 DEF BeginSourcePurge, Purging
    <3>2. CASE ~breaker[p].open
      BY <1>6, <3>2, <1>types DEF BeginSourcePurge
    <3> QED BY <3>1, <3>2
  <2>4. \A key \in Events \cup {"meet"} : cache'[p][key] \notin purged[p]
    <3>1. CASE clears
      BY <2>2, <3>1, Answers
    <3>2. CASE ~clears
      BY <2>2, <3>2 DEF Known, PurgedIsUnknown
    <3> QED BY <3>1, <3>2
  <2>5. Known'
    BY <2>1, <2>2, <2>3, <2>4, KnownLearned DEF nodes
  <2>6. \A q \in Pods : cache'[q]["meet"] # None => cache'[q]["meet"] = cache[q]["meet"]
    BY <2>2, Answers
  <2>7. UNCHANGED asOf /\ Exists' = Exists
    BY <1>6, <2>1 DEF BeginSourcePurge, nodes, Exists
  <2>8. Answered'
    BY <2>1, <2>6, <2>7, AnsweredKept DEF nodes
  <2> QED BY <2>5, <2>8
<1>7. ASSUME NEW p \in Pods, Purge(p) PROVE Known' /\ Answered'
  BY <1>7, ExplainPurged
<1>8. ASSUME NEW p \in Pods, SourcePurgeFails(p) PROVE Known' /\ Answered'
  <2>1. /\ UNCHANGED <<nodes, purged, cache, meet, asOf>>
        /\ purger' = [purger EXCEPT ![p] = NoPurge]
    BY <1>8 DEF SourcePurgeFails, past
  <2>2. NoPurge.clears = FALSE
    BY DEF NoPurge
  <2> QED BY <2>1, <2>2, <1>quiet, <1>types
<1>9. ASSUME NEW p \in Pods, BuildFirstMeetings(p) PROVE Known' /\ Answered'
  <2>1. /\ UNCHANGED <<nodes, cache, purger, purged>> /\ asOf' = asOf \cup {"edge"}
        /\ meet' \in Earliest(Meetings)
    BY <1>9 DEF BuildFirstMeetings
  <2>2. Known'
    BY <2>1, KnownKept DEF nodes
  <2>3. Exists' = Exists
    BY <2>1 DEF nodes, Exists
  <2>4. /\ Meetings' = Meetings /\ Queried' = Queried
        /\ Earliest(Meetings)' = Earliest(Meetings) /\ Earliest(Queried)' = Earliest(Queried)
    BY <2>1, <2>3, SameMeetings DEF nodes
  <2>5. "edge" \in asOf' => meet' \in Earliest(Meetings)'
    BY <2>1, <2>4
  <2>6. ASSUME NEW q \in Pods, q \in asOf', cache'[q]["meet"] # None
        PROVE  cache'[q]["meet"] \in IF Queried' = {} THEN {Unknown} ELSE Earliest(Queried)'
    BY <2>1, <2>4, <2>6, Answers DEF Answered
  <2> QED BY <2>2, <2>5, <2>6 DEF Answered, Unknown
<1>10. ASSUME NEW p \in Pods, ExplainFirstMeeting(p) PROVE Known' /\ Answered'
  <2>1. PICK e \in IF breaker[p].open \/ Queried = {} THEN {Unknown} ELSE Earliest(Queried) :
          cache' = [cache EXCEPT ![p]["meet"] = e]
    BY <1>10 DEF ExplainFirstMeeting
  <2>2. /\ UNCHANGED <<nodes, meet, purger, purged>> /\ ~Purging(p)
        /\ asOf' = IF breaker[p].open THEN asOf \ {p} ELSE asOf \cup {p}
    BY <1>10 DEF ExplainFirstMeeting
  <2>3. /\ \A q \in Pods \ {p} : cache'[q] = cache[q]
        /\ cache'[p]["meet"] = e
        /\ \A key \in Events : cache'[p][key] = cache[p][key]
    BY <2>1, <1>types, Answers
  <2>4. e \notin purged[p]
    <3>1. CASE e = Unknown
      BY <3>1, Answers
    <3>2. CASE e # Unknown
      <4>1. e \in Exists
        BY <3>2, Answers DEF Earliest
      <4> QED BY <4>1 DEF Known
    <3> QED BY <3>1, <3>2
  <2>5. Known'
    <3>1. \A key \in Events \cup {"meet"} : cache'[p][key] \notin purged[p]
      BY <2>3, <2>4 DEF Known, PurgedIsUnknown
    <3> QED BY <2>2, <2>3, <3>1, KnownLearned DEF nodes, Purging
  <2>6. Exists' = Exists
    BY <2>2 DEF nodes, Exists
  <2>7. /\ Meetings' = Meetings /\ Queried' = Queried
        /\ Earliest(Meetings)' = Earliest(Meetings) /\ Earliest(Queried)' = Earliest(Queried)
    BY <2>2, <2>6, SameMeetings DEF nodes
  <2>8. "edge" \in asOf' => meet' \in Earliest(Meetings)'
    BY <2>2, <2>7, Answers DEF Answered
  <2>9. ASSUME NEW q \in Pods, q \in asOf', cache'[q]["meet"] # None
        PROVE  cache'[q]["meet"] \in IF Queried' = {} THEN {Unknown} ELSE Earliest(Queried)'
    <3>1. CASE q = p
      BY <2>2, <2>3, <2>7, <2>9, <3>1
    <3>2. CASE q # p
      BY <2>2, <2>3, <2>7, <2>9, <3>2 DEF Answered
    <3> QED BY <3>1, <3>2
  <2> QED BY <2>5, <2>8, <2>9 DEF Answered, Unknown
<1>11. ASSUME NEW p \in Pods, NEW f \in Events, ExplainEvent(p, f) PROVE Known' /\ Answered'
  <2>1. PICK answer \in {f, Unknown} :
          /\ cache' = [cache EXCEPT ![p][f] = answer] /\ (answer = f => f \in Exists \/ f = Unknown)
    BY <1>11 DEF ExplainEvent
  <2>2. UNCHANGED <<nodes, meet, purger, purged, asOf>> /\ ~Purging(p)
    BY <1>11 DEF ExplainEvent, past
  <2>3. /\ \A q \in Pods \ {p} : cache'[q] = cache[q]
        /\ cache'[p][f] = answer
        /\ \A key \in (Events \cup {"meet"}) \ {f} : cache'[p][key] = cache[p][key]
    BY <2>1, <1>types
  <2>4. answer \notin purged[p]
    BY <2>1, Answers DEF Known
  <2>5. \A key \in Events \cup {"meet"} : cache'[p][key] \notin purged[p]
    BY <2>3, <2>4 DEF Known, PurgedIsUnknown
  <2>6. Known'
    BY <2>2, <2>3, <2>5, KnownLearned DEF nodes, Purging
  <2>7. \A q \in Pods : cache'[q]["meet"] = cache[q]["meet"]
    BY <2>3, Answers
  <2>8. Exists' = Exists
    BY <2>2 DEF nodes, Exists
  <2>9. Answered'
    BY <2>2, <2>7, <2>8, AnsweredKept DEF nodes
  <2> QED BY <2>6, <2>9
<1>12. ASSUME NEW p \in Pods, NEW key \in Events \cup {"meet"}, Forget(p, key)
       PROVE  Known' /\ Answered'
  <2>1. /\ cache[p][key] # None /\ cache' = [cache EXCEPT ![p][key] = None]
        /\ UNCHANGED <<nodes, meet, purger, purged>>
        /\ asOf' \subseteq asOf
    BY <1>12 DEF Forget
  <2>2. /\ \A q \in Pods \ {p} : cache'[q] = cache[q]
        /\ cache'[p][key] = None
        /\ \A other \in (Events \cup {"meet"}) \ {key} : cache'[p][other] = cache[p][other]
    BY <2>1, <1>types
  <2>3. \A other \in Events \cup {"meet"} : cache'[p][other] \notin purged[p]
    BY <2>2, Answers DEF Known, PurgedIsUnknown
  <2>4. ~(Purging(p) /\ purger[p].clears)
    BY <2>1, Answers DEF Known
  <2>5. Known'
    BY <2>1, <2>2, <2>3, <2>4, KnownLearned DEF nodes, Purging
  <2>6. \A q \in Pods : cache'[q]["meet"] # None => cache'[q]["meet"] = cache[q]["meet"]
    BY <2>2
  <2>7. Exists' = Exists
    BY <2>1 DEF nodes, Exists
  <2>8. Answered'
    BY <2>1, <2>6, <2>7, AnsweredKept DEF nodes
  <2> QED BY <2>5, <2>8
<1>16. ASSUME NEW p \in Pods, NEW key \in Events \cup {"meet"}, ExplainFails(p, key)
       PROVE  Known' /\ Answered'
  <2>1. /\ cache' = [cache EXCEPT ![p][key] = Unknown] /\ ~Purging(p)
        /\ UNCHANGED <<nodes, meet, purger, purged>>
        /\ asOf' = IF key = "meet" THEN asOf \ {p} ELSE asOf
    BY <1>16 DEF ExplainFails
  <2>2. /\ \A q \in Pods \ {p} : cache'[q] = cache[q]
        /\ cache'[p][key] = Unknown
        /\ \A other \in (Events \cup {"meet"}) \ {key} : cache'[p][other] = cache[p][other]
    BY <2>1, <1>types
  <2>3. \A other \in Events \cup {"meet"} : cache'[p][other] \notin purged[p]
    BY <2>2, Answers DEF Known, PurgedIsUnknown
  <2>4. Known'
    BY <2>1, <2>2, <2>3, KnownLearned DEF nodes, Purging
  <2>5. asOf' \subseteq asOf /\ \A q \in Pods : q \in asOf' => cache'[q]["meet"] = cache[q]["meet"]
    BY <2>1, <2>2
  <2>6. Exists' = Exists
    BY <2>1 DEF nodes, Exists
  <2>7. Answered'
    BY <2>1, <2>5, <2>6, AnsweredKept DEF nodes
  <2> QED BY <2>4, <2>7
<1>17. ASSUME NEW e \in Events, Lapse(e) PROVE Known' /\ Answered'
  <2>1. /\ event' = [event EXCEPT ![e].shown = FALSE] /\ event[e] # None /\ asOf' = {}
        /\ UNCHANGED <<cache, purger, purged>>
    BY <1>17 DEF Lapse, Exists
  <2>2. Exists' = Exists
    BY <2>1, Lapses
  <2>3. Known'
    BY <2>1, <2>2 DEF Known, Purging, PurgedIsUnknown, NoAnswer
  <2> QED BY <2>1, <2>3 DEF Answered
<1>13. CASE UNCHANGED graphVars
  BY <1>13, <1>quiet DEF graphVars, past
<1>14. \A p \in Pods, src \in Sources : BeginSourcePurge(p, src, TRUE, {}) => Known' /\ Answered'
  BY <1>6
<1>15. \A p \in Pods, src \in Sources, keep \in SUBSET Events :
         BeginSourcePurge(p, src, FALSE, keep) => Known' /\ Answered'
  BY <1>6
<1> QED
  BY <1>1, <1>2, <1>3, <1>4, <1>5, <1>7, <1>8, <1>9, <1>10, <1>11, <1>12, <1>13, <1>14, <1>15,
     <1>16, <1>17
  DEF GraphNext

\* A pod never explains an event with what it knew before its own purge_source
\* removed it, for the purge clears the pod's cache before its first statement
\* and the pod answers nothing until its last; and the FIRST_MEET edge and the
\* explanation of the first meeting, computed by two queries, name events of the
\* same time until an event is written, deleted or lapses - unless the explanation
\* is that of an open breaker or of a query that failed.
THEOREM ExplanationsStayTrue == GraphSpec => []ExplanationsAgree
<1> DEFINE Inv == Types /\ Owned /\ Known /\ Answered
<1>1. GraphInit => Inv
  <2>1. SUFFICES ASSUME GraphInit PROVE Inv
    OBVIOUS
  <2>2. Types /\ Owned
    BY <2>1, TypesInit, GraphAssumption
  <2>3. /\ \A p \in Pods : purged[p] = {} /\ purger[p].clears = FALSE
        /\ asOf = {}
    BY <2>1 DEF GraphInit, NoPurge
  <2> QED BY <2>2, <2>3 DEF Known, PurgedIsUnknown, Answered
<1>2. Inv /\ [GraphNext]_graphVars => Inv'
  BY TypesStep, ExplainStep, GraphAssumption
<1>3. Inv => ExplanationsAgree
  <2>1. SUFFICES ASSUME Inv, NEW p \in Pods, {"edge", p} \subseteq asOf, cache[p]["meet"] # None
                 PROVE  /\ cache[p]["meet"] # Unknown
                        /\ event[meet].at = event[cache[p]["meet"]].at
    BY DEF ExplanationsAgree, MeetingsAgree, Known
  <2> DEFINE told == cache[p]["meet"]
  <2>2. /\ meet \in Earliest(Meetings) /\ Queried = Meetings
        /\ Unknown \notin Events /\ Meetings \subseteq Events
    BY <2>1, Answers, GraphAssumption DEF Answered
  <2>3. Queried # {}
    BY <2>2 DEF Earliest
  <2>4. told \in Earliest(Meetings)
    BY <2>1, <2>2, <2>3 DEF Answered
  <2>5. /\ meet \in Meetings /\ told \in Meetings
        /\ event[meet].at <= event[told].at /\ event[told].at <= event[meet].at
    BY <2>2, <2>4 DEF Earliest
  <2>6. event[meet] \in Node /\ event[told] \in Node
    <3>1. Meetings \subseteq Exists
      BY DEF Meetings
    <3> QED BY <2>1, <2>5, <3>1 DEF Types, GraphTypeOK, Exists
  <2>7. event[meet].at \in Nat /\ event[told].at \in Nat
    BY <2>6, GraphAssumption DEF Node, GraphAssumption
  <2>8. event[meet].at = event[told].at
    BY <2>5, <2>7
  <2> QED BY <2>2, <2>5, <2>8
<1> QED BY <1>1, <1>2, <1>3, PTL DEF GraphSpec

-----------------------------------------------------------------------------
(* A clean upsert is whole.                                                *)

\* What an upsert of s that met no error has written when t is left to do.
WrittenSoFar(s, t) ==
  /\ t \in AfterSegments => s \in segs
  /\ t \in AfterEvents => Gated(s) \subseteq Exists
  /\ t \in AfterFacts => About[s] \subseteq facts
  /\ t \in AfterTies => Wanted(s, "SUMMARIZES") \subseteq edges
  /\ t \in AfterInvolves => Wanted(s, "INVOLVES") \subseteq edges
  /\ t \in AfterDerived => Wanted(s, "DERIVED_FROM") \subseteq edges

CleanSoFar ==
  \A q \in Pods :
    Upserting(q) /\ writer[q].clean /\ About[writer[q].source] \cap raced = {} =>
      WrittenSoFar(writer[q].source, writer[q].todo)

\* The requests that stand are whole, and no purge works on their events.
IntactHold ==
  \A s \in intact :
    /\ WrittenSoFar(s, Last1) /\ Gated(s) \subseteq vectors
    /\ \A p \in Pods : Purging(p) => About[s] \cap About[purger[p].source] = {}

Intact == Apart /\ CleanSoFar /\ IntactHold

\* What was written of a request stays while its own nodes and edges do.
LEMMA WrittenKept ==
  ASSUME GraphAssumption, NEW s \in Sources, NEW t, WrittenSoFar(s, t),
         s \in segs => s \in segs',
         \A e \in About[s] :
           /\ e \in Exists => e \in Exists'
           /\ e \in facts => e \in facts'
           /\ <<e, s>> \in edges => <<e, s>> \in edges'
           /\ <<"INVOLVES", e>> \in edges => <<"INVOLVES", e>> \in edges'
           /\ <<"DERIVED_FROM", e>> \in edges => <<"DERIVED_FROM", e>> \in edges'
  PROVE  WrittenSoFar(s, t)'
<1>1. Gated(s) \subseteq About[s]
  BY DEF Gated
<1>2. t \in AfterEvents => Gated(s) \subseteq Exists'
  BY <1>1 DEF WrittenSoFar
<1>3. t \in AfterTies => Wanted(s, "SUMMARIZES") \subseteq edges'
  <2>1. SUFFICES ASSUME t \in AfterTies, NEW edge \in Wanted(s, "SUMMARIZES") PROVE edge \in edges'
    OBVIOUS
  <2>2. edge \in edges
    BY <2>1 DEF WrittenSoFar
  <2>3. PICK e \in About[s] : edge = <<e, s>>
    BY WantedForms
  <2> QED BY <2>2, <2>3
<1>4. t \in AfterInvolves => Wanted(s, "INVOLVES") \subseteq edges'
  <2>1. SUFFICES ASSUME t \in AfterInvolves, NEW edge \in Wanted(s, "INVOLVES") PROVE edge \in edges'
    OBVIOUS
  <2>2. edge \in edges
    BY <2>1 DEF WrittenSoFar
  <2>3. PICK e \in About[s] : edge = <<"INVOLVES", e>>
    BY WantedForms
  <2> QED BY <2>2, <2>3
<1>5. t \in AfterDerived => Wanted(s, "DERIVED_FROM") \subseteq edges'
  <2>1. SUFFICES ASSUME t \in AfterDerived, NEW edge \in Wanted(s, "DERIVED_FROM") PROVE edge \in edges'
    OBVIOUS
  <2>2. edge \in edges
    BY <2>1 DEF WrittenSoFar
  <2>3. PICK e \in About[s] : edge = <<"DERIVED_FROM", e>>
    BY WantedForms
  <2> QED BY <2>2, <2>3
<1> QED BY <1>2, <1>3, <1>4, <1>5 DEF WrittenSoFar, Gated, Wanted

\* A statement that fits writes the next part.
LEMMA WritesNext ==
  ASSUME Types, GraphAssumption, NEW p \in Pods, Statement(p),
         WrittenSoFar(writer[p].source, writer[p].todo),
         Edgewise(Head(writer[p].todo)) => Complete(writer[p].source, Head(writer[p].todo)),
         NEW s, s = writer[p].source, NEW todo, todo = writer[p].todo, NEW t, t = Tail(todo)
  PROVE  WrittenSoFar(s, t)'
<1> DEFINE kind == Head(todo)
<1>1. /\ s \in Sources /\ todo \in Begun /\ kind # "vectors" /\ Write(p, kind, s)
      /\ segs \subseteq segs' /\ Exists \subseteq Exists' /\ facts \subseteq facts'
      /\ edges \subseteq edges' /\ event' \in [Events -> Node \cup {None}]
  BY Writing
<1>2. /\ WrittenSoFar(s, todo) /\ (Edgewise(kind) => Complete(s, kind))
      /\ Gated(s) \subseteq About[s] /\ About[s] \subseteq Events
  BY <1>1, WantedForms DEF Gated
<1>3. AfterDerived \subseteq AfterInvolves /\ AfterInvolves \subseteq AfterTies
      /\ AfterTies \subseteq AfterFacts /\ AfterFacts \subseteq AfterEvents
      /\ AfterEvents \subseteq AfterSegments
  BY DEF AfterInvolves, AfterTies, AfterFacts, AfterEvents, AfterSegments
<1>4. WrittenSoFar(s, todo)'
  BY <1>1, <1>2, WrittenKept
<1>5. CASE kind = "segments" /\ t \in AfterSegments \ AfterEvents
  <2>1. s \in segs'
    BY <1>1, <1>5 DEF Write
  <2> QED BY <1>3, <1>5, <2>1 DEF WrittenSoFar
<1>6. CASE kind = "events" /\ todo \in AfterSegments /\ t \in AfterEvents \ AfterFacts
  <2>1. writer[p].as \in Node /\ None \notin Node
    BY <1>1, Writing DEF Types, Working, Upserting, GraphAssumption, Node
  <2>2. Gated(s) \subseteq Exists'
    BY <1>1, <1>2, <1>6, <2>1 DEF Write, Exists
  <2> QED BY <1>3, <1>4, <1>6, <2>2 DEF WrittenSoFar, Gated, Wanted
<1>7. CASE kind = "facts" /\ todo \in AfterEvents /\ t \in AfterFacts \ AfterTies
  <2>1. About[s] \subseteq facts'
    BY <1>1, <1>7 DEF Write
  <2> QED BY <1>3, <1>4, <1>7, <2>1 DEF WrittenSoFar, Gated, Wanted
<1>8. CASE kind = "SUMMARIZES" /\ todo \in AfterFacts /\ t \in AfterTies \ AfterInvolves
  <2>1. Wanted(s, "SUMMARIZES") \subseteq edges'
    BY <1>1, <1>2, <1>8 DEF Edgewise, Complete, Write
  <2> QED BY <1>3, <1>4, <1>8, <2>1 DEF WrittenSoFar, Gated, Wanted
<1>9. CASE kind = "INVOLVES" /\ todo \in AfterTies /\ t \in AfterInvolves \ AfterDerived
  <2>1. Wanted(s, "INVOLVES") \subseteq edges'
    BY <1>1, <1>2, <1>9 DEF Edgewise, Complete, Write
  <2> QED BY <1>3, <1>4, <1>9, <2>1 DEF WrittenSoFar, Gated, Wanted
<1>10. CASE kind = "DERIVED_FROM" /\ todo \in AfterInvolves /\ t \in AfterDerived
  <2>1. Wanted(s, "DERIVED_FROM") \subseteq edges'
    BY <1>1, <1>2, <1>10 DEF Edgewise, Complete, Write
  <2> QED BY <1>3, <1>4, <1>10, <2>1 DEF WrittenSoFar, Gated, Wanted
<1> QED BY <1>1, <1>5, <1>6, <1>7, <1>8, <1>9, <1>10, UpsertSteps

LEMMA IntactWritten ==
  ASSUME Types, GraphAssumption, Intact, NEW p \in Pods, Statement(p)
  PROVE  CleanSoFar' /\ IntactHold'
<1> DEFINE src == writer[p].source  todo == writer[p].todo  kind == Head(todo)
           fits == Edgewise(kind) => Complete(src, kind)
<1>1. /\ src \in Sources /\ Upserting(p) /\ UNCHANGED <<purger, raced, intact, vectors>>
      /\ segs \subseteq segs' /\ Exists \subseteq Exists' /\ facts \subseteq facts'
      /\ edges \subseteq edges' /\ Exists' \subseteq Exists \cup Gated(src)
  BY Writing
<1>2. \A s \in Sources, t \in Begun : WrittenSoFar(s, t) => WrittenSoFar(s, t)'
  BY <1>1, WrittenKept
<1>4. IntactHold'
  <2>1. Last1 \in Begun /\ intact \subseteq Sources
    BY DEF Begun, AfterSegments, AfterEvents, AfterFacts, AfterTies, AfterInvolves, AfterDerived,
       Types, History
  <2>2. ASSUME NEW s \in intact PROVE WrittenSoFar(s, Last1)'
    BY <1>2, <2>1 DEF Intact, IntactHold
  <2> QED BY <1>1, <2>2 DEF Intact, IntactHold, Purging, Last1
<1>5. /\ \A q \in Pods \ {p} : writer'[q] = writer[q]
      /\ writer'[p].source = src /\ (writer'[p].clean => writer[p].clean /\ fits)
      /\ fits => writer'[p].todo = Tail(todo)
  <2>1. writer \in [Pods -> Upsert]
    BY DEF Types, Working
  <2>2. writer' = [writer EXCEPT ![p] =
          [writer[p] EXCEPT !.todo  = IF fits THEN Tail(todo) ELSE <<"vectors">>,
                            !.clean = writer[p].clean /\ fits]]
    BY DEF Statement
  <2>3. \A q \in Pods \ {p} : writer'[q] = writer[q]
    BY <2>1, <2>2
  <2>4. writer[p] \in Upsert
    BY <2>1
  <2>5. writer'[p] = [writer[p] EXCEPT !.todo  = IF fits THEN Tail(todo) ELSE <<"vectors">>,
                                       !.clean = writer[p].clean /\ fits]
    BY <2>1, <2>2
  <2>6. /\ writer'[p].source = src /\ writer'[p].clean = (writer[p].clean /\ fits)
        /\ writer'[p].todo = IF fits THEN Tail(todo) ELSE <<"vectors">>
    BY ONLY <2>4, <2>5 DEF Upsert
  <2> QED BY <2>3, <2>6
<1>6. CleanSoFar'
  <2>1. SUFFICES ASSUME NEW q \in Pods, NEW s, NEW t, s = writer'[q].source, t = writer'[q].todo,
                        t # <<>>, writer'[q].clean, About[s] \cap raced = {}
                 PROVE  WrittenSoFar(s, t)'
    BY <1>1 DEF CleanSoFar, Upserting
  <2>2. CASE q = p
    <3>1. fits /\ writer[p].clean /\ s = src /\ t = Tail(todo)
      BY <1>5, <2>1, <2>2
    <3>2. WrittenSoFar(src, todo)
      BY <1>1, <2>1, <3>1 DEF Intact, CleanSoFar
    <3> QED BY <3>1, <3>2, WritesNext
  <2>3. CASE q # p
    <3>1. s = writer[q].source /\ t = writer[q].todo /\ writer[q].clean
      BY <1>5, <2>1, <2>3
    <3>2. s \in Sources /\ t \in Begun
      BY <2>1, <3>1 DEF Types, Working, Upserting, Upsert
    <3>3. WrittenSoFar(s, t)
      BY <2>1, <3>1 DEF Intact, CleanSoFar, Upserting
    <3> QED BY <1>2, <3>2, <3>3
  <2> QED BY <2>2, <2>3
<1> QED BY <1>4, <1>6

\* A deletion touches no request that stands, and none that an upsert writes
\* without a purge at its events: unless a request is empty, its segment is its own.
LEMMA IntactPurged ==
  ASSUME Types, Owned, GraphAssumption, Intact, NEW p \in Pods, Purge(p),
         \A s \in Sources : About[s] # {}
  PROVE  CleanSoFar' /\ IntactHold'
<1> DEFINE src == purger[p].source
<1>1. /\ src \in Sources /\ Purging(p) /\ UNCHANGED <<vectors, writer, raced, intact>>
      /\ \A q \in Pods \ {p} : purger'[q] = purger[q]
      /\ purger'[p].todo # <<>> => purger'[p].source = src
  BY Purges
<1>2. PICK es \in SUBSET About[src], fs \in SUBSET About[src], ss \in SUBSET {src} :
        Dropped(es, fs, ss)
  BY Deleting
<1>3. /\ Exists' = Exists \ es /\ facts' = facts \ fs /\ segs' = segs \ ss
      /\ \A e \in Events, s \in Sources :
            <<e, s>> \in edges' <=> <<e, s>> \in edges /\ e \notin es /\ s \notin ss
      /\ \A e \in Events :
            /\ <<"INVOLVES", e>> \in edges' <=> <<"INVOLVES", e>> \in edges /\ e \notin es
            /\ <<"DERIVED_FROM", e>> \in edges' <=>
                 <<"DERIVED_FROM", e>> \in edges /\ e \notin es /\ e \notin fs
  BY <1>2 DEF Dropped
<1>4. ASSUME NEW s \in Sources, NEW t \in Begun, WrittenSoFar(s, t), About[s] \cap About[src] = {}
      PROVE  WrittenSoFar(s, t)'
  <2>1. s # src
    BY <1>4
  <2>2. \A e \in About[s] : e \in Events /\ e \notin es /\ e \notin fs /\ s \notin ss
    BY <1>2, <1>4, <2>1, WantedForms
  <2>3. s \notin ss
    BY <1>2, <2>1
  <2> QED BY <1>3, <1>4, <2>2, <2>3, WrittenKept
<1>6. IntactHold'
  <2>1. Last1 \in Begun /\ intact \subseteq Sources
    BY DEF Begun, AfterSegments, AfterEvents, AfterFacts, AfterTies, AfterInvolves, AfterDerived,
       Types, History
  <2>2. ASSUME NEW s \in intact PROVE WrittenSoFar(s, Last1)'
    BY <1>1, <1>4, <2>1 DEF Intact, IntactHold
  <2>3. \A s \in intact, q \in Pods : Purging(q)' => About[s] \cap About[purger'[q].source] = {}
    BY <1>1 DEF Intact, IntactHold, Purging
  <2> QED BY <1>1, <2>2, <2>3 DEF Intact, IntactHold, Last1
<1>7. CleanSoFar'
  <2>1. SUFFICES ASSUME NEW q \in Pods, NEW s, NEW t, s = writer[q].source, t = writer[q].todo,
                        t # <<>>, writer[q].clean, About[s] \cap raced = {}
                 PROVE  WrittenSoFar(s, t)'
    BY <1>1 DEF CleanSoFar, Upserting
  <2>2. s \in Sources /\ t \in Begun
    BY <2>1 DEF Types, Working, Upserting, Upsert
  <2>3. WrittenSoFar(s, t)
    BY <2>1 DEF Intact, CleanSoFar, Upserting
  <2>4. About[s] \cap About[src] = {}
    BY <1>1, <2>1 DEF Intact, Apart, Upserting
  <2> QED BY <1>4, <2>2, <2>3, <2>4
<1> QED BY <1>6, <1>7

\* A step that leaves the nodes and the requests that stand: the upserts under
\* way go on, or end, or have met an error.
LEMMA IntactKept ==
  ASSUME Types, Intact, UNCHANGED nodes, vectors \subseteq vectors', raced \subseteq raced',
         intact' \subseteq intact,
         \A q \in Pods : \/ writer'[q] = writer[q]
                         \/ writer'[q].todo = <<>> \/ ~writer'[q].clean
                         \/ writer'[q].todo = Last7,
         \A s \in intact', q \in Pods : purger'[q].todo # <<>> =>
           About[s] \cap About[purger'[q].source] = {}
  PROVE  CleanSoFar' /\ IntactHold'
<1>2. \A s, t : WrittenSoFar(s, t) => WrittenSoFar(s, t)'
  BY DEF WrittenSoFar, nodes, Exists, Gated, Wanted
<1>3. \A s : WrittenSoFar(s, Last7)'
  <2>1. Last7 \notin AfterSegments
    BY Lists DEF AfterSegments, AfterEvents, AfterFacts, AfterTies, AfterInvolves, AfterDerived
  <2> QED BY <2>1
      DEF WrittenSoFar, AfterSegments, AfterEvents, AfterFacts, AfterTies, AfterInvolves
<1>4. CleanSoFar'
  <2>1. SUFFICES ASSUME NEW q \in Pods, NEW s, NEW t, s = writer'[q].source, t = writer'[q].todo,
                        t # <<>>, writer'[q].clean, About[s] \cap raced' = {}
                 PROVE  WrittenSoFar(s, t)'
    BY DEF CleanSoFar, Upserting
  <2>2. CASE writer'[q] = writer[q]
    <3>1. WrittenSoFar(s, t)
      BY <2>1, <2>2 DEF Intact, CleanSoFar, Upserting
    <3> QED BY <1>2, <3>1
  <2>3. CASE t = Last7
    BY <1>3, <2>3
  <2> QED BY <2>1, <2>2, <2>3
<1>5. IntactHold'
  <2>1. ASSUME NEW s \in intact' PROVE WrittenSoFar(s, Last1)'
    BY <1>2 DEF Intact, IntactHold
  <2>2. \A s \in intact' : Gated(s) \subseteq vectors'
    BY DEF Intact, IntactHold
  <2> QED BY <2>1, <2>2 DEF IntactHold, Purging, Last1, Gated
<1> QED BY <1>4, <1>5

LEMMA IntactStep ==
  ASSUME Types, Owned, GraphAssumption, \A s \in Sources : About[s] # {},
         Intact, [GraphNext]_graphVars
  PROVE  Intact'
<1> USE DEF Intact
<1>types. writer \in [Pods -> Upsert] /\ purger \in [Pods -> Removal]
  BY DEF Types, Working
\* Only the answers, the breakers or nothing change.
<1>quiet. ASSUME UNCHANGED <<nodes, vectors, raced, intact, purger, writer>>
          PROVE  Intact'
  <2>1. Apart'
    BY <1>quiet, ApartKept
  <2>2. CleanSoFar' /\ IntactHold'
    BY <1>quiet, IntactKept DEF IntactHold, Purging
  <2> QED BY <2>1, <2>2
<1>1. ASSUME NEW p \in Pods, NEW src \in Sources, NEW node \in Node, BeginUpsert(p, src, node)
      PROVE  Intact'
  <2>1. Apart' /\ raced \subseteq raced'
    BY <1>1, ApartUpsert
  <2>2. /\ UNCHANGED <<nodes, vectors, intact, purger>>
        /\ \A q \in Pods \ {p} : writer'[q] = writer[q]
        /\ writer'[p].clean = ~breaker[p].open
        /\ ~breaker[p].open => writer'[p].todo = Statements
    BY <1>1, <1>types DEF BeginUpsert
  <2>3. Statements = Last7
    BY DEF Statements, Last7
  <2>4. \A q \in Pods : writer'[q] = writer[q] \/ ~writer'[q].clean \/ writer'[q].todo = Last7
    BY <2>2, <2>3
  <2>5. CleanSoFar' /\ IntactHold'
    BY <2>1, <2>2, <2>4, IntactKept DEF IntactHold, Purging
  <2> QED BY <2>1, <2>5
<1>2. ASSUME NEW p \in Pods, Statement(p) PROVE Intact'
  <2>1. CleanSoFar' /\ IntactHold'
    BY <1>2, IntactWritten
  <2>2. UNCHANGED <<purger, raced>> /\ writer[p].todo # <<>>
    BY <1>2 DEF Statement, Upserting
  <2>3. /\ \A q \in Pods \ {p} : writer'[q] = writer[q]
        /\ writer'[p].source = writer[p].source
    BY <1>2 DEF Statement, Types, Working
  <2>4. Apart'
    BY <2>2, <2>3, ApartKept
  <2> QED BY <2>1, <2>4
<1>3. ASSUME NEW p \in Pods, StatementFails(p) PROVE Intact'
  <2>1. /\ UNCHANGED <<nodes, vectors, raced, intact, purger>> /\ writer[p].todo # <<>>
        /\ writer' = [writer EXCEPT ![p] =
                        [writer[p] EXCEPT !.todo = <<"vectors">>, !.clean = FALSE]]
    BY <1>3 DEF StatementFails, Upserting, past
  <2>2. /\ \A q \in Pods \ {p} : writer'[q] = writer[q]
        /\ writer'[p].source = writer[p].source /\ ~writer'[p].clean
    <3>1. writer'[p] = [writer[p] EXCEPT !.todo = <<"vectors">>, !.clean = FALSE]
      BY <2>1, <1>types
    <3>2. writer[p] \in Upsert
      BY <1>types
    <3>3. writer'[p].source = writer[p].source /\ writer'[p].clean = FALSE
      BY ONLY <3>1, <3>2 DEF Upsert
    <3> QED BY <2>1, <3>3, <1>types
  <2>3. Apart'
    BY <2>1, <2>2, ApartKept
  <2>4. CleanSoFar' /\ IntactHold'
    BY <2>1, <2>2, IntactKept DEF IntactHold, Purging
  <2> QED BY <2>3, <2>4
<1>4. ASSUME NEW p \in Pods, WriteVectors(p) \/ VectorsFail(p) PROVE Intact'
  <2>1. /\ UNCHANGED <<nodes, raced, purger>>
        /\ writer' = [writer EXCEPT ![p] = NoUpsert] /\ writer[p].todo = Last1
        /\ vectors' = vectors \/ vectors' = vectors \cup Vectors(writer[p].source)
    BY <1>4 DEF WriteVectors, VectorsFail, past, Last1
  <2>2. /\ \A q \in Pods \ {p} : writer'[q] = writer[q]
        /\ writer'[p].todo = <<>>
    BY <2>1, <1>types DEF NoUpsert
  <2>3. Apart'
    BY <2>1, <2>2, ApartKept
  <2>4. CASE intact' = intact
    <3>1. CleanSoFar' /\ IntactHold'
      BY <2>1, <2>2, <2>4, IntactKept DEF IntactHold, Purging
    <3> QED BY <2>3, <3>1
  <2>5. CASE intact' # intact
    <3> DEFINE w == writer[p]
    <3>1. /\ w.clean /\ About[w.source] \cap raced = {} /\ intact' = intact \cup {w.source}
          /\ vectors' = vectors \cup Vectors(w.source)
      BY <1>4, <2>5 DEF WriteVectors, VectorsFail, past
    <3>2. PICK s \in Sources : s = w.source
      BY <2>1, Lists DEF Types, Working, Upserting
    <3>3. WrittenSoFar(s, Last1)
      BY <2>1, <3>1, <3>2, Lists DEF CleanSoFar, Upserting
    <3>4. WrittenSoFar(s, Last1)' /\ \A r \in intact : WrittenSoFar(r, Last1)'
      BY <2>1, <3>3 DEF IntactHold, WrittenSoFar, nodes, Exists, Gated, Wanted, Last1,
         AfterSegments, AfterEvents, AfterFacts, AfterTies, AfterInvolves, AfterDerived
    <3>5. Gated(s) \subseteq vectors' /\ Gated(s)' = Gated(s)
      BY <3>1, <3>2 DEF Vectors, Gated
    <3>6. \A q \in Pods : Purging(q) => About[s] \cap About[purger[q].source] = {}
      BY <2>1, <3>1, <3>2, Lists DEF Apart, Upserting
    <3>7. IntactHold'
      BY <2>1, <3>1, <3>2, <3>4, <3>5, <3>6 DEF IntactHold, Purging, Last1, Gated
    <3>8. CleanSoFar'
      <4>1. SUFFICES ASSUME NEW q \in Pods, NEW r, NEW t, r = writer'[q].source,
                            t = writer'[q].todo, t # <<>>, writer'[q].clean,
                            About[r] \cap raced = {}
                     PROVE  WrittenSoFar(r, t)'
        BY <2>1 DEF CleanSoFar, Upserting
      <4>2. WrittenSoFar(r, t)
        BY <2>2, <4>1 DEF CleanSoFar, Upserting
      <4> QED BY <2>1, <4>2 DEF WrittenSoFar, nodes, Exists, Gated, Wanted
    <3> QED BY <2>3, <3>4, <3>7, <3>8
  <2> QED BY <2>4, <2>5
<1>5. ASSUME NEW p \in Pods, BreakerCloses(p) PROVE Intact'
  BY <1>5, <1>quiet DEF BreakerCloses, past
<1>6. ASSUME NEW p \in Pods, NEW src \in Sources, NEW clears \in BOOLEAN,
             NEW keep \in SUBSET Events, BeginSourcePurge(p, src, clears, keep)
      PROVE  Intact'
  <2>1. Apart' /\ raced \subseteq raced'
    BY <1>6, ApartPurge
  <2>2. UNCHANGED <<nodes, vectors, writer>>
    BY <1>6 DEF BeginSourcePurge
  <2>3. intact' \subseteq intact /\ \A s \in intact', q \in Pods : purger'[q].todo # <<>> =>
          About[s] \cap About[purger'[q].source] = {}
    <3>1. CASE breaker[p].open
      BY <1>6, <3>1 DEF BeginSourcePurge, IntactHold, Purging
    <3>2. CASE ~breaker[p].open
      <4>1. /\ \A q \in Pods \ {p} : purger'[q] = purger[q]
            /\ purger'[p].source = src
            /\ intact' = {s \in intact : About[s] \cap About[src] = {}}
        BY <1>6, <3>2, <1>types DEF BeginSourcePurge
      <4> QED BY <4>1 DEF IntactHold, Purging
    <3> QED BY <3>1, <3>2
  <2>4. CleanSoFar' /\ IntactHold'
    BY <2>1, <2>2, <2>3, IntactKept
  <2> QED BY <2>1, <2>4
<1>7. ASSUME NEW p \in Pods, Purge(p) PROVE Intact'
  <2>1. CleanSoFar' /\ IntactHold'
    BY <1>7, IntactPurged
  <2>2. /\ UNCHANGED <<writer, raced>> /\ purger[p].todo # <<>>
        /\ \A q \in Pods \ {p} : purger'[q] = purger[q]
        /\ purger'[p].todo # <<>> => purger'[p].source = purger[p].source
    BY <1>7, Purges DEF Purging
  <2>3. Apart'
    BY <2>2, ApartKept
  <2> QED BY <2>1, <2>3
<1>8. ASSUME NEW p \in Pods, SourcePurgeFails(p) PROVE Intact'
  <2>1. /\ UNCHANGED <<nodes, vectors, raced, intact, writer>>
        /\ purger' = [purger EXCEPT ![p] = NoPurge]
    BY <1>8 DEF SourcePurgeFails, past
  <2>2. /\ \A q \in Pods \ {p} : purger'[q] = purger[q]
        /\ purger'[p].todo = <<>>
    BY <2>1, <1>types DEF NoPurge
  <2>3. Apart'
    BY <2>1, <2>2, ApartKept
  <2>4. CleanSoFar' /\ IntactHold'
    BY <2>1, <2>2, IntactKept DEF IntactHold, Purging
  <2> QED BY <2>3, <2>4
<1>9. ASSUME NEW p \in Pods, BuildFirstMeetings(p) \/ ExplainFirstMeeting(p) PROVE Intact'
  BY <1>9, <1>quiet DEF BuildFirstMeetings, ExplainFirstMeeting
<1>10. ASSUME NEW p \in Pods, NEW e \in Events, ExplainEvent(p, e) PROVE Intact'
  BY <1>10, <1>quiet DEF ExplainEvent, past
<1>11. ASSUME NEW p \in Pods, NEW key \in Events \cup {"meet"}, Forget(p, key) PROVE Intact'
  BY <1>11, <1>quiet DEF Forget
<1>15. ASSUME NEW p \in Pods, NEW key \in Events \cup {"meet"}, ExplainFails(p, key)
       PROVE  Intact'
  BY <1>15, <1>quiet DEF ExplainFails
<1>16. ASSUME NEW e \in Events, Lapse(e) PROVE Intact'
  <2>1. /\ event' = [event EXCEPT ![e].shown = FALSE] /\ event[e] # None
        /\ UNCHANGED <<segs, facts, edges, vectors, writer, purger, raced, intact>>
    BY <1>16 DEF Lapse, Exists
  <2>2. Exists' = Exists
    BY <2>1, Lapses
  <2>3. Apart'
    BY <2>1, ApartKept
  <2>4. \A s, t : WrittenSoFar(s, t)' <=> WrittenSoFar(s, t)
    BY <2>1, <2>2 DEF WrittenSoFar, Gated, Wanted
  <2>5. CleanSoFar' /\ IntactHold'
    BY <2>1, <2>4 DEF CleanSoFar, IntactHold, Upserting, Purging, Gated, Last1
  <2> QED BY <2>3, <2>5
<1>12. CASE UNCHANGED graphVars
  BY <1>12, <1>quiet DEF graphVars, past
<1>13. \A p \in Pods, src \in Sources : BeginSourcePurge(p, src, TRUE, {}) => Intact'
  BY <1>6
<1>14. \A p \in Pods, src \in Sources, keep \in SUBSET Events :
         BeginSourcePurge(p, src, FALSE, keep) => Intact'
  BY <1>6
<1> QED
  BY <1>1, <1>2, <1>3, <1>4, <1>5, <1>7, <1>8, <1>9, <1>10, <1>11, <1>12, <1>13, <1>14,
     <1>15, <1>16
  DEF GraphNext

\* An upsert that met no error left in the graph what the gate and the labels let
\* through of its request - segment, facts, events, vectors and edges - whatever
\* failed upserts and cut purges had left of it before, and it stays until a
\* purge reaches one of its events.  The requests have events: an empty one
\* could lose its segment to a purge of its own source without either knowing of
\* the other.
THEOREM CleanUpsertIsWhole ==
  ASSUME \A s \in Sources : About[s] # {}
  PROVE  GraphSpec => []UpsertIsWhole
<1> DEFINE Inv == Types /\ Owned /\ Intact
<1>1. GraphInit => Inv
  <2>1. SUFFICES ASSUME GraphInit PROVE Inv
    OBVIOUS
  <2>2. Types /\ Owned
    BY <2>1, TypesInit, GraphAssumption
  <2>3. \A p \in Pods : ~Upserting(p)
    BY <2>1 DEF GraphInit, Upserting, NoUpsert
  <2>4. Intact
    BY <2>1, <2>3 DEF GraphInit, Intact, Apart, CleanSoFar, IntactHold
  <2> QED BY <2>2, <2>4
<1>2. Inv /\ [GraphNext]_graphVars => Inv'
  BY TypesStep, IntactStep, GraphAssumption
<1>3. Inv => UpsertIsWhole
  <2>1. SUFFICES ASSUME Inv, NEW s \in intact
                 PROVE  /\ s \in segs /\ About[s] \subseteq facts
                        /\ Gated(s) \subseteq Exists \cap vectors
                        /\ \A kind \in {"SUMMARIZES"} \cup Kinds : Wanted(s, kind) \subseteq edges
    BY DEF UpsertIsWhole
  <2>2. WrittenSoFar(s, Last1) /\ Gated(s) \subseteq vectors
    BY <2>1 DEF Intact, IntactHold
  <2>3. /\ Last1 \in AfterSegments /\ Last1 \in AfterEvents /\ Last1 \in AfterFacts
        /\ Last1 \in AfterTies /\ Last1 \in AfterInvolves /\ Last1 \in AfterDerived
    BY DEF AfterSegments, AfterEvents, AfterFacts, AfterTies, AfterInvolves, AfterDerived
  <2>4. s \in segs /\ About[s] \subseteq facts /\ Gated(s) \subseteq Exists
    BY <2>2, <2>3 DEF WrittenSoFar
  <2>5. /\ Wanted(s, "SUMMARIZES") \subseteq edges /\ Wanted(s, "INVOLVES") \subseteq edges
        /\ Wanted(s, "DERIVED_FROM") \subseteq edges
    BY <2>2, <2>3 DEF WrittenSoFar
  <2> QED BY <2>2, <2>4, <2>5 DEF Kinds
<1> QED BY <1>1, <1>2, <1>3, PTL DEF GraphSpec

=============================================================================
