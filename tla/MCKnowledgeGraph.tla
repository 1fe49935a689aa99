--------------------------- MODULE MCKnowledgeGraph ---------------------------
(***************************************************************************)
(* Two parts of the Neo4j store for TLC.  Both are purged with the tenant, *)
(* but no statement of one reads or writes a node of the other, so each    *)
(* behaviour looks at one of them.                                         *)
(***************************************************************************)
EXTENDS KnowledgeGraph, StateTimeline, TLC
CONSTANTS s1, s2, e1, e2, e3
\* Two sources with an event in common.  The second has an event of its own, and
\* a minor one that its edges speak of; of the first an edge is dropped.
Overlapping == (s1 :> {e1}) @@ (s2 :> {e1, e2, e3})
Dropped == (s1 :> {<<"INVOLVES", e1>>}) @@ (s2 :> {<<e3, s2>>})

\* The values of states are only compared with each other: let the first node
\* of a run have this one.
CONSTANT first
\* Bound: a graph that a purge left half deleted, about which nothing is said,
\* gets no node before the next purge is through.
MCHalf == ~whole => made' = made
\* Bound: no guard reads the status of a pending state; one has another at a time.
MCOneResolved ==
  \A i, j \in Ids : {pend'[i].status, pend'[j].status} \subseteq {"approved", "rejected"} => i = j

\* Of the events, either three upserts and purges of one content, with nobody
\* asking, or two of any content with explanations and meetings between their
\* statements: chosen at the start, so that one does not multiply the other.
VARIABLE focus
MCInit == GraphInit /\ TimelineInit /\ focus \in {"repair", "explain", "timeline"}
MCGraphNext ==
  /\ focus \in {"repair", "explain"} /\ GraphNext /\ UNCHANGED vars
  /\ focus = "repair"  =>
       /\ UNCHANGED <<cache, meet>>
       /\ \A p \in Pods : writer'[p].as \in {None, [at |-> 1, shown |-> TRUE]}
       /\ \A e \in Exists' : event'[e].shown
       /\ \A p \in Pods : purger'[p].keep \subseteq {e1} \/ purger'[p].keep = {e2}
  /\ focus = "explain" =>
       /\ calls' <= 2 /\ faults' = 0
       /\ \A p \in Pods : writer'[p].as \in {None} \cup [at : Stamps, shown : {TRUE}]
       /\ \A p \in Pods \ {CHOOSE p \in Pods : TRUE} : cache'[p] = NoAnswer
       /\ \A p \in Pods : {cache'[p][e2], cache'[p][e3]} = {None}
       /\ \A p \in Pods : cache'[p][e1] # None => asOf' = {}
       /\ \A p \in Pods : Purging(p)' => purger'[p].clears
MCTimelineNext ==
  /\ focus = "timeline" /\ Next /\ MCHalf /\ MCOneResolved /\ UNCHANGED graphVars
  /\ made = 0 /\ made' = 1 => first \in {state'[1].value, pend'[1].value}
MCNext == (MCGraphNext \/ MCTimelineNext) /\ UNCHANGED focus
MCSpec == MCInit /\ [][MCNext]_<<vars, graphVars, focus>>
=============================================================================
