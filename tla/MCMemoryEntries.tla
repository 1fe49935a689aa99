------------------------ MODULE MCMemoryEntries ------------------------
(***************************************************************************)
(* The entries of MemoryService, and the upkeep of a small graph, for TLC. *)
(***************************************************************************)
EXTENDS MemoryEntries, GraphUpkeep, TLC

CONSTANTS x, y, a, b

\* Two that are duplicates of each other, one with a text of its own, and one
\* that is a duplicate only after an update.
FewDrafts ==
  {[id |-> x, entry |-> [head |-> a, more |-> {}, deleted |-> FALSE, shown |-> TRUE]],
   [id |-> y, entry |-> [head |-> a, more |-> {b}, deleted |-> FALSE, shown |-> TRUE]]}

CallerSymmetry == Permutations(Callers)

CONSTANTS e1, e2, e3, s1, s2, evd, utt, mia, leo, home, fact, day

MCTold ==
  {<<"SUMMARIZES", e1, s1>>, <<"SUMMARIZES", e1, s2>>, <<"SUMMARIZES", e2, s2>>,
   <<"INVOLVES", e1, mia>>, <<"OCCURS_AT", e1, home>>, <<"OCCURS_AT", e2, home>>,
   <<"SUPPORTED_BY", e1, utt>>, <<"SUPPORTED_BY", e2, evd>>, <<"SUPPORTED_BY", utt, evd>>,
   <<"SPOKEN_BY", utt, leo>>, <<"BELONGS_TO_ENTITY", evd, leo>>,
   <<"COVERS_EVENT", day, e1>>, <<"DERIVED_FROM", fact, e1>>,
   <<"STATED_BY", fact, leo>>, <<"SUPPORTED_BY", fact, utt>>}

ById == <<day, e1, e2, e3, evd, fact, home, leo, mia, s1, s2, utt>>
MCRank == [n \in Nodes |->
             IF n \in Slices THEN 100 + n[2] + (IF n[1] = "media" THEN 10 ELSE 0)
             ELSE CHOOSE i \in DOMAIN ById : ById[i] = n]
MCFixed == [hour |-> 2]

\* Each behaviour looks at one part: the entries, the relations of the events,
\* the slices of the segments, the reads of a graph whose nodes are hidden and
\* expire, or the export of a graph that gets relations.
VARIABLE focus
Whole == [n \in Nodes |-> IF n \in Slices THEN None
            ELSE [at |-> 1, to |-> 1, shown |-> TRUE, life |-> Stamped(FALSE)]]
Apart(ns) == [n \in Nodes |-> IF n \in ns THEN Whole[n] ELSE None]
Few == {e1, e2} \cup Segments \cup Locations
MCInit ==
  /\ MemoryInit
  /\ UpkeepInit \/ /\ body \in {Whole, Apart(Segments \cup Locations), Apart(Few)}
                   /\ derived = {} /\ build = NoBuild /\ export = NoExport /\ ops = 0
                   /\ moved = {} /\ linked = FALSE
  /\ focus \in {"entries", "links", "slices", "reads", "export"}
  /\ body = CASE focus = "links"  -> Apart(Segments \cup Locations)
              [] focus = "slices" -> Apart({})
              [] focus = "export" -> Apart(Few)
              [] focus = "reads"  -> Whole
              [] focus = "entries" -> Apart({})

\* Bound: how many nodes are rewritten, hidden or expired at the same time.
MCFew == /\ Cardinality({n \in Nodes : body'[n] # Whole[n]} \ Slices) <= 2
         /\ moved' = {}
MCUpkeep ==
  \/ focus = "links" /\ (Writes(Events) \/ Relations \/ Building)
  \/ focus = "slices" /\ (Writes(Segments \cup Slices) \/ Slicing \/ Building)
  \/ focus = "reads" /\ (Writes(Upserted) \/ Aging \/ CleanupExpired) /\ MCFew
  \/ focus = "export" /\ (Relations \/ Building \/ Exporting) /\ ops' <= 1
\* Bound: one fault or one restart.
MCOneMishap == used'.faults + used'.restarts <= 1
MCNext ==
  /\ \/ focus = "entries" /\ MemoryNext /\ UNCHANGED upkeepVars /\ MCOneMishap
     \/ MCUpkeep /\ UNCHANGED vars
  /\ UNCHANGED focus
MCSpec == MCInit /\ [][MCNext]_<<vars, upkeepVars, focus>>
=============================================================================
