-------------------------- MODULE SessionWrite --------------------------
(***************************************************************************)
(* session_write: what stage 3 of an ingest job runs to store the dialog   *)
(* of one session.  It is a saga over stores that share no transaction:    *)
(* the vector store (facts, and the marker that makes the session          *)
(* idempotent), the graph store (events), and the service's process-local  *)
(* cache of entries.  Every action is one awaited store call with what it  *)
(* may do: succeed, raise, or fail without saying so; a call can be        *)
(* cancelled (the job timeout) or die with the process between any two.    *)
(*                                                                         *)
(* Fact and event ids are derived from the session and the index in the    *)
(* extraction, so two calls that extract a first fact write the same id:   *)
(* a fact is its index here, and holds the call whose text it has.  The    *)
(* utterance entries are written and published with the facts.             *)
(***************************************************************************)
EXTENDS Naturals, FiniteSets

CONSTANTS
  Calls,       \* the calls of session_write for this session
  Nobody,      \* no call
  MaxFacts,    \* bounds on what one extraction returns
  MaxEvents,
  Exclusive,   \* the callers never run two calls of a session at a time
  MaxFaults,   \* bound: store calls and extractions that raise
  MaxSilent,   \* bound: failures that a store or a caller swallows
  MaxCuts,     \* bound: cancelled calls
  MaxRestarts, MaxClears

ASSUME SessionAssumption ==
  /\ Nobody \notin Calls
  /\ MaxFacts \in Nat /\ MaxEvents \in Nat
  /\ Exclusive \in BOOLEAN
  /\ MaxFaults \in Nat /\ MaxSilent \in Nat /\ MaxCuts \in Nat
  /\ MaxRestarts \in Nat /\ MaxClears \in Nat

FactIds  == 1 .. MaxFacts
EventIds == 1 .. MaxEvents

\* An entry: the call whose content it has, and its published flag.
Entry  == [by : Calls \cup {Nobody}, shown : BOOLEAN]
Absent == [by |-> Nobody, shown |-> FALSE]

Marker == [status : {"absent", "in_progress", "completed", "completed_no_llm", "failed"},
           by : Calls \cup {Nobody}, n : 0 .. MaxFacts]
NoMarker == [status |-> "absent", by |-> Nobody, n |-> 0]

VARIABLES
  marker,   \* the session marker in the vector store, with its fact_ids
  cached,   \* the copy of it in the service's cache
  facts, events,
  sweep,    \* a tenant clear has done the vectors, not yet the graph
  pc, over, \* per call: where it is, and overwrite_existing
  own,      \* per call: its local variables
  answer,   \* what a call returned, right after it did, and which it was
  clean, intact, last, stored,   \* history, see the properties
  used      \* how much of each bound is used up

stores  == <<marker, cached, facts, events>>
locals  == <<pc, over, own, answer>>
history == <<clean, intact, last, stored>>
vars == <<stores, sweep, locals, history, used>>

Bounds == [faults : 0 .. MaxFaults, silent : 0 .. MaxSilent, cuts : 0 .. MaxCuts,
           restarts : 0 .. MaxRestarts, clears : 0 .. MaxClears]

Answers == [call : Calls \cup {Nobody},
            status : {"none", "ok", "skipped", "failed", "cut"}]
NoAnswer == [call |-> Nobody, status |-> "none"]

Locals == [old : 0 .. MaxFacts, next : 1 .. MaxFacts + 1, n : 0 .. MaxFacts,
           m : 0 .. MaxEvents, llm : BOOLEAN, graph : BOOLEAN]
NoLocals == [old |-> 0, next |-> 1, n |-> 0, m |-> 0, llm |-> TRUE, graph |-> FALSE]

SessionInit ==
  /\ marker = NoMarker /\ cached = NoMarker
  /\ facts = [i \in FactIds |-> Absent]
  /\ events = [i \in EventIds |-> Absent]
  /\ sweep = FALSE
  /\ pc = [c \in Calls |-> "new"]
  /\ over = [c \in Calls |-> FALSE]
  /\ own = [c \in Calls |-> NoLocals]
  /\ answer = NoAnswer
  /\ clean = TRUE /\ intact = TRUE /\ last = 0 /\ stored = {}
  /\ used = [faults |-> 0, silent |-> 0, cuts |-> 0, restarts |-> 0, clears |-> 0]

Active(c) == pc[c] \notin {"new", "ended"}
Quiet == \A c \in Calls : ~Active(c)

Goto(c, where) == pc' = [pc EXCEPT ![c] = where] /\ answer' = NoAnswer

Spend(bound, max) ==
  /\ used[bound] < max
  /\ used' = [used EXCEPT ![bound] = @ + 1]

Works == UNCHANGED used
Raises == Spend("faults", MaxFaults)
FailsSilently == Spend("silent", MaxSilent)

Return(c, status) ==
  /\ pc' = [pc EXCEPT ![c] = "ended"]
  /\ over' = [over EXCEPT ![c] = FALSE]
  /\ own' = [own EXCEPT ![c] = NoLocals]
  /\ answer' = [call |-> c, status |-> status]

-----------------------------------------------------------------------------
(* The marker.                                                             *)

\* service.write of a marker: it may raise before the vectors are written, or
\* after them and before the cache is; session_write goes on in either case.
Save(m) ==
  \/ marker' = m /\ cached' = m /\ Works
  \/ marker' = m /\ UNCHANGED cached /\ FailsSilently
  \/ UNCHANGED <<marker, cached>> /\ FailsSilently

\* service.get: the vector store, else (a miss or an error) the cache.
Lookup(found) ==
  \/ found = (IF marker.status = "absent" THEN cached ELSE marker) /\ Works
  \/ found = cached /\ FailsSilently

Begin(c, overwrite) ==
  /\ pc[c] = "new"
  /\ Exclusive => Quiet
  /\ over' = [over EXCEPT ![c] = overwrite]
  /\ intact' = (intact /\ ~sweep)
  /\ Goto(c, "check")
  /\ UNCHANGED <<stores, sweep, own, clean, last, stored, used>>

\* What the check of a call that does not overwrite stops at.
Blocks(found) == found.status = "completed"

MutantCheck(c) ==                     \* the facts of the old version are forgotten
  /\ pc[c] = "check"
  /\ \E found \in {marker, cached} :
       /\ Lookup(found)
       /\ \/ /\ Blocks(found) /\ ~over[c]
             /\ Return(c, "skipped")
             /\ UNCHANGED stored
          \/ /\ ~Blocks(found) \/ over[c]
             /\ Goto(c, "mark")
             /\ stored' = IF over[c] THEN {} ELSE stored
             /\ UNCHANGED <<over, own>>
  /\ UNCHANGED <<stores, sweep, clean, intact, last>>

\* A completed marker ends a call that does not overwrite; one that does
\* remembers the facts it lists.
Check(c) ==
  /\ pc[c] = "check"
  /\ \E found \in {marker, cached} :
       /\ Lookup(found)
       /\ \/ /\ Blocks(found) /\ ~over[c]
             /\ Return(c, "skipped")
             /\ UNCHANGED stored
          \/ /\ ~Blocks(found) \/ over[c]
             /\ Goto(c, "mark")
             /\ own' = [own EXCEPT ![c].old =
                          IF found.status = "completed" THEN found.n ELSE 0]
             /\ stored' = IF over[c] THEN {} ELSE stored
             /\ UNCHANGED over
  /\ UNCHANGED <<stores, sweep, clean, intact, last>>

MutantMark(c) ==                      \* the old marker stays during the write
  /\ pc[c] = "mark"
  /\ Goto(c, "extract")
  /\ UNCHANGED <<stores, sweep, over, own, history, used>>

Mark(c) ==
  /\ pc[c] = "mark"
  /\ Save([status |-> "in_progress", by |-> c, n |-> 0])
  /\ Goto(c, "extract")
  /\ UNCHANGED <<facts, events, sweep, over, own, history>>

-----------------------------------------------------------------------------
(* Extraction and the graph.                                               *)

\* The extractor answers; or there is none and only the pinned facts are
\* written; or it raises (as does its absence under llm_policy = "require").
Extract(c) ==
  /\ pc[c] = "extract"
  /\ \/ \E n \in 0 .. MaxFacts, m \in 0 .. MaxEvents, llm \in BOOLEAN :
          /\ llm \/ m = 0
          /\ own' = [own EXCEPT ![c] = [old |-> @.old, next |-> n + 1, n |-> n,
                                        m |-> m, llm |-> llm, graph |-> FALSE]]
          /\ Goto(c, "graph")
          /\ Works
     \/ Raises /\ Goto(c, "fail") /\ UNCHANGED own
  /\ UNCHANGED <<stores, sweep, over, history>>

Written(entries, c, k) ==
  [i \in DOMAIN entries |->
     IF i <= k THEN [by |-> c, shown |-> FALSE] ELSE entries[i]]

MutantPublished(entries, k) ==        \* the last id of the list is left out
  [i \in DOMAIN entries |->
     IF i < k /\ entries[i] # Absent THEN [entries[i] EXCEPT !.shown = TRUE]
     ELSE entries[i]]

Published(entries, k) ==
  [i \in DOMAIN entries |->
     IF i <= k /\ entries[i] # Absent THEN [entries[i] EXCEPT !.shown = TRUE]
     ELSE entries[i]]

Kept(entries, k) == [i \in DOMAIN entries |-> IF i <= k THEN entries[i] ELSE Absent]

\* graph_upsert_v0.  Neo4jStore swallows its own errors, and does nothing while
\* its breaker is open; what is raised (validation, the event vectors) stops an
\* overwrite, for which the policy becomes "require".
Graph(c) ==
  /\ pc[c] = "graph"
  /\ \E k \in {0, own[c].m} :
       /\ events' = Written(events, c, k)
       /\ \/ /\ \/ k = own[c].m /\ Works
                \/ FailsSilently
             /\ own' = [own EXCEPT ![c].graph = TRUE]
             /\ Goto(c, IF over[c] THEN "purge" ELSE "write")
          \/ /\ Raises
             /\ Goto(c, IF over[c] THEN "fail" ELSE "write")
             /\ UNCHANGED own
  /\ UNCHANGED <<marker, cached, facts, sweep, over, history>>

\* purge_source_except_events: what it cannot delete it does not report.
Purge(c) ==
  /\ pc[c] = "purge"
  /\ \/ events' = Kept(events, own[c].m) /\ Works
     \/ UNCHANGED events /\ FailsSilently
  /\ Goto(c, "write")
  /\ UNCHANGED <<marker, cached, facts, sweep, over, own, history>>

-----------------------------------------------------------------------------
(* The vectors: write hidden, publish, delete the stale, finish.           *)

MutantWrite(c) ==                     \* delete first, then write
  /\ pc[c] = "write"
  /\ \E k \in {0, own[c].n} :
       /\ facts' = Written(Kept(facts, 0), c, k)
       /\ \/ k = own[c].n /\ Works /\ Goto(c, "publish")
          \/ Raises /\ Goto(c, "fail")
  /\ UNCHANGED <<marker, cached, events, sweep, over, own, history>>

\* service.write writes the vectors, then the nodes, then the audit: it may
\* raise before or after the first.
Write(c) ==
  /\ pc[c] = "write"
  /\ \E k \in {0, own[c].n} :
       /\ facts' = Written(facts, c, k)
       /\ \/ k = own[c].n /\ Works /\ Goto(c, "publish")
          \/ Raises /\ Goto(c, "fail")
  /\ UNCHANGED <<marker, cached, events, sweep, over, own, history>>

\* publish_entries, vectors: it swallows the failure of either store.
Publish(c) ==
  /\ pc[c] = "publish"
  /\ \/ facts' = Published(facts, own[c].n) /\ Works
     \/ UNCHANGED facts /\ FailsSilently
  /\ Goto(c, "publish2")
  /\ UNCHANGED <<marker, cached, events, sweep, over, own, history>>

\* publish_entries, graph nodes.  The new version is all there now.
Publish2(c) ==
  /\ pc[c] = "publish2"
  /\ \/ own[c].graph /\ events' = Published(events, own[c].m) /\ Works
     \/ own[c].graph /\ UNCHANGED events /\ FailsSilently
     \/ ~own[c].graph /\ UNCHANGED events /\ Works
  /\ last' = own[c].n
  /\ Goto(c, "stale")
  /\ UNCHANGED <<marker, cached, facts, sweep, over, own, clean, intact, stored>>

\* store.delete of the next old fact that is not a new one; delete_ids does not
\* look at what the vector store answers.
DeleteStale(c) ==
  /\ pc[c] = "stale" /\ own[c].next <= own[c].old
  /\ \/ /\ \/ facts' = [facts EXCEPT ![own[c].next] = Absent] /\ Works
           \/ UNCHANGED facts /\ FailsSilently
        /\ own' = [own EXCEPT ![c].next = @ + 1]
        /\ UNCHANGED <<pc, answer>>
     \/ /\ facts' \in {facts, [facts EXCEPT ![own[c].next] = Absent]}
        /\ Raises
        /\ Goto(c, "fail")
        /\ UNCHANGED own
  /\ UNCHANGED <<marker, cached, events, sweep, over, history>>

Finish(c) ==
  /\ pc[c] = "stale" /\ own[c].next > own[c].old
  /\ Save([status |-> IF own[c].llm THEN "completed" ELSE "completed_no_llm",
           by |-> c, n |-> own[c].n])
  /\ Return(c, "ok")
  /\ stored' = IF over[c] \/ ~own[c].llm THEN stored ELSE stored \cup {c}
  /\ clean' = (clean /\ own[c].llm)
  /\ UNCHANGED <<facts, events, sweep, intact, last>>

\* The handler of whatever was raised.
Fail(c) ==
  /\ pc[c] = "fail"
  /\ Save([status |-> "failed", by |-> c, n |-> 0])
  /\ Return(c, "failed")
  /\ clean' = FALSE
  /\ UNCHANGED <<facts, events, sweep, intact, last, stored>>

-----------------------------------------------------------------------------
(* Around the call.                                                        *)

\* CancelledError (wait_for of the executor) passes both handlers.
Cut(c) ==
  /\ Active(c)
  /\ Spend("cuts", MaxCuts)
  /\ Return(c, "cut")
  /\ clean' = FALSE
  /\ UNCHANGED <<stores, sweep, intact, last, stored>>

\* The process dies and starts again: its calls and its cache are gone.
Restart ==
  /\ Spend("restarts", MaxRestarts)
  /\ cached' = NoMarker
  /\ sweep' = FALSE
  /\ pc' = [c \in Calls |-> IF Active(c) THEN "ended" ELSE pc[c]]
  /\ over' = [c \in Calls |-> FALSE]
  /\ own' = [c \in Calls |-> NoLocals]
  /\ clean' = (clean /\ Quiet)
  /\ UNCHANGED <<marker, facts, events, answer, intact, last, stored>>

\* memory_clear: the vectors, then the graph; a store that raises is reported
\* and the next one is tried.  The service's cache is not touched.
ClearVectors ==
  /\ ~sweep
  /\ Spend("clears", MaxClears)
  /\ \/ /\ marker' = NoMarker
        /\ facts' = [i \in FactIds |-> Absent]
        /\ last' = 0 /\ stored' = {} /\ clean' = TRUE
     \/ UNCHANGED <<marker, facts, last, stored, clean>>
  /\ sweep' = TRUE
  /\ intact' = (intact /\ Quiet)
  /\ UNCHANGED <<cached, events, locals>>

ClearGraph ==
  /\ sweep
  /\ sweep' = FALSE
  /\ events' \in {events, [i \in EventIds |-> Absent]}
  /\ UNCHANGED <<marker, cached, facts, locals, history, used>>

CallStep(c) ==
  \/ Check(c) \/ Mark(c) \/ Extract(c) \/ Graph(c) \/ Purge(c) \/ Write(c)
  \/ Publish(c) \/ Publish2(c) \/ DeleteStale(c) \/ Finish(c) \/ Fail(c)

Next ==
  \/ \E c \in Calls : CallStep(c) \/ Cut(c) \/ \E o \in BOOLEAN : Begin(c, o)
  \/ Restart \/ ClearVectors \/ ClearGraph

Spec == SessionInit /\ [][Next]_vars

-----------------------------------------------------------------------------
(* Properties.  `intact': no clear of the tenant overlapped a call.        *)
(* `clean': every call so far returned ok with an extraction, or was       *)
(* skipped.  `last': how many facts the latest fully written version has.  *)
(* `stored': the calls that stored the session without overwriting it,      *)
(* since the last clear or overwrite.                                      *)

\* The type invariant: every variable holds what the code can store in it.
TypeOK ==
  /\ marker \in Marker /\ cached \in Marker
  /\ facts \in [FactIds -> Entry] /\ events \in [EventIds -> Entry]
  /\ sweep \in BOOLEAN
  /\ pc \in [Calls -> {"new", "check", "mark", "extract", "graph", "purge", "write",
                       "publish", "publish2", "stale", "fail", "ended"}]
  /\ over \in [Calls -> BOOLEAN]
  /\ own \in [Calls -> Locals]
  /\ answer \in Answers
  /\ clean \in BOOLEAN /\ intact \in BOOLEAN
  /\ last \in 0 .. MaxFacts /\ stored \subseteq Calls
  /\ used \in Bounds

\* What a skipped call relies on: as long as the marker says completed, every
\* fact it lists is in the vector store, published, and of the call that wrote
\* the marker; whatever was cancelled, raised or died since.
CompletedIsBacked ==
  intact /\ used.silent = 0 /\ marker.status = "completed" =>
    \A i \in 1 .. marker.n : facts[i] = [by |-> marker.by, shown |-> TRUE]

\* overwrite_existing deletes the stale facts: between calls, a completed session
\* has the facts its marker lists and no other.
NoStaleFacts ==
  /\ clean /\ intact /\ used.silent = 0 /\ Quiet
  /\ marker.status = "completed"
  => \A i \in FactIds : facts[i] # Absent => i <= marker.n

\* "Otherwise a failed run could delete data": a fact of the latest version that
\* was fully written is only deleted once the next version is.
OverwriteKeepsData ==
  intact => \A i \in 1 .. last : facts[i] # Absent

\* "session_id idempotency via session_marker": without overwrite_existing a
\* session is stored once.
StoredOnce == intact /\ used.silent = 0 => Cardinality(stored) <= 1

\* A session is there once, and as its marker says.
SessionIsCurrent == NoStaleFacts /\ StoredOnce

Returns(c) == pc[c] # "ended" /\ pc'[c] = "ended" /\ answer' = [call |-> c, status |-> "ok"]

\* Everything the call wrote can be found.
Visible(c) ==
  /\ \A i \in 1 .. own[c].n : facts[i] = [by |-> c, shown |-> TRUE]
  /\ own[c].graph =>
       \A i \in 1 .. own[c].m : events[i] = [by |-> c, shown |-> TRUE]

\* A call that returns ok has stored and published its version of the session,
\* after whatever earlier calls left behind, unless a store or publish_entries
\* swallowed a failure.
OkIsVisible ==
  [][\A c \in Calls :
       Returns(c) /\ intact /\ used.silent = 0 => Visible(c)]_vars
=============================================================================
