------------------------- MODULE MemoryEntries -------------------------
(***************************************************************************)
(* The entries of MemoryService: write with deduplication, update, soft    *)
(* and hard delete, rollback, publication and links, over three stores     *)
(* without a transaction: the vector store (Qdrant), the graph (Neo4j),    *)
(* and the audit log, with the service's own cache of what it wrote.       *)
(*                                                                         *)
(* Qdrant calls are awaited, and other calls run meanwhile.  The graph and *)
(* audit clients never yield: what follows an upsert is one step.  An      *)
(* entry is the text its vector and its fingerprint come from, the other   *)
(* texts merged into it, and its two marks.  One scope (tenant, user,      *)
(* domain, modality) is modelled: entries of two scopes never meet.        *)
(***************************************************************************)
EXTENDS Naturals, Sequences, FiniteSets

CONSTANTS
  Ids,          \* of entries
  Slugs,     \* ids that are not UUIDs: Qdrant files them under a hash
  Texts, NoText, NoNode,
  Drafts,       \* what callers write: [id : Ids, entry : Entry]
  MaxBatch,     \* entries in one write
  Callers,      \* calls in progress at the same time
  MaxCalls, MaxFaults, MaxRestarts   \* bounds of the check

Entry == [head : Texts, more : SUBSET Texts, deleted : BOOLEAN, shown : BOOLEAN]
Absent == [head |-> NoText, more |-> {}, deleted |-> FALSE, shown |-> FALSE]
Stored == Entry \cup {Absent}
Blank == [i \in Ids |-> Absent]

ASSUME EntryAssumption ==
  /\ Slugs \subseteq Ids
  /\ NoText \notin Texts /\ NoNode \notin Texts \cup {NoText}
  /\ Drafts \subseteq [id : Ids, entry : Entry]
  /\ MaxBatch \in Nat \ {0}
  /\ MaxCalls \in Nat /\ MaxFaults \in Nat /\ MaxRestarts \in Nat

Kinds == {"none", "write", "update", "soft", "undo_update", "undo_soft", "hard",
          "show", "hide"}
Places == {"idle", "decide", "upsert", "graph", "audit", "cached"}
\* What a call holds: drafts to decide, entries to write, the snapshot it read,
\* the ids it is at, and, for the properties only, what it promises of each
\* (added to earlier promises, or in place of them) and that nothing disturbed it.
Call == [kind : Kinds, todo : Seq(Drafts), out : [Ids -> Stored], prev : Stored,
         ids : SUBSET Ids, says : [Ids -> SUBSET Texts], anew : SUBSET Ids,
         clean : BOOLEAN]
NoCall == [kind |-> "none", todo |-> << >>, out |-> Blank, prev |-> Absent,
           ids |-> {}, says |-> [i \in Ids |-> {}], anew |-> {}, clean |-> TRUE]

VARIABLES
  vec,          \* the points of Qdrant, by entry id
  node,         \* the text of each MemoryNode, NoText for one made by a link
  cache,        \* MemoryService._cache
  updates, deletes,  \* the snapshots in the rows v-UPDATE-<id>, v-DELETE-<id>
  broken,       \* the circuit breaker of Neo4jStore is open
  pc, call,     \* per caller: where its call is, and what it holds
  used,         \* calls, faults and restarts so far
  calm,         \* history: the last call that wrote the id was not disturbed
  promised,     \* history: texts acknowledged for the id since then
  was           \* history: the last change, if an update or a soft delete

stores == <<vec, node, cache, updates, deletes>>
history == <<calm, promised, was>>
vars == <<stores, broken, pc, call, used, history>>

NoChange == [kind |-> "none", entry |-> Absent]

MemoryInit ==
  /\ vec = Blank /\ cache = Blank
  /\ node = [i \in Ids |-> NoNode]
  /\ updates = Blank /\ deletes = Blank
  /\ broken = FALSE
  /\ pc = [c \in Callers |-> "idle"]
  /\ call = [c \in Callers |-> NoCall]
  /\ used = [calls |-> 0, faults |-> 0, restarts |-> 0]
  /\ calm = [i \in Ids |-> TRUE]
  /\ promised = [i \in Ids |-> {}]
  /\ was = [i \in Ids |-> NoChange]

TextsOf(e) == IF e = Absent THEN {} ELSE {e.head} \cup e.more
Written(out) == {i \in Ids : out[i] # Absent}
Over(f, out) == [i \in Ids |-> IF out[i] # Absent THEN out[i] ELSE f[i]]
Only(i, e) == [Blank EXCEPT ![i] = e]

Fault == used.faults < MaxFaults /\ used' = [used EXCEPT !.faults = @ + 1]
Goes(c, place) == pc' = [pc EXCEPT ![c] = place]

Begins(c) ==
  /\ pc[c] = "idle" /\ used.calls < MaxCalls
  /\ used' = [used EXCEPT !.calls = @ + 1]

Ends(c) ==
  /\ Goes(c, "idle")
  /\ call' = [call EXCEPT ![c] = NoCall]

\* Caller c goes on with call r, now at id i as well; calls that meet disturb
\* each other.
Meets(c, i) == {d \in Callers \ {c} : i \in call[d].ids}
Holds(c, i, r) ==
  call' = [d \in Callers |->
             IF d = c
             THEN [r EXCEPT !.ids = @ \cup {i}, !.clean = @ /\ Meets(c, i) = {}]
             ELSE [call[d] EXCEPT !.clean = @ /\ d \notin Meets(c, i)]]

-----------------------------------------------------------------------------
(* write: normalise, look for duplicates, upsert, then graph and audit.    *)

\* Ids and governance metadata are filled in; the drafts have ids of their own.
Write(c, batch) ==
  /\ Begins(c)
  /\ \A m, n \in DOMAIN batch : m # n => batch[m].id # batch[n].id
  /\ Goes(c, "decide")
  /\ call' = [call EXCEPT ![c] = [NoCall EXCEPT !.kind = "write", !.todo = batch]]
  /\ UNCHANGED <<stores, broken, history>>

\* should_merge of the first neighbour: entries with the same text are nearest,
\* whatever their marks, because neither Qdrant nor the filters look at them.
Twins(e) == {i \in Ids : vec[i] # Absent /\ vec[i].head = e.head}

Merged(base, e) == [base EXCEPT !.more = (@ \cup e.more) \ {base.head}]

\* Two drafts of one batch that are merged into the same entry both start from
\* the stored one: the second replaces the first.
Decided(c, i, e, d, anew) ==
  Holds(c, i, [call[c] EXCEPT
    !.todo = Tail(@), !.out[i] = e, !.clean = @ /\ i \notin call[c].ids,
    !.says[i] = TextsOf(d.entry),
    !.anew = IF anew THEN @ \cup {i} ELSE @ \ {i}])

\* The search for one draft.  When it fails, or the breaker of the vector store
\* cuts it short, there are no neighbours.
Decide(c) ==
  /\ pc[c] = "decide" /\ call[c].todo # << >>
  /\ LET d == Head(call[c].todo)
     IN \/ Twins(d.entry) = {} /\ UNCHANGED used /\ Decided(c, d.id, d.entry, d, TRUE)
        \/ Twins(d.entry) # {} /\ Fault /\ Decided(c, d.id, d.entry, d, TRUE)
        \/ \E i \in Twins(d.entry) :
             Decided(c, i, Merged(vec[i], d.entry), d, FALSE) /\ UNCHANGED used
  /\ UNCHANGED <<stores, broken, pc, history>>

AllDecided(c) ==
  /\ pc[c] = "decide" /\ call[c].todo = << >>
  /\ Goes(c, "upsert")
  /\ UNCHANGED <<stores, broken, call, used, history>>

-----------------------------------------------------------------------------
(* update and soft delete: read, patch, upsert, then graph and audit.      *)

\* get looks for the raw id, which Qdrant knows only if it is a UUID; what it
\* does not find, or an error, is looked up in the cache.
Found(i) == IF i \in Slugs THEN Absent ELSE vec[i]

\* A contents patch replaces all texts.  An entry of the cache is patched where
\* it is.
Patched(e, kind, t) ==
  IF kind = "soft" THEN [e EXCEPT !.deleted = TRUE]
  ELSE IF t = NoText THEN e ELSE [e EXCEPT !.head = t, !.more = {}]

MutantSnapshot(e, kind, t) == Patched(e, kind, t)    \* taken after the patch
Snapshot(e, kind, t) == e

Fetched(c, i, kind, t, base, sure) ==
  /\ Goes(c, "upsert")
  /\ Holds(c, i, [NoCall EXCEPT
       !.kind = kind, !.out = Only(i, Patched(base, kind, t)),
       !.prev = Snapshot(base, kind, t),
       !.says[i] = IF t = NoText THEN {} ELSE {t},
       !.anew = IF t = NoText THEN {} ELSE {i}, !.clean = sure])

\* With nothing to update there is only a row in the log, over the earlier one.
Skipped(i, kind) ==
  /\ updates' = IF kind = "update" THEN [updates EXCEPT ![i] = Absent] ELSE updates
  /\ deletes' = IF kind = "soft" THEN [deletes EXCEPT ![i] = Absent] ELSE deletes
  /\ UNCHANGED <<vec, node, cache, pc, call>>

Fetch(c, i, kind, t) ==
  /\ Begins(c)
  /\ \/ /\ Found(i) # Absent
        /\ Fetched(c, i, kind, t, Found(i), TRUE)
        /\ UNCHANGED stores
     \/ /\ cache[i] # Absent      \* not found, or the request failed
        /\ Fetched(c, i, kind, t, cache[i], Found(i) = Absent)
        /\ cache' = [cache EXCEPT ![i] = Patched(@, kind, t)]
        /\ UNCHANGED <<vec, node, updates, deletes>>
     \/ cache[i] = Absent /\ Skipped(i, kind)
  /\ UNCHANGED <<broken, history>>

Undo(kind) == IF kind = "update" THEN "undo_update" ELSE "undo_soft"

\* rollback_version: the snapshot of the row, without the mark of deletion when
\* it is a deletion's.
Rollback(c, i, kind) ==
  LET row == IF kind = "update" THEN updates[i] ELSE deletes[i]
      e == IF kind = "update" THEN row ELSE [row EXCEPT !.deleted = FALSE]
  IN /\ row # Absent
     /\ Begins(c)
     /\ Goes(c, "upsert")
     /\ Holds(c, i, [NoCall EXCEPT !.kind = Undo(kind), !.out = Only(i, e), !.anew = {i}])
     /\ UNCHANGED <<stores, broken, history>>

-----------------------------------------------------------------------------
(* The second half of write, update, soft delete and rollback.             *)

\* upsert_vectors: one request, which is executed and may still end in an error.
Land(c) ==
  /\ pc[c] = "upsert"
  /\ vec' = Over(vec, call[c].out)
  /\ was' = [i \in Ids |->
       IF call[c].out[i] = Absent THEN was[i]
       ELSE IF call[c].kind \in {"update", "soft"} /\ call[c].clean
            THEN [kind |-> call[c].kind, entry |-> vec[i]] ELSE NoChange]
  /\ Goes(c, "graph")
  /\ UNCHANGED <<node, cache, updates, deletes, broken, call, used, calm, promised>>

\* The error reaches the caller: graph, audit and cache keep what they have.
Breaks(c) ==
  /\ pc[c] \in {"upsert", "graph"} /\ Fault
  /\ calm' = [i \in Ids |-> calm[i] /\ call[c].out[i] = Absent]
  /\ Ends(c)
  /\ UNCHANGED <<stores, broken, promised, was>>

\* The nodes get the first text of each entry.
MutantSettles(c, ok) ==               \* a merged entry keeps its node
  /\ node' = IF ok THEN [i \in Ids |->
                 IF call[c].out[i] # Absent /\ node[i] = NoNode
                 THEN call[c].out[i].head ELSE node[i]]
             ELSE node
  /\ calm' = [i \in Ids |-> IF call[c].out[i] = Absent THEN calm[i]
                            ELSE ok /\ call[c].clean]
  /\ promised' = [i \in Ids |->
       IF call[c].out[i] = Absent THEN promised[i]
       ELSE call[c].says[i] \cup
              (IF i \in call[c].anew \/ ~calm[i] THEN {} ELSE promised[i])]

Settles(c, ok) ==
  /\ node' = IF ok THEN [i \in Ids |->
                 IF call[c].out[i] # Absent THEN call[c].out[i].head ELSE node[i]]
             ELSE node
  /\ calm' = [i \in Ids |-> IF call[c].out[i] = Absent THEN calm[i]
                            ELSE ok /\ call[c].clean]
  /\ promised' = [i \in Ids |->
       IF call[c].out[i] = Absent THEN promised[i]
       ELSE call[c].says[i] \cup
              (IF i \in call[c].anew \/ ~calm[i] THEN {} ELSE promised[i])]

\* write: merge_nodes_edges_batch does not look at the breaker.
FinishWrite(c) ==
  /\ pc[c] = "graph" /\ call[c].kind = "write"
  /\ Settles(c, TRUE)
  /\ cache' = Over(cache, call[c].out)
  /\ Ends(c)
  /\ UNCHANGED <<vec, updates, deletes, broken, used, was>>

\* It is tried three times, then opens the breaker and raises: no row in the
\* log, nothing in the cache.  A relation of a type that is not allowed does it.
FailWrite(c) ==
  /\ pc[c] = "graph" /\ call[c].kind = "write" /\ Fault
  /\ broken' = TRUE
  /\ \E nodes \in BOOLEAN : Settles(c, nodes)
  /\ Ends(c)
  /\ UNCHANGED <<vec, cache, updates, deletes, was>>

\* The others: merge_nodes_edges reports nothing, and does nothing while the
\* breaker is open.
FinishEdit(c) ==
  /\ pc[c] = "graph" /\ call[c].kind # "write"
  /\ \/ ~broken /\ Settles(c, TRUE) /\ UNCHANGED <<broken, used>>
     \/ broken /\ Settles(c, FALSE) /\ UNCHANGED <<broken, used>>
     \/ ~broken /\ Fault /\ Settles(c, FALSE) /\ broken' \in BOOLEAN
  /\ updates' = IF call[c].kind # "update" THEN updates
                ELSE [i \in Ids |-> IF call[c].out[i] = Absent THEN updates[i]
                                    ELSE call[c].prev]
  /\ deletes' = IF call[c].kind # "soft" THEN deletes
                ELSE [i \in Ids |-> IF call[c].out[i] = Absent THEN deletes[i]
                                    ELSE call[c].prev]
  /\ Ends(c)
  /\ UNCHANGED <<vec, cache, was>>

BreakerCloses ==
  /\ broken /\ broken' = FALSE
  /\ UNCHANGED <<stores, pc, call, used, history>>

-----------------------------------------------------------------------------
(* Hard delete, publication, links, restart.                               *)

\* delete_ids by the raw id; its answer is not looked at.  The node stays:
\* Neo4jStore.delete_node does nothing.
Delete(c, i) ==
  /\ Begins(c)
  /\ Goes(c, "audit")
  /\ Holds(c, i, [NoCall EXCEPT !.kind = "hard"])
  /\ \/ /\ i \notin Slugs
        /\ vec' = [vec EXCEPT ![i] = Absent]
        /\ promised' = [promised EXCEPT ![i] = {}]
     \/ UNCHANGED <<vec, promised>>
  /\ was' = [was EXCEPT ![i] = NoChange]
  /\ UNCHANGED <<node, cache, updates, deletes, broken, calm>>

\* The row has no snapshot, and takes the place of a soft delete's.
Deleted(c) ==
  /\ pc[c] = "audit"
  /\ deletes' = [i \in Ids |-> IF i \in call[c].ids THEN Absent ELSE deletes[i]]
  /\ Ends(c)
  /\ UNCHANGED <<vec, node, cache, updates, broken, used, history>>

\* publish_entries: the payload of the raw id, whatever comes of it, then the
\* cached object.
Mark(f, i, shown) == IF f[i] = Absent THEN f ELSE [f EXCEPT ![i].shown = shown]

Publish(c, i, shown) ==
  /\ Begins(c)
  /\ Goes(c, "cached")
  /\ Holds(c, i, [NoCall EXCEPT !.kind = IF shown THEN "show" ELSE "hide"])
  /\ \/ i \notin Slugs /\ vec' = Mark(vec, i, shown)
     \/ UNCHANGED vec
  /\ was' = [was EXCEPT ![i] = NoChange]
  /\ UNCHANGED <<node, cache, updates, deletes, broken, calm, promised>>

Published(c) ==
  /\ pc[c] = "cached"
  /\ \E i \in call[c].ids : cache' = Mark(cache, i, call[c].kind = "show")
  /\ Ends(c)
  /\ UNCHANGED <<vec, node, updates, deletes, broken, used, history>>

\* link: one step.  Nodes that are not there are made, without a text.
Link(i, j) ==
  /\ ~broken
  /\ node' = [k \in Ids |-> IF k \in {i, j} /\ node[k] = NoNode THEN NoText
                            ELSE node[k]]
  /\ UNCHANGED <<vec, cache, updates, deletes, broken, pc, call, used, history>>

\* The process ends.  The log of the server is in memory.
Restart ==
  /\ used.restarts < MaxRestarts
  /\ used' = [used EXCEPT !.restarts = @ + 1]
  /\ cache' = Blank /\ updates' = Blank /\ deletes' = Blank
  /\ broken' = FALSE
  /\ pc' = [c \in Callers |-> "idle"]
  /\ call' = [c \in Callers |-> NoCall]
  /\ calm' = [i \in Ids |-> calm[i] /\ \A c \in Callers : call[c].out[i] = Absent]
  /\ UNCHANGED <<vec, node, promised, was>>

-----------------------------------------------------------------------------

Begin(c) ==
  \/ \E batch \in UNION {[1 .. n -> Drafts] : n \in 1 .. MaxBatch} : Write(c, batch)
  \/ \E i \in Ids, t \in Texts \cup {NoText} : Fetch(c, i, "update", t)
  \/ \E i \in Ids : Fetch(c, i, "soft", NoText) \/ Delete(c, i)
  \/ \E i \in Ids, kind \in {"update", "soft"} : Rollback(c, i, kind)
  \/ \E i \in Ids, shown \in BOOLEAN : Publish(c, i, shown)

Continue(c) ==
  \/ Decide(c) \/ AllDecided(c)
  \/ Land(c) \/ Breaks(c)
  \/ FinishWrite(c) \/ FailWrite(c) \/ FinishEdit(c)
  \/ Deleted(c) \/ Published(c)

MemoryNext ==
  \/ \E c \in Callers : Begin(c) \/ Continue(c)
  \/ \E i, j \in Ids : Link(i, j)
  \/ BreakerCloses
  \/ Restart

MemorySpec == MemoryInit /\ [][MemoryNext]_vars

-----------------------------------------------------------------------------
(* Properties                                                              *)

MemoryTypeOK ==
  /\ vec \in [Ids -> Stored] /\ cache \in [Ids -> Stored]
  /\ node \in [Ids -> Texts \cup {NoText, NoNode}]
  /\ updates \in [Ids -> Stored] /\ deletes \in [Ids -> Stored]
  /\ broken \in BOOLEAN
  /\ pc \in [Callers -> Places] /\ call \in [Callers -> Call]
  /\ used \in [calls : 0 .. MaxCalls, faults : 0 .. MaxFaults,
               restarts : 0 .. MaxRestarts]
  /\ calm \in [Ids -> BOOLEAN]
  /\ promised \in [Ids -> SUBSET Texts]
  /\ was \in [Ids -> [kind : Kinds, entry : Stored]]

Free(i) == \A c \in Callers : i \notin call[c].ids

\* The graph has the text of the entry that the vector store has, after every
\* call that had the entry for itself and met no failure: whatever calls, met or
\* failed ones too, went before, and whatever goes on at other entries.
GraphFollows ==
  \A i \in Ids : calm[i] /\ Free(i) /\ vec[i] # Absent => node[i] = vec[i].head

\* What writes and updates of such calls were acknowledged for is stored: a
\* duplicate is merged and not dropped, and an update, which starts from what it
\* reads, does not bring back an older entry.  (An entry that is not found by its
\* id is updated from the cache, which a rollback does not change.)
NothingLost ==
  \A i \in Ids \ Slugs : calm[i] /\ Free(i) => promised[i] \subseteq TextsOf(vec[i])

\* Both stores keep what acknowledged calls told them.
EntriesAreKept == GraphFollows /\ NothingLost

Before(i, kind) == IF kind = "update" THEN was[i].entry
                   ELSE [was[i].entry EXCEPT !.deleted = FALSE]

\* A rollback puts back what was there before the update or the soft delete,
\* through every path that the snapshot takes (store, cache, log), unless other
\* calls met it.
RollbackRestores ==
  [][\A c \in Callers, i \in Ids \ Slugs, kind \in {"update", "soft"} :
       /\ pc[c] = "upsert" /\ pc'[c] = "graph"
       /\ call[c].kind = Undo(kind) /\ call[c].clean /\ calm[i]
       /\ call[c].out[i] # Absent
       /\ was[i].kind = kind /\ was[i].entry # Absent
       => vec'[i] = Before(i, kind)]_vars
=============================================================================
