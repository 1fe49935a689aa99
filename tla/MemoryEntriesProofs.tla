---------------------- MODULE MemoryEntriesProofs ----------------------
(***************************************************************************)
(* What the stores keep of the entries of a tenant, and what becomes of    *)
(* its graph, for any number of entries, nodes, callers, faults and        *)
(* restarts.  First the entries.  Calls interleave at every request; the   *)
(* proofs rest on the record of who met whom: a call that stays clean had  *)
(* its entries for itself (Apart), so what it read is still there when it  *)
(* writes, and what it wrote is still there when it goes on to the graph.  *)
(* Then, from "The kinds of the nodes and of the edges" on, the graph: the *)
(* export, the slices and the links that builds make, and the reads.       *)
(***************************************************************************)
EXTENDS MemoryEntries, GraphUpkeep, FiniteSetTheorems, SequenceTheorems,
        WellFoundedInduction, TLAPS

-----------------------------------------------------------------------------
(* Entries.                                                                *)

LEMMA Blanks ==
  /\ Absent \in Stored /\ Absent \notin Entry /\ Blank \in [Ids -> Stored]
  /\ \A i \in Ids : Blank[i] = Absent
BY EntryAssumption DEF Absent, Stored, Entry, Blank

LEMMA Present ==
  ASSUME NEW e \in Stored, e # Absent
  PROVE  e \in Entry /\ e.head \in Texts /\ e.more \subseteq Texts
         /\ TextsOf(e) = {e.head} \cup e.more
BY DEF Stored, Entry, TextsOf

LEMMA PresentTexts ==
  ASSUME NEW e \in Entry
  PROVE  e \in Stored /\ e # Absent /\ e.head \in Texts /\ e.more \subseteq Texts
         /\ TextsOf(e) = {e.head} \cup e.more
<1>1. e \in Stored /\ e # Absent
  BY Blanks DEF Stored
<1> QED BY <1>1, Present

\* An entry keeps its texts when its marks change.
LEMMA Marking ==
  ASSUME NEW e \in Entry, NEW b \in BOOLEAN
  PROVE  /\ [e EXCEPT !.shown = b] \in Entry
         /\ [e EXCEPT !.deleted = b] \in Entry
         /\ [e EXCEPT !.shown = b].head = e.head
         /\ TextsOf([e EXCEPT !.shown = b]) = TextsOf(e)
         /\ TextsOf([e EXCEPT !.deleted = b]) = TextsOf(e)
<1>1. /\ [e EXCEPT !.shown = b] \in Entry /\ [e EXCEPT !.deleted = b] \in Entry
      /\ [e EXCEPT !.shown = b].head = e.head /\ [e EXCEPT !.shown = b].more = e.more
      /\ [e EXCEPT !.deleted = b].head = e.head /\ [e EXCEPT !.deleted = b].more = e.more
  BY DEF Entry
<1> QED BY <1>1, PresentTexts

\* Publication changes one mark of one entry, if it is there.
LEMMA Marks ==
  ASSUME NEW f \in [Ids -> Stored], NEW i \in Ids, NEW b \in BOOLEAN
  PROVE  /\ Mark(f, i, b) \in [Ids -> Stored]
         /\ \A j \in Ids : /\ Mark(f, i, b)[j] = Absent <=> f[j] = Absent
                           /\ Mark(f, i, b)[j].head = f[j].head
                           /\ TextsOf(Mark(f, i, b)[j]) = TextsOf(f[j])
                           /\ j # i => Mark(f, i, b)[j] = f[j]
<1>1. CASE f[i] = Absent
  BY <1>1 DEF Mark
<1>2. CASE f[i] # Absent
  <2>1. f[i] \in Entry
    BY <1>2, Present
  <2> DEFINE e == [f[i] EXCEPT !.shown = b]
  <2>2. e \in Entry /\ e.head = f[i].head /\ TextsOf(e) = TextsOf(f[i])
    BY <2>1, Marking
  <2>3. Mark(f, i, b) = [f EXCEPT ![i] = e]
    BY <1>2 DEF Mark
  <2> HIDE DEF e
  <2> QED BY <1>2, <2>2, <2>3, PresentTexts
<1> QED BY <1>1, <1>2

LEMMA Merging ==
  ASSUME NEW base \in Entry, NEW e \in Entry
  PROVE  /\ Merged(base, e) \in Entry
         /\ TextsOf(base) \subseteq TextsOf(Merged(base, e))
         /\ base.head = e.head => TextsOf(e) \subseteq TextsOf(Merged(base, e))
<1>1. /\ Merged(base, e) \in Entry /\ Merged(base, e).head = base.head
      /\ Merged(base, e).more = (base.more \cup e.more) \ {base.head}
  BY DEF Merged, Entry
<1> QED BY <1>1, PresentTexts

LEMMA Patching ==
  ASSUME NEW e \in Entry, NEW kind \in {"update", "soft"}, NEW t \in Texts \cup {NoText},
         kind = "soft" => t = NoText
  PROVE  /\ Patched(e, kind, t) \in Entry
         /\ t # NoText => TextsOf(Patched(e, kind, t)) = {t}
         /\ t = NoText => TextsOf(Patched(e, kind, t)) = TextsOf(e)
<1>1. CASE kind = "soft"
  BY <1>1, Marking, EntryAssumption DEF Patched
<1>2. CASE kind # "soft" /\ t = NoText
  BY <1>2 DEF Patched
<1>3. CASE kind # "soft" /\ t # NoText
  <2>1. Patched(e, kind, t) = [e EXCEPT !.head = t, !.more = {}]
    BY <1>3 DEF Patched
  <2>2. Patched(e, kind, t) = [head |-> t, more |-> {}, deleted |-> e.deleted, shown |-> e.shown]
    BY <2>1 DEF Entry
  <2>3. /\ Patched(e, kind, t) \in Entry
        /\ Patched(e, kind, t).head = t /\ Patched(e, kind, t).more = {}
    BY <2>2, <1>3 DEF Entry
  <2> QED BY <2>3, <1>3, PresentTexts
<1> QED BY <1>1, <1>2, <1>3

-----------------------------------------------------------------------------
(* Calls.                                                                  *)

LEMMA NoCallType ==
  /\ NoCall \in Call /\ NoCall.kind = "none" /\ NoCall.out = Blank /\ NoCall.ids = {}
  /\ NoCall.clean = TRUE /\ NoCall.prev = Absent /\ NoCall.anew = {} /\ NoCall.todo = << >>
  /\ \A i \in Ids : NoCall.says[i] = {}
BY Blanks DEF NoCall, Call, Kinds

LEMMA CallFields ==
  ASSUME NEW r \in Call
  PROVE  /\ r.kind \in Kinds /\ r.todo \in Seq(Drafts) /\ r.out \in [Ids -> Stored]
         /\ r.prev \in Stored /\ r.ids \subseteq Ids /\ r.says \in [Ids -> SUBSET Texts]
         /\ r.anew \subseteq Ids /\ r.clean \in BOOLEAN
BY DEF Call

\* A call that goes on to an entry: what it holds then, and what the others do.
LEMMA Holding ==
  ASSUME NEW c \in Callers, NEW i \in Ids, NEW r \in Call,
         call \in [Callers -> Call], Holds(c, i, r)
  PROVE  /\ call'[c].kind = r.kind /\ call'[c].todo = r.todo /\ call'[c].out = r.out
         /\ call'[c].prev = r.prev /\ call'[c].says = r.says /\ call'[c].anew = r.anew
         /\ call'[c].ids = r.ids \cup {i}
         /\ call'[c].clean <=> r.clean /\ Meets(c, i) = {}
         /\ \A d \in Callers : d # c =>
              /\ call'[d].kind = call[d].kind /\ call'[d].out = call[d].out
              /\ call'[d].prev = call[d].prev /\ call'[d].ids = call[d].ids
              /\ call'[d].says = call[d].says /\ call'[d].anew = call[d].anew
              /\ call'[d].clean <=> call[d].clean /\ d \notin Meets(c, i)
              /\ d \notin Meets(c, i) => call'[d] = call[d]
         /\ call' \in [Callers -> Call]
<1>1. call'[c] = [r EXCEPT !.ids = @ \cup {i}, !.clean = @ /\ Meets(c, i) = {}]
  BY DEF Holds
<1>2. /\ call'[c] \in Call
      /\ call'[c].kind = r.kind /\ call'[c].todo = r.todo /\ call'[c].out = r.out
      /\ call'[c].prev = r.prev /\ call'[c].says = r.says /\ call'[c].anew = r.anew
      /\ call'[c].ids = r.ids \cup {i}
      /\ call'[c].clean <=> r.clean /\ Meets(c, i) = {}
  <2> DEFINE b == r.clean /\ Meets(c, i) = {}
             a == r.ids \cup {i}
  <2>1. b \in BOOLEAN /\ a \in SUBSET Ids
    BY CallFields
  <2>2. call'[c] = [r EXCEPT !.ids = a, !.clean = b]
    BY <1>1
  <2> HIDE DEF a, b
  <2>3. /\ call'[c] \in Call
        /\ call'[c].kind = r.kind /\ call'[c].todo = r.todo /\ call'[c].out = r.out
        /\ call'[c].prev = r.prev /\ call'[c].says = r.says /\ call'[c].anew = r.anew
        /\ call'[c].ids = a /\ call'[c].clean = b
    BY <2>1, <2>2 DEF Call
  <2> QED BY <2>3 DEF a, b
<1>3. ASSUME NEW d \in Callers, d # c
      PROVE  /\ call'[d] \in Call
             /\ call'[d].kind = call[d].kind /\ call'[d].out = call[d].out
             /\ call'[d].prev = call[d].prev /\ call'[d].ids = call[d].ids
             /\ call'[d].says = call[d].says /\ call'[d].anew = call[d].anew
             /\ call'[d].clean <=> call[d].clean /\ d \notin Meets(c, i)
             /\ d \notin Meets(c, i) => call'[d] = call[d]
  <2>1. call'[d] = [call[d] EXCEPT !.clean = @ /\ d \notin Meets(c, i)] /\ call[d] \in Call
    BY <1>3 DEF Holds
  <2> DEFINE b == call[d].clean /\ d \notin Meets(c, i)
  <2>2. b \in BOOLEAN /\ (d \notin Meets(c, i) => b = call[d].clean)
    BY <2>1, CallFields
  <2>3. call'[d] = [call[d] EXCEPT !.clean = b]
    BY <2>1
  <2> HIDE DEF b
  <2>4. /\ call'[d] \in Call
        /\ call'[d].kind = call[d].kind /\ call'[d].out = call[d].out
        /\ call'[d].prev = call[d].prev /\ call'[d].ids = call[d].ids
        /\ call'[d].says = call[d].says /\ call'[d].anew = call[d].anew
        /\ call'[d].clean = b
    BY <2>1, <2>2, <2>3 DEF Call
  <2>6. b = call[d].clean => call'[d] = call[d]
    BY <2>1, <2>3 DEF Call
  <2>5. call'[d].clean <=> call[d].clean /\ d \notin Meets(c, i)
    BY <2>4 DEF b
  <2> QED BY <2>2, <2>4, <2>5, <2>6
<1>4. call' \in [Callers -> Call]
  BY <1>2, <1>3 DEF Holds
<1> QED BY <1>2, <1>3, <1>4

\* The calls that the actions make of theirs.
Begun(kind, i, e) == [NoCall EXCEPT !.kind = kind, !.out = Only(i, e), !.anew = {i}]
FetchCall(i, kind, t, base) ==
  [NoCall EXCEPT !.kind = kind, !.out = Only(i, Patched(base, kind, t)),
                 !.prev = base, !.says[i] = IF t = NoText THEN {} ELSE {t},
                 !.anew = IF t = NoText THEN {} ELSE {i}]
AtDraft(r, i, e, says, anew) ==
  [r EXCEPT !.todo = Tail(@), !.out[i] = e, !.clean = @ /\ i \notin r.ids,
            !.says[i] = says, !.anew = anew]

LEMMA BegunType ==
  ASSUME NEW kind \in Kinds, NEW i \in Ids, NEW e \in Stored
  PROVE  /\ Begun(kind, i, e) \in Call
         /\ Begun(kind, i, e).kind = kind /\ Begun(kind, i, e).out = Only(i, e)
         /\ Begun(kind, i, e).ids = {}
         /\ Begun(kind, i, e).anew = {i}
         /\ \A j \in Ids : Begun(kind, i, e).says[j] = {}
<1>1. Only(i, e) \in [Ids -> Stored]
  BY Blanks DEF Only
<1> QED BY <1>1, NoCallType DEF Begun, Call

-----------------------------------------------------------------------------
(* Types.                                                                  *)

\* What the end of a call leaves in the graph and in the history.
LEMMA Settling ==
  ASSUME MemoryTypeOK, NEW c \in Callers, NEW ok \in BOOLEAN, Settles(c, ok)
  PROVE  /\ node' \in [Ids -> Texts \cup {NoText, NoNode}]
         /\ calm' \in [Ids -> BOOLEAN]
         /\ promised' \in [Ids -> SUBSET Texts]
<1>1. call[c] \in Call
  BY DEF MemoryTypeOK
<1>2. \A i \in Ids : call[c].out[i] # Absent => call[c].out[i].head \in Texts
  BY <1>1, CallFields, Present
<1>3. node' \in [Ids -> Texts \cup {NoText, NoNode}]
  BY <1>2 DEF Settles, MemoryTypeOK
<1>4. calm' \in [Ids -> BOOLEAN]
  BY <1>1, CallFields DEF Settles, MemoryTypeOK
<1>5. promised' \in [Ids -> SUBSET Texts]
  BY <1>1, CallFields DEF Settles, MemoryTypeOK
<1> QED BY <1>3, <1>4, <1>5

LEMMA Ending ==
  ASSUME MemoryTypeOK, NEW c \in Callers, Ends(c)
  PROVE  /\ pc' \in [Callers -> Places] /\ call' \in [Callers -> Call]
         /\ pc' = [pc EXCEPT ![c] = "idle"] /\ call' = [call EXCEPT ![c] = NoCall]
BY NoCallType DEF Ends, Goes, MemoryTypeOK, Places

LEMMA Beginning ==
  ASSUME MemoryTypeOK, NEW c \in Callers, Begins(c)
  PROVE  pc[c] = "idle"
         /\ used' \in [calls : 0 .. MaxCalls, faults : 0 .. MaxFaults, restarts : 0 .. MaxRestarts]
BY EntryAssumption DEF Begins, MemoryTypeOK

LEMMA Faulting ==
  ASSUME MemoryTypeOK, Fault
  PROVE  used' \in [calls : 0 .. MaxCalls, faults : 0 .. MaxFaults, restarts : 0 .. MaxRestarts]
BY EntryAssumption DEF Fault, MemoryTypeOK

LEMMA Finding ==
  ASSUME MemoryTypeOK, NEW i \in Ids
  PROVE  Found(i) \in Stored /\ cache[i] \in Stored /\ vec[i] \in Stored
         /\ updates[i] \in Stored /\ deletes[i] \in Stored
BY Blanks DEF Found, MemoryTypeOK

\* The call of an update or a soft delete that has read its entry.
LEMMA Fetching ==
  ASSUME NEW i \in Ids, NEW kind \in {"update", "soft"}, NEW t \in Texts \cup {NoText},
         kind = "soft" => t = NoText, NEW base \in Entry
  PROVE  LET r == FetchCall(i, kind, t, base)
         IN  /\ r \in Call /\ r.kind = kind /\ r.out = Only(i, Patched(base, kind, t))
             /\ r.prev = base /\ r.ids = {}
             /\ t = NoText => r.says[i] = {} /\ r.anew = {}
             /\ t # NoText => r.says[i] = {t} /\ r.anew = {i}
<1> DEFINE says == IF t = NoText THEN {} ELSE {t}
           anew == IF t = NoText THEN {} ELSE {i}
           f == [NoCall.says EXCEPT ![i] = says]
           e == Patched(base, kind, t)
           r == FetchCall(i, kind, t, base)
<1>1. kind \in Kinds /\ e \in Stored /\ base \in Stored
  BY Patching, PresentTexts DEF Kinds
<1>2. says \in SUBSET Texts /\ anew \in SUBSET Ids
  OBVIOUS
<1>3. f \in [Ids -> SUBSET Texts] /\ f[i] = says
  BY <1>2, NoCallType, CallFields
<1>4. Only(i, e) \in [Ids -> Stored]
  BY <1>1, Blanks DEF Only
<1>5. r = [NoCall EXCEPT !.kind = kind, !.out = Only(i, e), !.prev = base,
                         !.says = f, !.anew = anew]
  BY DEF FetchCall
<1>6. /\ r \in Call /\ r.kind = kind /\ r.out = Only(i, e)
      /\ r.prev = base /\ r.ids = {} /\ r.says = f /\ r.anew = anew
  <2> HIDE DEF f, e, says, anew, r
  <2> QED BY <1>1, <1>2, <1>3, <1>4, <1>5, NoCallType DEF Call
<1> QED BY <1>3, <1>6

\* The call of a write that has decided one draft.
LEMMA Deciding ==
  ASSUME NEW q \in Call, q.todo # << >>, NEW i \in Ids, NEW e \in Stored,
         NEW says \in SUBSET Texts, NEW anew \in SUBSET Ids
  PROVE  LET r == AtDraft(q, i, e, says, anew)
         IN  /\ r \in Call /\ r.kind = q.kind /\ r.ids = q.ids
             /\ r.out = [q.out EXCEPT ![i] = e] /\ r.says = [q.says EXCEPT ![i] = says]
             /\ r.anew = anew
             /\ r.clean => q.clean /\ i \notin q.ids
<1> DEFINE r == AtDraft(q, i, e, says, anew)
           f == [q.says EXCEPT ![i] = says]
           g == [q.out EXCEPT ![i] = e]
           b == q.clean /\ i \notin q.ids
<1>1. f \in [Ids -> SUBSET Texts] /\ g \in [Ids -> Stored]
  BY CallFields
<1>2. Tail(q.todo) \in Seq(Drafts) /\ b \in BOOLEAN
  BY CallFields
<1>3. r = [q EXCEPT !.todo = Tail(q.todo), !.out = g, !.clean = b, !.says = f, !.anew = anew]
  BY DEF AtDraft, Call
<1> HIDE DEF f, g, b, r
<1>4. /\ r \in Call /\ r.kind = q.kind /\ r.ids = q.ids
      /\ r.out = g /\ r.says = f /\ r.anew = anew /\ r.clean = b
  BY <1>1, <1>2, <1>3 DEF Call
<1> QED BY <1>4 DEF f, g, b, r

\* With an entry of its own, or merged into another one.
LEMMA DecidedCall ==
  ASSUME NEW c \in Callers, NEW i \in Ids, NEW e \in Stored, NEW d, NEW q \in Call, q = call[c]
  PROVE  /\ Decided(c, i, e, d, TRUE) =>
              Holds(c, i, AtDraft(q, i, e, TextsOf(d.entry), q.anew \cup {i}))
         /\ Decided(c, i, e, d, FALSE) =>
              Holds(c, i, AtDraft(q, i, e, TextsOf(d.entry), q.anew \ {i}))
BY DEF Decided, AtDraft, Call

-----------------------------------------------------------------------------
(* The inductive invariant.                                                *)

Wants(c, i) == call[c].out[i] # Absent
Landed(i)   == \E c \in Callers : pc[c] = "graph" /\ Wants(c, i)

\* Whatever others did: what a call writes, it is at, and has its promises.
Shaped(c) ==
  /\ pc[c] = "idle" => call[c] = NoCall
  /\ pc[c] = "decide" => call[c].kind = "write"
  /\ pc[c] \in {"audit", "cached"} => \A i \in Ids : ~Wants(c, i)
  /\ \A i \in Ids : Wants(c, i) =>
       i \in call[c].ids /\ call[c].says[i] \subseteq TextsOf(call[c].out[i])

\* A call that nothing disturbed, and an entry it writes: nobody else is there;
\* before the upsert the entry is as it was read, after it as it was written.
Apart(c, i)  == \A d \in Callers \ {c} : i \notin call[d].ids
Placed(c, i) == pc[c] = "graph" => vec[i] = call[c].out[i]
Keeps(c, i)  ==
  i \notin call[c].anew /\ calm[i] => promised[i] \subseteq TextsOf(call[c].out[i])
Based(c, i)  ==
  pc[c] = "upsert" /\ call[c].kind \in {"update", "soft"} => vec[i] \in {Absent, call[c].prev}
Logs(c, i)   ==
  pc[c] = "graph" =>
    \/ was[i].kind = "none"
    \/ /\ call[c].kind \in {"update", "soft"} /\ was[i].kind = call[c].kind
       /\ was[i].entry \in {Absent, call[c].prev}
Undoes(c, i) ==
  pc[c] = "upsert" /\ calm[i] =>
    \A kind \in {"update", "soft"} :
      call[c].kind = Undo(kind) /\ was[i].kind = kind /\ was[i].entry # Absent =>
        call[c].out[i] = Before(i, kind)

Owned(c, i) ==
  /\ Apart(c, i) /\ Placed(c, i)
  /\ i \notin Slugs => Keeps(c, i) /\ Based(c, i) /\ Logs(c, i) /\ Undoes(c, i)

CallOK(c) ==
  /\ Shaped(c)
  /\ call[c].clean => \A i \in Ids : Wants(c, i) => Owned(c, i)

\* An entry that was left in order, while no call is between its two stores.
Follows(i) == vec[i] # Absent => node[i] = vec[i].head
Stores(i)  == i \notin Slugs => promised[i] \subseteq TextsOf(vec[i])
RowsFit(i) ==
  i \notin Slugs /\ was[i].entry # Absent =>
    /\ was[i].kind = "update" => updates[i] \in {Absent, was[i].entry}
    /\ was[i].kind = "soft" => deletes[i] \in {Absent, was[i].entry}
EntryOK(i) == calm[i] /\ ~Landed(i) => Follows(i) /\ Stores(i) /\ RowsFit(i)

EntriesOK == \A i \in Ids : EntryOK(i)
Orderly == (\A c \in Callers : CallOK(c)) /\ EntriesOK
EntriesInv == MemoryTypeOK /\ Orderly

-----------------------------------------------------------------------------
(* Every step keeps the types.                                             *)

LEMMA TypeInit == MemoryInit => MemoryTypeOK
<1> SUFFICES ASSUME MemoryInit PROVE MemoryTypeOK
  OBVIOUS
<1>1. vec \in [Ids -> Stored] /\ cache \in [Ids -> Stored]
  BY Blanks DEF MemoryInit
<1>2. updates \in [Ids -> Stored] /\ deletes \in [Ids -> Stored]
  BY Blanks DEF MemoryInit
<1>3. pc \in [Callers -> Places] /\ call \in [Callers -> Call]
  BY NoCallType DEF MemoryInit, Places
<1>4. NoChange \in [kind : Kinds, entry : Stored]
  BY Blanks DEF NoChange, Kinds
<1>5. used \in [calls : 0 .. MaxCalls, faults : 0 .. MaxFaults, restarts : 0 .. MaxRestarts]
  BY EntryAssumption DEF MemoryInit
<1>6. was \in [Ids -> [kind : Kinds, entry : Stored]]
  BY <1>4 DEF MemoryInit
<1>7. /\ node \in [Ids -> Texts \cup {NoText, NoNode}] /\ broken \in BOOLEAN
      /\ calm \in [Ids -> BOOLEAN] /\ promised \in [Ids -> SUBSET Texts]
  BY DEF MemoryInit
<1> QED BY <1>1, <1>2, <1>3, <1>5, <1>6, <1>7 DEF MemoryTypeOK

LEMMA BeginTypes ==
  ASSUME MemoryTypeOK, NEW c \in Callers, Begin(c)
  PROVE  MemoryTypeOK'
<1>1. ASSUME NEW n \in 1 .. MaxBatch, NEW batch \in [1 .. n -> Drafts], Write(c, batch)
      PROVE  MemoryTypeOK'
  <2>1. batch \in Seq(Drafts)
    BY <1>1, EntryAssumption
  <2>2. [NoCall EXCEPT !.kind = "write", !.todo = batch] \in Call
    BY <2>1, NoCallType DEF Call, Kinds
  <2>3. /\ pc' \in [Callers -> Places] /\ call' \in [Callers -> Call]
        /\ UNCHANGED <<stores, broken, history>>
    BY <1>1, <2>2 DEF Write, Goes, MemoryTypeOK, Places
  <2>4. used' \in [calls : 0 .. MaxCalls, faults : 0 .. MaxFaults, restarts : 0 .. MaxRestarts]
    BY <1>1, Beginning DEF Write
  <2> QED BY <2>3, <2>4 DEF MemoryTypeOK, stores, history
<1>2. ASSUME NEW i \in Ids, NEW kind \in {"update", "soft"}, NEW t \in Texts \cup {NoText},
             kind = "soft" => t = NoText, Fetch(c, i, kind, t)
      PROVE  MemoryTypeOK'
  <2>1. used' \in [calls : 0 .. MaxCalls, faults : 0 .. MaxFaults, restarts : 0 .. MaxRestarts]
    BY <1>2, Beginning DEF Fetch
  <2>2. CASE Found(i) # Absent /\ Fetched(c, i, kind, t, Found(i), TRUE) /\ UNCHANGED stores
    <3>1. PICK base \in Entry : base = Found(i)
      BY <2>2, Finding, Present
    <3> DEFINE q == FetchCall(i, kind, t, base)
               r == [q EXCEPT !.clean = TRUE]
    <3>2. Holds(c, i, r) /\ pc' = [pc EXCEPT ![c] = "upsert"]
      BY <2>2, <3>1 DEF Fetched, Goes, Snapshot, FetchCall
    <3>3. r \in Call
      <4>1. q \in Call
        BY <1>2, Fetching
      <4> HIDE DEF q
      <4> QED BY <4>1 DEF Call
    <3>4. call' \in [Callers -> Call]
      <4> HIDE DEF r
      <4> QED BY <3>2, <3>3, Holding DEF MemoryTypeOK
    <3> QED BY <1>2, <2>1, <2>2, <3>2, <3>4 DEF Fetch, MemoryTypeOK, Places, stores, history
  <2>3. CASE /\ cache[i] # Absent
             /\ Fetched(c, i, kind, t, cache[i], Found(i) = Absent)
             /\ cache' = [cache EXCEPT ![i] = Patched(@, kind, t)]
             /\ UNCHANGED <<vec, node, updates, deletes>>
    <3>1. PICK base \in Entry : base = cache[i]
      BY <2>3, Finding, Present
    <3> DEFINE q == FetchCall(i, kind, t, base)
               r == [q EXCEPT !.clean = Found(i) = Absent]
    <3>2. Holds(c, i, r) /\ pc' = [pc EXCEPT ![c] = "upsert"]
      BY <2>3, <3>1 DEF Fetched, Goes, Snapshot, FetchCall
    <3>3. r \in Call
      <4>1. q \in Call
        BY <1>2, Fetching
      <4> HIDE DEF q
      <4> QED BY <4>1 DEF Call
    <3>4. call' \in [Callers -> Call]
      <4> HIDE DEF r
      <4> QED BY <3>2, <3>3, Holding DEF MemoryTypeOK
    <3>5. Patched(base, kind, t) \in Stored
      BY <1>2, Patching, PresentTexts
    <3>6. cache' = [cache EXCEPT ![i] = Patched(base, kind, t)]
      BY <2>3, <3>1
    <3>7. cache' \in [Ids -> Stored]
      BY <3>5, <3>6 DEF MemoryTypeOK
    <3> QED BY <1>2, <2>1, <2>3, <3>2, <3>4, <3>7 DEF Fetch, MemoryTypeOK, Places, history
  <2>4. CASE cache[i] = Absent /\ Skipped(i, kind)
    <3>1. updates' \in [Ids -> Stored] /\ deletes' \in [Ids -> Stored]
      BY <2>4, Blanks DEF Skipped, MemoryTypeOK
    <3> QED BY <1>2, <2>1, <2>4, <3>1 DEF Fetch, Skipped, MemoryTypeOK, history
  <2> QED BY <1>2, <2>2, <2>3, <2>4 DEF Fetch
<1>3. ASSUME NEW i \in Ids, Delete(c, i)
      PROVE  MemoryTypeOK'
  <2>1. used' \in [calls : 0 .. MaxCalls, faults : 0 .. MaxFaults, restarts : 0 .. MaxRestarts]
    BY <1>3, Beginning DEF Delete
  <2>2. [NoCall EXCEPT !.kind = "hard"] \in Call
    BY NoCallType DEF Call, Kinds
  <2>3. call' \in [Callers -> Call]
    BY <1>3, <2>2, Holding DEF Delete, MemoryTypeOK
  <2>4. vec' \in [Ids -> Stored] /\ promised' \in [Ids -> SUBSET Texts]
    BY <1>3, Blanks DEF Delete, MemoryTypeOK
  <2>5. was' \in [Ids -> [kind : Kinds, entry : Stored]]
    BY <1>3, Blanks DEF Delete, MemoryTypeOK, NoChange, Kinds
  <2> QED BY <1>3, <2>1, <2>3, <2>4, <2>5 DEF Delete, Goes, MemoryTypeOK, Places
<1>4. ASSUME NEW i \in Ids, NEW kind \in {"update", "soft"}, Rollback(c, i, kind)
      PROVE  MemoryTypeOK'
  <2>1. used' \in [calls : 0 .. MaxCalls, faults : 0 .. MaxFaults, restarts : 0 .. MaxRestarts]
    BY <1>4, Beginning DEF Rollback
  <2> DEFINE row == IF kind = "update" THEN updates[i] ELSE deletes[i]
             e == IF kind = "update" THEN row ELSE [row EXCEPT !.deleted = FALSE]
  <2>2. row \in Entry
    BY <1>4, Finding, Present DEF Rollback
  <2>3. e \in Stored /\ Undo(kind) \in Kinds
    BY <2>2, Marking, PresentTexts DEF Undo, Kinds
  <2>4. Holds(c, i, Begun(Undo(kind), i, e))
    BY <1>4 DEF Rollback, Begun
  <2>5. call' \in [Callers -> Call]
    <3> HIDE DEF e
    <3> QED BY <2>3, <2>4, BegunType, Holding DEF MemoryTypeOK
  <2> QED BY <1>4, <2>1, <2>5 DEF Rollback, Goes, MemoryTypeOK, Places, stores, history
<1>5. ASSUME NEW i \in Ids, NEW shown \in BOOLEAN, Publish(c, i, shown)
      PROVE  MemoryTypeOK'
  <2>1. used' \in [calls : 0 .. MaxCalls, faults : 0 .. MaxFaults, restarts : 0 .. MaxRestarts]
    BY <1>5, Beginning DEF Publish
  <2>2. [NoCall EXCEPT !.kind = IF shown THEN "show" ELSE "hide"] \in Call
    BY NoCallType DEF Call, Kinds
  <2>3. call' \in [Callers -> Call]
    BY <1>5, <2>2, Holding DEF Publish, MemoryTypeOK
  <2>4. Mark(vec, i, shown) \in [Ids -> Stored]
    BY Marks, Finding, Present, PresentTexts DEF MemoryTypeOK
  <2>5. was' \in [Ids -> [kind : Kinds, entry : Stored]]
    BY <1>5, Blanks DEF Publish, MemoryTypeOK, NoChange, Kinds
  <2> QED BY <1>5, <2>1, <2>3, <2>4, <2>5 DEF Publish, Goes, MemoryTypeOK, Places
<1> QED BY <1>1, <1>2, <1>3, <1>4, <1>5 DEF Begin

LEMMA ContinueTypes ==
  ASSUME MemoryTypeOK, NEW c \in Callers, Continue(c)
  PROVE  MemoryTypeOK'
<1>0. call[c] \in Call /\ call[c].out \in [Ids -> Stored]
  BY CallFields DEF MemoryTypeOK
<1>1. CASE Decide(c)
  <2>1. PICK d \in [id : Ids, entry : Entry] : d = Head(call[c].todo)
    <3>1. Head(call[c].todo) \in Drafts
      BY <1>0, <1>1, CallFields DEF Decide
    <3> QED BY <3>1, EntryAssumption
  <2>2. d.id \in Ids /\ d.entry \in Entry /\ d.entry \in Stored /\ call[c].todo # << >>
    BY <1>1, PresentTexts DEF Decide
  <2>3. ASSUME Decided(c, d.id, d.entry, d, TRUE)
        PROVE  call' \in [Callers -> Call]
    <3>1. PICK q \in Call, i \in Ids, e \in Stored, says \in SUBSET Texts :
             q = call[c] /\ i = d.id /\ e = d.entry /\ says = TextsOf(d.entry)
      BY <1>0, <2>2, PresentTexts
    <3>2. PICK anew \in SUBSET Ids : anew = q.anew \cup {i}
      BY CallFields
    <3>3. Holds(c, i, AtDraft(q, i, e, says, anew))
      BY <2>3, <3>1, <3>2, DecidedCall
    <3> QED BY <2>2, <3>1, <3>3, Deciding, Holding DEF MemoryTypeOK
  <2>4. ASSUME NEW i \in Twins(d.entry), Decided(c, i, Merged(vec[i], d.entry), d, FALSE)
        PROVE  call' \in [Callers -> Call]
    <3>1. PICK base \in Entry : base = vec[i]
      BY Finding, Present DEF Twins
    <3>2. Merged(base, d.entry) \in Stored /\ i \in Ids
      BY <2>2, Merging, PresentTexts DEF Twins
    <3>3. PICK q \in Call, e \in Stored, says \in SUBSET Texts :
             q = call[c] /\ e = Merged(base, d.entry) /\ says = TextsOf(d.entry)
      BY <1>0, <2>2, <3>2, PresentTexts
    <3>4. PICK anew \in SUBSET Ids : anew = q.anew \ {i}
      BY CallFields
    <3>5. Holds(c, i, AtDraft(q, i, e, says, anew))
      BY <2>4, <3>1, <3>2, <3>3, <3>4, DecidedCall
    <3> QED BY <2>2, <3>2, <3>3, <3>5, Deciding, Holding DEF MemoryTypeOK
  <2>5. call' \in [Callers -> Call]
    BY <1>1, <2>1, <2>3, <2>4 DEF Decide
  <2>6. used' \in [calls : 0 .. MaxCalls, faults : 0 .. MaxFaults, restarts : 0 .. MaxRestarts]
    BY <1>1, Faulting DEF Decide, MemoryTypeOK
  <2> QED BY <1>1, <2>5, <2>6 DEF Decide, MemoryTypeOK, stores, history
<1>2. CASE AllDecided(c)
  BY <1>2 DEF AllDecided, Goes, MemoryTypeOK, Places, stores, history
<1>3. CASE Land(c)
  <2>1. vec' \in [Ids -> Stored]
    BY <1>0, <1>3 DEF Land, Over, MemoryTypeOK
  <2>2. \A i \in Ids : [kind |-> call[c].kind, entry |-> vec[i]] \in [kind : Kinds, entry : Stored]
    BY <1>0, CallFields, Finding
  <2>3. NoChange \in [kind : Kinds, entry : Stored]
    BY Blanks DEF NoChange, Kinds
  <2>4. was' \in [Ids -> [kind : Kinds, entry : Stored]]
    BY <1>3, <2>2, <2>3 DEF Land, MemoryTypeOK
  <2> QED BY <1>3, <2>1, <2>4 DEF Land, Goes, MemoryTypeOK, Places
<1>4. CASE Breaks(c)
  BY <1>4, Ending, Faulting DEF Breaks, MemoryTypeOK, stores
<1>5. CASE FinishWrite(c)
  <2>1. cache' \in [Ids -> Stored]
    BY <1>0, <1>5 DEF FinishWrite, Over, MemoryTypeOK
  <2> QED BY <1>5, <2>1, Settling, Ending DEF FinishWrite, MemoryTypeOK
<1>6. CASE FailWrite(c)
  BY <1>6, Settling, Ending, Faulting DEF FailWrite, MemoryTypeOK
<1>7. CASE FinishEdit(c)
  <2>1. /\ used' \in [calls : 0 .. MaxCalls, faults : 0 .. MaxFaults, restarts : 0 .. MaxRestarts]
        /\ broken' \in BOOLEAN
    BY <1>7, Faulting DEF FinishEdit, MemoryTypeOK
  <2>2. \E ok \in BOOLEAN : Settles(c, ok)
    BY <1>7 DEF FinishEdit
  <2>3. updates' \in [Ids -> Stored] /\ deletes' \in [Ids -> Stored]
    BY <1>0, <1>7, CallFields DEF FinishEdit, MemoryTypeOK
  <2> QED BY <1>7, <2>1, <2>2, <2>3, Settling, Ending DEF FinishEdit, MemoryTypeOK
<1>8. CASE Deleted(c)
  <2>1. deletes' \in [Ids -> Stored]
    BY <1>8, Blanks DEF Deleted, MemoryTypeOK
  <2> QED BY <1>8, <2>1, Ending DEF Deleted, MemoryTypeOK, history
<1>9. CASE Published(c)
  <2>1. PICK i \in call[c].ids : cache' = Mark(cache, i, call[c].kind = "show")
    BY <1>9 DEF Published
  <2>2. PICK b \in BOOLEAN : cache' = Mark(cache, i, b)
    BY <2>1
  <2>3. cache' \in [Ids -> Stored]
    <3>1. i \in Ids
      BY <1>0, CallFields
    <3> QED BY <2>2, <3>1, Marks DEF MemoryTypeOK
  <2> QED BY <1>9, <2>3, Ending DEF Published, MemoryTypeOK, history
<1> QED
  BY <1>1, <1>2, <1>3, <1>4, <1>5, <1>6, <1>7, <1>8, <1>9 DEF Continue

LEMMA TypeStep ==
  ASSUME MemoryTypeOK, [MemoryNext]_vars
  PROVE  MemoryTypeOK'
<1>1. ASSUME NEW i \in Ids, NEW j \in Ids, Link(i, j)
      PROVE  MemoryTypeOK'
  <2>1. node' \in [Ids -> Texts \cup {NoText, NoNode}]
    BY <1>1 DEF Link, MemoryTypeOK
  <2> QED BY <1>1, <2>1 DEF Link, MemoryTypeOK, history
<1>2. CASE BreakerCloses
  BY <1>2 DEF BreakerCloses, MemoryTypeOK, stores, history
<1>3. CASE Restart
  <2>1. used' \in [calls : 0 .. MaxCalls, faults : 0 .. MaxFaults, restarts : 0 .. MaxRestarts]
    BY <1>3, EntryAssumption DEF Restart, MemoryTypeOK
  <2>2. pc' \in [Callers -> Places] /\ call' \in [Callers -> Call]
    BY <1>3, NoCallType DEF Restart, Places
  <2>3. calm' \in [Ids -> BOOLEAN]
    BY <1>3 DEF Restart, MemoryTypeOK
  <2> QED BY <1>3, <2>1, <2>2, <2>3, Blanks DEF Restart, MemoryTypeOK
<1>4. CASE UNCHANGED vars
  BY <1>4 DEF vars, stores, history, MemoryTypeOK
<1> QED BY <1>1, <1>2, <1>3, <1>4, BeginTypes, ContinueTypes DEF MemoryNext

\* In every reachable state every variable is of its type.
THEOREM MemoryTypes == MemorySpec => []MemoryTypeOK
BY TypeInit, TypeStep, PTL DEF MemorySpec

-----------------------------------------------------------------------------
(* What a step leaves alone.                                               *)

LEMMA NotLanded ==
  ASSUME \A c \in Callers : CallOK(c), NEW i \in Ids,
         \A c \in Callers : i \notin call[c].ids
  PROVE  ~Landed(i)
BY DEF Landed, CallOK, Shaped

LEMMA EntryFrame ==
  ASSUME NEW j \in Ids, EntryOK(j),
         vec'[j] = vec[j], node'[j] = node[j], promised'[j] = promised[j], was'[j] = was[j],
         updates'[j] \in {updates[j], Absent}, deletes'[j] \in {deletes[j], Absent},
         calm'[j] => calm[j], calm'[j] /\ Landed(j) => Landed(j)'
  PROVE  EntryOK(j)'
<1>1. CASE calm'[j] /\ ~Landed(j)'
  <2>1. Follows(j) /\ Stores(j) /\ RowsFit(j)
    BY <1>1 DEF EntryOK
  <2>2. Follows(j)' /\ Stores(j)'
    BY <2>1 DEF Follows, Stores
  <2>3. RowsFit(j)'
    BY <2>1 DEF RowsFit
  <2> QED BY <2>2, <2>3 DEF EntryOK
<1>2. CASE ~(calm'[j] /\ ~Landed(j)')
  BY <1>2 DEF EntryOK
<1> QED BY <1>1, <1>2

LEMMA Undisturbed ==
  ASSUME NEW d \in Callers, CallOK(d), pc'[d] = pc[d],
         call'[d].kind = call[d].kind, call'[d].out = call[d].out,
         call'[d].prev = call[d].prev, call'[d].ids = call[d].ids,
         call'[d].says = call[d].says, call'[d].anew = call[d].anew,
         call'[d].clean => call[d].clean,
         pc[d] = "idle" => call'[d] = call[d],
         call'[d].clean => \A i \in Ids : Wants(d, i) =>
            /\ \A e \in Callers \ {d} : i \notin call'[e].ids
            /\ vec'[i] = vec[i] /\ was'[i] = was[i]
            /\ calm'[i] => calm[i]
            /\ promised'[i] = promised[i]
  PROVE  CallOK(d)'
<1>1. Shaped(d)'
  BY DEF CallOK, Shaped, Wants
<1>2. ASSUME call'[d].clean, NEW i \in Ids, Wants(d, i)'
      PROVE  Owned(d, i)'
  <2>1. Wants(d, i) /\ Owned(d, i)
    BY <1>2 DEF CallOK, Wants
  <2>2. /\ \A e \in Callers \ {d} : i \notin call'[e].ids
        /\ vec'[i] = vec[i] /\ was'[i] = was[i] /\ promised'[i] = promised[i]
        /\ calm'[i] => calm[i]
    BY <1>2, <2>1
  <2>3. Apart(d, i)' /\ Placed(d, i)'
    BY <2>1, <2>2 DEF Owned, Apart, Placed
  <2>4. ASSUME i \notin Slugs
        PROVE  Keeps(d, i)' /\ Based(d, i)' /\ Logs(d, i)' /\ Undoes(d, i)'
    <3>1. Keeps(d, i) /\ Based(d, i) /\ Logs(d, i) /\ Undoes(d, i)
      BY <2>1, <2>4 DEF Owned
    <3>2. Keeps(d, i)'
      BY <3>1, <2>2 DEF Keeps
    <3>3. Based(d, i)' /\ Logs(d, i)'
      BY <3>1, <2>2 DEF Based, Logs
    <3>4. Undoes(d, i)'
      BY <3>1, <2>2 DEF Undoes, Before
    <3> QED BY <3>2, <3>3, <3>4
  <2> QED BY <2>3, <2>4 DEF Owned
<1> QED BY <1>1, <1>2 DEF CallOK

\* When a call goes on to entry i, another one is either disturbed or not there.
LEMMA HoldFrame ==
  ASSUME MemoryTypeOK, NEW c \in Callers, NEW i \in Ids,
         call'[c].ids \subseteq call[c].ids \cup {i},
         \A e \in Callers : e # c => call'[e].ids = call[e].ids,
         NEW d \in Callers, d # c, CallOK(d), pc'[d] = pc[d], calm' = calm,
         call'[d].kind = call[d].kind, call'[d].out = call[d].out,
         call'[d].prev = call[d].prev, call'[d].says = call[d].says,
         call'[d].anew = call[d].anew,
         call'[d].clean => call[d].clean /\ d \notin Meets(c, i),
         d \notin Meets(c, i) => call'[d] = call[d],
         \A j \in Ids : j # i =>
           vec'[j] = vec[j] /\ was'[j] = was[j] /\ promised'[j] = promised[j]
  PROVE  CallOK(d)'
<1>1. pc[d] = "idle" => call'[d] = call[d]
  <2>1. SUFFICES ASSUME pc[d] = "idle" PROVE d \notin Meets(c, i)
    OBVIOUS
  <2> QED BY <2>1, NoCallType DEF Meets, CallOK, Shaped
<1>2. ASSUME call'[d].clean, NEW j \in Ids, Wants(d, j)
      PROVE  /\ \A e \in Callers \ {d} : j \notin call'[e].ids
             /\ vec'[j] = vec[j] /\ was'[j] = was[j] /\ promised'[j] = promised[j]
  <2>1. i \notin call[d].ids
    BY <1>2 DEF Meets
  <2>2. j \in call[d].ids /\ Apart(d, j)
    BY <1>2 DEF CallOK, Shaped, Owned
  <2>3. j # i
    BY <2>1, <2>2
  <2>4. ASSUME NEW e \in Callers \ {d}
        PROVE  j \notin call'[e].ids
    <3>1. CASE e = c
      BY <2>2, <2>3, <3>1 DEF Apart
    <3>2. CASE e # c
      BY <2>2, <3>2 DEF Apart
    <3> QED BY <3>1, <3>2
  <2> QED BY <2>3, <2>4
<1> QED BY <1>1, <1>2, Undisturbed

\* When a call ends, or goes on without a new entry, what it does not write is
\* left alone, and so are the others.
LEMMA EndFrame ==
  ASSUME MemoryTypeOK, \A e \in Callers : CallOK(e), NEW c \in Callers,
         call'[c].ids \subseteq call[c].ids,
         \A d \in Callers \ {c} : pc'[d] = pc[d] /\ call'[d] = call[d],
         \A i \in Ids : ~Wants(c, i) =>
           /\ vec'[i] = vec[i] /\ was'[i] = was[i] /\ promised'[i] = promised[i]
           /\ calm'[i] => calm[i],
         NEW d \in Callers \ {c}
  PROVE  CallOK(d)'
<1>1. ASSUME call'[d].clean, NEW i \in Ids, Wants(d, i)
      PROVE  /\ \A e \in Callers \ {d} : i \notin call'[e].ids
             /\ vec'[i] = vec[i] /\ was'[i] = was[i]
             /\ calm'[i] => calm[i]
             /\ promised'[i] = promised[i]
  <2>1. Apart(d, i)
    BY <1>1 DEF CallOK, Owned
  <2>2. ~Wants(c, i)
    BY <2>1 DEF Apart, CallOK, Shaped
  <2> QED BY <2>1, <2>2 DEF Apart
<1>2. CallOK(d)
  OBVIOUS
<1> QED BY <1>1, <1>2, Undisturbed

LEMMA SameLanded ==
  ASSUME NEW c \in Callers, pc[c] # "graph", pc'[c] # "graph",
         \A d \in Callers \ {c} : pc'[d] = pc[d] /\ call'[d].out = call[d].out,
         NEW j \in Ids
  PROVE  Landed(j)' <=> Landed(j)
BY DEF Landed, Wants

-----------------------------------------------------------------------------
(* The steps: a call begins.                                               *)

\* An id that nobody else is at, and the caller was not: nobody is between its
\* stores.
LEMMA Unheld ==
  ASSUME \A c \in Callers : CallOK(c), NEW c \in Callers, NEW i \in Ids,
         Meets(c, i) = {}, i \notin call[c].ids
  PROVE  ~Landed(i)
BY NotLanded DEF Meets

LEMMA WriteStep ==
  ASSUME EntriesInv, NEW c \in Callers, NEW batch, Write(c, batch)
  PROVE  Orderly'
<1>1. /\ pc[c] = "idle" /\ pc' = [pc EXCEPT ![c] = "decide"]
      /\ call' = [call EXCEPT ![c] = [NoCall EXCEPT !.kind = "write", !.todo = batch]]
      /\ UNCHANGED <<vec, node, cache, updates, deletes, calm, promised, was>>
  BY DEF Write, Begins, Goes, stores, history
<1>2. pc \in [Callers -> Places] /\ call \in [Callers -> Call]
  BY DEF EntriesInv, Orderly, EntriesOK, MemoryTypeOK
<1>3. /\ call'[c].kind = "write" /\ call'[c].out = Blank /\ call'[c].ids = {}
      /\ pc'[c] = "decide"
      /\ \A d \in Callers \ {c} : pc'[d] = pc[d] /\ call'[d] = call[d]
  BY <1>1, <1>2, NoCallType DEF Call
<1>4. CallOK(c)'
  BY <1>3, Blanks DEF CallOK, Shaped, Wants
<1>5. ASSUME NEW d \in Callers \ {c}
      PROVE  CallOK(d)'
  BY <1>1, <1>3, EndFrame DEF EntriesInv, Orderly, EntriesOK
<1>6. ASSUME NEW j \in Ids
      PROVE  EntryOK(j)'
  <2>1. Landed(j)' <=> Landed(j)
    BY <1>1, <1>3, SameLanded
  <2> QED BY <1>1, <2>1, EntryFrame DEF EntriesInv, Orderly, EntriesOK
<1> QED BY <1>4, <1>5, <1>6 DEF Orderly, EntriesOK

\* An update or a soft delete that has read its entry.
LEMMA FetchedStep ==
  ASSUME EntriesInv, NEW c \in Callers, NEW i \in Ids, NEW kind \in {"update", "soft"},
         NEW t \in Texts \cup {NoText}, kind = "soft" => t = NoText, NEW base \in Entry,
         call'[c].kind = kind, call'[c].out = Only(i, Patched(base, kind, t)),
         call'[c].prev = base, call'[c].ids = {i},
         t = NoText => call'[c].says[i] = {} /\ call'[c].anew = {},
         t # NoText => call'[c].says[i] = {t} /\ call'[c].anew = {i},
         call'[c].clean => Meets(c, i) = {} /\ (base = Found(i) \/ Found(i) = Absent),
         \A d \in Callers : d # c => call'[d].out = call[d].out /\ call'[d].ids = call[d].ids,
         pc[c] = "idle", pc' = [pc EXCEPT ![c] = "upsert"],
         UNCHANGED <<vec, node, updates, deletes, calm, promised, was>>
  PROVE  CallOK(c)'
<1> USE DEF EntriesInv, Orderly, EntriesOK
<1> DEFINE e == Patched(base, kind, t)
<1>1. call[c] = NoCall /\ MemoryTypeOK
  BY DEF CallOK, Shaped
<1>2. pc \in [Callers -> Places] /\ call \in [Callers -> Call]
  BY DEF MemoryTypeOK
<1>3. /\ e \in Entry
      /\ t # NoText => TextsOf(e) = {t}
      /\ t = NoText => TextsOf(e) = TextsOf(base)
  BY ONLY Patching, base \in Entry, kind \in {"update", "soft"}, t \in Texts \cup {NoText},
          kind = "soft" => t = NoText
<1>4. call'[c].out[i] = e /\ \A j \in Ids : j # i => call'[c].out[j] = Absent
  BY Blanks DEF Only
<1> HIDE DEF e
<1>6. pc'[c] = "upsert" /\ \A d \in Callers \ {c} : pc'[d] = pc[d]
  BY <1>2
<1>7. Shaped(c)'
  <2>1. call'[c].says[i] \subseteq TextsOf(e)
    BY <1>3
  <2> QED BY <2>1, <1>4, <1>6 DEF Shaped, Wants
<1>8. ASSUME call'[c].clean
      PROVE  Owned(c, i)'
  <2>1. Meets(c, i) = {} /\ (base = Found(i) \/ Found(i) = Absent)
    BY <1>8
  <2>2. ~Landed(i)
    BY <1>1, <2>1, Unheld, NoCallType
  <2>3. Apart(c, i)' /\ Placed(c, i)' /\ Logs(c, i)'
    BY <1>6, <2>1 DEF Apart, Placed, Logs, Meets
  <2>4. Undoes(c, i)'
    BY <1>6 DEF Undoes, Undo
  <2>5. ASSUME i \notin Slugs
        PROVE  Based(c, i)' /\ Keeps(c, i)'
    <3>1. vec[i] = Absent \/ vec[i] = base
      BY <2>1, <2>5 DEF Found
    <3>2. Based(c, i)'
      BY <3>1 DEF Based
    <3>3. ASSUME calm[i], i \notin call'[c].anew
          PROVE  promised[i] \subseteq TextsOf(e)
      <4>1. promised[i] \subseteq TextsOf(vec[i])
        BY <2>2, <2>5, <3>3 DEF EntryOK, Stores
      <4>2. TextsOf(e) = TextsOf(base)
        BY <1>3, <3>3
      <4> QED BY <3>1, <4>1, <4>2 DEF TextsOf
    <3>4. Keeps(c, i)'
      BY <1>4, <3>3 DEF Keeps
    <3> QED BY <3>2, <3>4
  <2> QED BY <2>3, <2>4, <2>5 DEF Owned
<1>9. ASSUME NEW j \in Ids, Wants(c, j)'
      PROVE  j = i
  BY <1>4, <1>9 DEF Wants
<1> QED BY <1>7, <1>8, <1>9 DEF CallOK

LEMMA FetchStep ==
  ASSUME EntriesInv, NEW c \in Callers, NEW i \in Ids, NEW kind \in {"update", "soft"},
         NEW t \in Texts \cup {NoText}, kind = "soft" => t = NoText, Fetch(c, i, kind, t)
  PROVE  Orderly'
<1> USE DEF EntriesInv, Orderly
<1>1. pc[c] = "idle" /\ UNCHANGED <<calm, promised, was>> /\ call[c] = NoCall
  BY DEF Fetch, Begins, history, CallOK, Shaped
<1>2. CASE Found(i) # Absent /\ Fetched(c, i, kind, t, Found(i), TRUE) /\ UNCHANGED stores
  <2>1. PICK base \in Entry : base = Found(i)
    BY <1>2, Finding, Present
  <2> DEFINE q == FetchCall(i, kind, t, base)
             r == [q EXCEPT !.clean = TRUE]
  <2>2. Holds(c, i, r) /\ pc' = [pc EXCEPT ![c] = "upsert"]
    BY <1>2, <2>1 DEF Fetched, Goes, Snapshot, FetchCall
  <2>3. /\ q \in Call /\ q.kind = kind /\ q.out = Only(i, Patched(base, kind, t))
        /\ q.prev = base /\ q.ids = {}
        /\ t = NoText => q.says[i] = {} /\ q.anew = {}
        /\ t # NoText => q.says[i] = {t} /\ q.anew = {i}
    BY Fetching
  <2> HIDE DEF q
  <2>4. /\ r \in Call /\ r.kind = q.kind /\ r.out = q.out /\ r.prev = q.prev /\ r.ids = q.ids
        /\ r.says = q.says /\ r.anew = q.anew /\ (r.clean <=> TRUE)
    BY <2>3 DEF Call
  <2> HIDE DEF r
  <2>5. UNCHANGED <<vec, node, updates, deletes, calm, promised, was>>
    BY <1>1, <1>2 DEF stores
  <2>6. /\ call'[c].kind = r.kind /\ call'[c].out = r.out /\ call'[c].prev = r.prev
        /\ call'[c].says = r.says /\ call'[c].anew = r.anew /\ call'[c].ids = r.ids \cup {i}
        /\ call'[c].clean <=> r.clean /\ Meets(c, i) = {}
    BY <2>2, <2>4, Holding DEF MemoryTypeOK
  <2>7. \A d \in Callers : d # c => call'[d].out = call[d].out /\ call'[d].ids = call[d].ids
    BY <2>2, <2>4, Holding DEF MemoryTypeOK
  <2>8. ASSUME NEW d \in Callers, d # c
        PROVE  CallOK(d)'
    <3>1. /\ call'[d].kind = call[d].kind /\ call'[d].prev = call[d].prev
          /\ call'[d].says = call[d].says /\ call'[d].anew = call[d].anew
          /\ call'[d].clean => call[d].clean /\ d \notin Meets(c, i)
          /\ d \notin Meets(c, i) => call'[d] = call[d]
      BY <2>2, <2>4, <2>8, Holding DEF MemoryTypeOK
    <3>2. pc'[d] = pc[d] /\ call'[c].ids \subseteq call[c].ids \cup {i}
      BY <2>2, <2>3, <2>4, <2>6, <2>8 DEF MemoryTypeOK
    <3> QED BY <2>5, <2>7, <2>8, <3>1, <3>2, HoldFrame
  <2>9. /\ call'[c].kind = kind /\ call'[c].out = Only(i, Patched(base, kind, t))
        /\ call'[c].prev = base /\ call'[c].ids = {i}
        /\ t = NoText => call'[c].says[i] = {} /\ call'[c].anew = {}
        /\ t # NoText => call'[c].says[i] = {t} /\ call'[c].anew = {i}
    BY <2>3, <2>4, <2>6
  <2>10. call'[c].clean => Meets(c, i) = {} /\ (base = Found(i) \/ Found(i) = Absent)
    BY <2>1, <2>4, <2>6
  <2>11. pc[c] = "idle" /\ pc' = [pc EXCEPT ![c] = "upsert"]
    BY <1>1, <2>2
  <2>12. CallOK(c)'
    <3> HIDE DEF EntriesInv, Orderly
    <3> QED BY <2>5, <2>7, <2>9, <2>10, <2>11, FetchedStep
  <2>13. ASSUME NEW j \in Ids
         PROVE  EntryOK(j)'
    <3>1. \A d \in Callers \ {c} : pc'[d] = pc[d]
      BY <2>11 DEF MemoryTypeOK
    <3>2. pc'[c] = "upsert"
      BY <2>11 DEF MemoryTypeOK
    <3>3. Landed(j)' <=> Landed(j)
      BY <2>7, <2>11, <3>1, <3>2, SameLanded
    <3> QED BY <2>5, <3>3, EntryFrame DEF EntriesOK
  <2> QED BY <2>8, <2>12, <2>13 DEF EntriesOK
<1>3. CASE /\ cache[i] # Absent
           /\ Fetched(c, i, kind, t, cache[i], Found(i) = Absent)
           /\ cache' = [cache EXCEPT ![i] = Patched(@, kind, t)]
           /\ UNCHANGED <<vec, node, updates, deletes>>
  <2>1. PICK base \in Entry : base = cache[i]
    BY <1>3, Finding, Present
  <2> DEFINE q == FetchCall(i, kind, t, base)
             r == [q EXCEPT !.clean = Found(i) = Absent]
  <2>2. Holds(c, i, r) /\ pc' = [pc EXCEPT ![c] = "upsert"]
    BY <1>3, <2>1 DEF Fetched, Goes, Snapshot, FetchCall
  <2>3. /\ q \in Call /\ q.kind = kind /\ q.out = Only(i, Patched(base, kind, t))
        /\ q.prev = base /\ q.ids = {}
        /\ t = NoText => q.says[i] = {} /\ q.anew = {}
        /\ t # NoText => q.says[i] = {t} /\ q.anew = {i}
    BY Fetching
  <2> HIDE DEF q
  <2>4. /\ r \in Call /\ r.kind = q.kind /\ r.out = q.out /\ r.prev = q.prev /\ r.ids = q.ids
        /\ r.says = q.says /\ r.anew = q.anew /\ (r.clean <=> Found(i) = Absent)
    BY <2>3 DEF Call
  <2> HIDE DEF r
  <2>5. UNCHANGED <<vec, node, updates, deletes, calm, promised, was>>
    BY <1>1, <1>3
  <2>6. /\ call'[c].kind = r.kind /\ call'[c].out = r.out /\ call'[c].prev = r.prev
        /\ call'[c].says = r.says /\ call'[c].anew = r.anew /\ call'[c].ids = r.ids \cup {i}
        /\ call'[c].clean <=> r.clean /\ Meets(c, i) = {}
    BY <2>2, <2>4, Holding DEF MemoryTypeOK
  <2>7. \A d \in Callers : d # c => call'[d].out = call[d].out /\ call'[d].ids = call[d].ids
    BY <2>2, <2>4, Holding DEF MemoryTypeOK
  <2>8. ASSUME NEW d \in Callers, d # c
        PROVE  CallOK(d)'
    <3>1. /\ call'[d].kind = call[d].kind /\ call'[d].prev = call[d].prev
          /\ call'[d].says = call[d].says /\ call'[d].anew = call[d].anew
          /\ call'[d].clean => call[d].clean /\ d \notin Meets(c, i)
          /\ d \notin Meets(c, i) => call'[d] = call[d]
      BY <2>2, <2>4, <2>8, Holding DEF MemoryTypeOK
    <3>2. pc'[d] = pc[d] /\ call'[c].ids \subseteq call[c].ids \cup {i}
      BY <2>2, <2>3, <2>4, <2>6, <2>8 DEF MemoryTypeOK
    <3> QED BY <2>5, <2>7, <2>8, <3>1, <3>2, HoldFrame
  <2>9. /\ call'[c].kind = kind /\ call'[c].out = Only(i, Patched(base, kind, t))
        /\ call'[c].prev = base /\ call'[c].ids = {i}
        /\ t = NoText => call'[c].says[i] = {} /\ call'[c].anew = {}
        /\ t # NoText => call'[c].says[i] = {t} /\ call'[c].anew = {i}
    BY <2>3, <2>4, <2>6
  <2>10. call'[c].clean => Meets(c, i) = {} /\ (base = Found(i) \/ Found(i) = Absent)
    BY <2>1, <2>4, <2>6
  <2>11. pc[c] = "idle" /\ pc' = [pc EXCEPT ![c] = "upsert"]
    BY <1>1, <2>2
  <2>12. CallOK(c)'
    <3> HIDE DEF EntriesInv, Orderly
    <3> QED BY <2>5, <2>7, <2>9, <2>10, <2>11, FetchedStep
  <2>13. ASSUME NEW j \in Ids
         PROVE  EntryOK(j)'
    <3>1. \A d \in Callers \ {c} : pc'[d] = pc[d]
      BY <2>11 DEF MemoryTypeOK
    <3>2. pc'[c] = "upsert"
      BY <2>11 DEF MemoryTypeOK
    <3>3. Landed(j)' <=> Landed(j)
      BY <2>7, <2>11, <3>1, <3>2, SameLanded
    <3> QED BY <2>5, <3>3, EntryFrame DEF EntriesOK
  <2> QED BY <2>8, <2>12, <2>13 DEF EntriesOK
<1>4. CASE cache[i] = Absent /\ Skipped(i, kind)
  <2>1. /\ UNCHANGED <<vec, node, pc, call>>
        /\ \A j \in Ids : /\ updates'[j] \in {updates[j], Absent}
                          /\ deletes'[j] \in {deletes[j], Absent}
    BY <1>4 DEF Skipped, MemoryTypeOK
  <2>2. ASSUME NEW d \in Callers
        PROVE  CallOK(d)'
    BY <1>1, <2>1 DEF CallOK, Shaped, Wants, Owned, Apart, Placed, Keeps, Based, Logs,
                      Undoes, Before
  <2>3. ASSUME NEW j \in Ids
        PROVE  EntryOK(j)'
    <3>1. Landed(j)' <=> Landed(j)
      BY <2>1 DEF Landed, Wants
    <3> QED BY <1>1, <2>1, <3>1, EntryFrame DEF EntriesOK
  <2> QED BY <2>2, <2>3 DEF EntriesOK
<1> QED BY <1>2, <1>3, <1>4 DEF Fetch

LEMMA RollbackStep ==
  ASSUME EntriesInv, NEW c \in Callers, NEW i \in Ids, NEW kind \in {"update", "soft"},
         Rollback(c, i, kind)
  PROVE  Orderly'
<1> USE DEF EntriesInv, Orderly
<1> DEFINE row == IF kind = "update" THEN updates[i] ELSE deletes[i]
           e == IF kind = "update" THEN row ELSE [row EXCEPT !.deleted = FALSE]
           r == Begun(Undo(kind), i, e)
<1>0. call \in [Callers -> Call]
  BY DEF MemoryTypeOK
<1>1. /\ pc[c] = "idle" /\ call[c] = NoCall /\ row # Absent /\ Holds(c, i, r)
      /\ pc' = [pc EXCEPT ![c] = "upsert"]
      /\ UNCHANGED <<vec, node, updates, deletes, calm, promised, was>>
  BY DEF Rollback, Begun, Begins, Goes, stores, history, CallOK, Shaped
<1>2. row \in Entry
  BY <1>1, Finding, Present
<1>3. e \in Entry /\ Undo(kind) \in Kinds
  BY <1>2, Marking DEF Undo, Kinds
<1>4. /\ r \in Call /\ r.kind = Undo(kind) /\ r.out = Only(i, e) /\ r.ids = {} /\ r.anew = {i}
      /\ \A j \in Ids : r.says[j] = {}
  <2> HIDE DEF e
  <2>1. e \in Stored
    BY <1>3, PresentTexts
  <2>2. /\ r \in Call /\ r.kind = Undo(kind) /\ r.out = Only(i, e) /\ r.ids = {}
        /\ r.anew = {i}
    BY <1>3, <2>1, BegunType
  <2>3. ASSUME NEW j \in Ids PROVE r.says[j] = {}
    BY <1>3, <2>1, BegunType
  <2> QED BY <2>2, <2>3
<1>6. calm[i] /\ i \notin Slugs /\ ~Landed(i) /\ was[i].kind = kind /\ was[i].entry # Absent
        => e = Before(i, kind)
  <2>1. SUFFICES ASSUME calm[i], i \notin Slugs, ~Landed(i), was[i].kind = kind,
                        was[i].entry # Absent
                 PROVE  e = Before(i, kind)
    OBVIOUS
  <2>2. RowsFit(i)
    BY <2>1 DEF EntriesOK, EntryOK
  <2>3. row = was[i].entry
    BY <1>1, <2>1, <2>2 DEF RowsFit
  <2> QED BY <2>3 DEF Before
<1>7. r.out[i] = e /\ \A j \in Ids : j # i => r.out[j] = Absent
  BY <1>4, Blanks DEF Only
<1> HIDE DEF row, e, r
<1>8. /\ call'[c].kind = r.kind /\ call'[c].out = r.out /\ call'[c].prev = r.prev
      /\ call'[c].says = r.says /\ call'[c].anew = r.anew /\ call'[c].ids = r.ids \cup {i}
      /\ call'[c].clean <=> r.clean /\ Meets(c, i) = {}
  BY <1>0, <1>1, <1>4, Holding
<1>9. \A d \in Callers : d # c => call'[d].out = call[d].out /\ call'[d].ids = call[d].ids
  BY <1>1, <1>4, Holding DEF MemoryTypeOK
<1>10. pc'[c] = "upsert" /\ \A d \in Callers : d # c => pc'[d] = pc[d]
  BY <1>1 DEF MemoryTypeOK
<1>11. ASSUME NEW d \in Callers, d # c
       PROVE  CallOK(d)'
  <2>1. /\ call'[d].kind = call[d].kind /\ call'[d].prev = call[d].prev
        /\ call'[d].says = call[d].says /\ call'[d].anew = call[d].anew
        /\ call'[d].clean => call[d].clean /\ d \notin Meets(c, i)
        /\ d \notin Meets(c, i) => call'[d] = call[d]
    BY <1>1, <1>4, <1>11, Holding DEF MemoryTypeOK
  <2>2. pc'[d] = pc[d] /\ call'[c].ids \subseteq call[c].ids \cup {i}
    BY <1>4, <1>8, <1>10, <1>11
  <2> QED BY <1>1, <1>9, <1>11, <2>1, <2>2, HoldFrame
<1>12. Shaped(c)'
  BY <1>4, <1>7, <1>8, <1>10 DEF Shaped, Wants
<1>13. ASSUME call'[c].clean
       PROVE  Owned(c, i)'
  <2>1. Meets(c, i) = {}
    BY <1>8, <1>13
  <2>2. ~Landed(i)
    BY <1>1, <2>1, Unheld, NoCallType
  <2>3. Apart(c, i)'
    BY <1>9, <2>1 DEF Apart, Meets
  <2>4. Placed(c, i)' /\ Logs(c, i)'
    BY <1>10 DEF Placed, Logs
  <2>5. Keeps(c, i)'
    BY <1>4, <1>8 DEF Keeps
  <2>6. Based(c, i)'
    BY <1>4, <1>8 DEF Based, Undo
  <2>7. ASSUME i \notin Slugs
        PROVE  Undoes(c, i)'
    <3>1. ASSUME NEW k \in {"update", "soft"}, Undo(kind) = Undo(k)
          PROVE  k = kind
      BY <3>1 DEF Undo
    <3>2. SUFFICES ASSUME calm[i], NEW k \in {"update", "soft"}, call'[c].kind = Undo(k),
                          was[i].kind = k, was[i].entry # Absent
                   PROVE  call'[c].out[i] = Before(i, k)
      BY <1>1 DEF Undoes, Before
    <3>3. k = kind
      BY <1>4, <1>8, <3>1, <3>2
    <3>4. e = Before(i, kind)
      BY <1>6, <2>2, <2>7, <3>2, <3>3
    <3> QED BY <1>7, <1>8, <3>3, <3>4
  <2> QED BY <2>3, <2>4, <2>5, <2>6, <2>7 DEF Owned
<1>14. CallOK(c)'
  <2>1. ASSUME NEW j \in Ids, Wants(c, j)'
        PROVE  j = i
    BY <1>7, <1>8, <2>1 DEF Wants
  <2> QED BY <1>12, <1>13, <2>1 DEF CallOK
<1>15. ASSUME NEW j \in Ids
       PROVE  EntryOK(j)'
  <2>1. Landed(j)' <=> Landed(j)
    BY <1>1, <1>9, <1>10, SameLanded
  <2> QED BY <1>1, <2>1, EntryFrame DEF EntriesOK
<1> QED BY <1>11, <1>14, <1>15 DEF EntriesOK

\* A call that writes nothing goes on to an entry: deletion and publication.
LEMMA BareStep ==
  ASSUME EntriesInv, NEW c \in Callers, NEW i \in Ids, NEW r \in Call, Holds(c, i, r),
         r.out = Blank, r.ids = {}, pc[c] = "idle", pc'[c] \in {"audit", "cached"},
         \A d \in Callers : d # c => pc'[d] = pc[d], calm' = calm,
         \A j \in Ids : j # i =>
           vec'[j] = vec[j] /\ was'[j] = was[j] /\ promised'[j] = promised[j]
  PROVE  (\A d \in Callers : CallOK(d)') /\ (\A j \in Ids : Landed(j)' <=> Landed(j))
<1> USE DEF EntriesInv, Orderly
<1>0. call \in [Callers -> Call]
  BY DEF MemoryTypeOK
<1>1. call'[c].out = r.out /\ call'[c].ids = r.ids \cup {i}
  BY <1>0, Holding
<1>2. \A d \in Callers : d # c => call'[d].out = call[d].out /\ call'[d].ids = call[d].ids
  BY Holding DEF MemoryTypeOK
<1>3. ASSUME NEW d \in Callers, d # c
      PROVE  CallOK(d)'
  <2>1. /\ call'[d].kind = call[d].kind /\ call'[d].prev = call[d].prev
        /\ call'[d].says = call[d].says /\ call'[d].anew = call[d].anew
        /\ call'[d].clean => call[d].clean /\ d \notin Meets(c, i)
        /\ d \notin Meets(c, i) => call'[d] = call[d]
    BY <1>3, Holding DEF MemoryTypeOK
  <2> QED BY <1>1, <1>2, <1>3, <2>1, HoldFrame
<1>4. CallOK(c)'
  BY <1>1, Blanks DEF CallOK, Shaped, Wants
<1>5. \A j \in Ids : Landed(j)' <=> Landed(j)
  BY <1>2, SameLanded
<1> QED BY <1>3, <1>4, <1>5

LEMMA DeleteStep ==
  ASSUME EntriesInv, NEW c \in Callers, NEW i \in Ids, Delete(c, i)
  PROVE  Orderly'
<1> DEFINE r == [NoCall EXCEPT !.kind = "hard"]
<1>1. /\ pc[c] = "idle" /\ pc' = [pc EXCEPT ![c] = "audit"] /\ Holds(c, i, r)
      /\ was' = [was EXCEPT ![i] = NoChange]
      /\ UNCHANGED <<node, updates, deletes, calm>>
      /\ \/ vec' = [vec EXCEPT ![i] = Absent] /\ promised' = [promised EXCEPT ![i] = {}]
         \/ UNCHANGED <<vec, promised>>
  BY DEF Delete, Begins, Goes
<1>2. r \in Call /\ r.out = Blank /\ r.ids = {}
  BY NoCallType DEF Call, Kinds
<1>3. MemoryTypeOK
  BY DEF EntriesInv
<1>4. /\ pc'[c] = "audit" /\ \A d \in Callers : d # c => pc'[d] = pc[d]
      /\ \A j \in Ids : j # i =>
           vec'[j] = vec[j] /\ was'[j] = was[j] /\ promised'[j] = promised[j]
      /\ was'[i].entry = Absent
  BY <1>1, <1>3 DEF MemoryTypeOK, NoChange
<1> HIDE DEF r
<1>5. (\A d \in Callers : CallOK(d)') /\ (\A j \in Ids : Landed(j)' <=> Landed(j))
  BY <1>1, <1>2, <1>4, BareStep
<1>6. ASSUME NEW j \in Ids
      PROVE  EntryOK(j)'
  <2>1. EntryOK(j)
    BY DEF EntriesInv, Orderly, EntriesOK
  <2>2. Landed(j)' <=> Landed(j)
    BY <1>5
  <2>3. CASE j # i
    BY <1>1, <1>4, <2>1, <2>2, <2>3, EntryFrame
  <2>4. CASE j = i
    <3>1. SUFFICES ASSUME calm[i], ~Landed(i)
                   PROVE  Follows(i)' /\ Stores(i)' /\ RowsFit(i)'
      BY <1>1, <2>2, <2>4 DEF EntryOK
    <3>2. Follows(i) /\ Stores(i)
      BY <2>1, <2>4, <3>1 DEF EntryOK
    <3>3. RowsFit(i)'
      BY <1>4 DEF RowsFit
    <3>4. CASE UNCHANGED <<vec, promised>>
      BY <1>1, <3>2, <3>3, <3>4 DEF Follows, Stores
    <3>5. CASE vec' = [vec EXCEPT ![i] = Absent] /\ promised' = [promised EXCEPT ![i] = {}]
      BY <1>3, <3>3, <3>5 DEF Follows, Stores, MemoryTypeOK
    <3> QED BY <1>1, <3>4, <3>5
  <2> QED BY <2>3, <2>4
<1> QED BY <1>5, <1>6 DEF Orderly, EntriesOK

LEMMA PublishStep ==
  ASSUME EntriesInv, NEW c \in Callers, NEW i \in Ids, NEW shown \in BOOLEAN,
         Publish(c, i, shown)
  PROVE  Orderly'
<1> DEFINE r == [NoCall EXCEPT !.kind = IF shown THEN "show" ELSE "hide"]
<1>1. /\ pc[c] = "idle" /\ pc' = [pc EXCEPT ![c] = "cached"] /\ Holds(c, i, r)
      /\ was' = [was EXCEPT ![i] = NoChange]
      /\ UNCHANGED <<node, updates, deletes, calm, promised>>
      /\ vec' = Mark(vec, i, shown) \/ UNCHANGED vec
  BY DEF Publish, Begins, Goes
<1>2. r \in Call /\ r.out = Blank /\ r.ids = {}
  BY NoCallType DEF Call, Kinds
<1>3. MemoryTypeOK
  BY DEF EntriesInv
<1>4. ASSUME NEW j \in Ids
      PROVE  /\ vec'[j] = Absent <=> vec[j] = Absent
             /\ vec'[j].head = vec[j].head
             /\ TextsOf(vec'[j]) = TextsOf(vec[j])
             /\ j # i => vec'[j] = vec[j]
  <2>1. vec \in [Ids -> Stored]
    BY <1>3 DEF MemoryTypeOK
  <2>2. CASE vec' = Mark(vec, i, shown)
    <3>1. /\ Mark(vec, i, shown)[j] = Absent <=> vec[j] = Absent
          /\ Mark(vec, i, shown)[j].head = vec[j].head
          /\ TextsOf(Mark(vec, i, shown)[j]) = TextsOf(vec[j])
          /\ j # i => Mark(vec, i, shown)[j] = vec[j]
      BY <2>1, Marks
    <3> QED BY <2>2, <3>1 DEF TextsOf
  <2> QED BY <1>1, <2>2 DEF TextsOf
<1>5. /\ pc'[c] = "cached" /\ \A d \in Callers : d # c => pc'[d] = pc[d]
      /\ \A j \in Ids : j # i => was'[j] = was[j]
      /\ was'[i].entry = Absent
  BY <1>1, <1>3 DEF MemoryTypeOK, NoChange
<1> HIDE DEF r
<1>6. \A j \in Ids : j # i => vec'[j] = vec[j] /\ was'[j] = was[j] /\ promised'[j] = promised[j]
  BY <1>1, <1>4, <1>5
<1>7. (\A d \in Callers : CallOK(d)') /\ (\A j \in Ids : Landed(j)' <=> Landed(j))
  BY <1>1, <1>2, <1>5, <1>6, BareStep
<1>8. ASSUME NEW j \in Ids
      PROVE  EntryOK(j)'
  <2>1. EntryOK(j)
    BY DEF EntriesInv, Orderly, EntriesOK
  <2>2. Landed(j)' <=> Landed(j)
    BY <1>7
  <2>3. CASE j # i
    BY <1>1, <1>6, <2>1, <2>2, <2>3, EntryFrame
  <2>4. CASE j = i
    <3>1. SUFFICES ASSUME calm[i], ~Landed(i)
                   PROVE  Follows(i)' /\ Stores(i)' /\ RowsFit(i)'
      BY <1>1, <2>2, <2>4 DEF EntryOK
    <3>2. Follows(i) /\ Stores(i)
      BY <2>1, <2>4, <3>1 DEF EntryOK
    <3>3. RowsFit(i)'
      BY <1>5 DEF RowsFit
    <3>4. Follows(i)'
      BY <1>1, <1>4, <3>2 DEF Follows
    <3>5. Stores(i)'
      BY <1>1, <1>4, <3>2 DEF Stores
    <3> QED BY <3>3, <3>4, <3>5
  <2> QED BY <2>3, <2>4
<1> QED BY <1>7, <1>8 DEF Orderly, EntriesOK

-----------------------------------------------------------------------------
(* The steps: a call goes on.                                              *)

\* A draft is decided: it gets an entry of its own, or is merged into a stored
\* one.
LEMMA DraftStep ==
  ASSUME EntriesInv, NEW c \in Callers, NEW i \in Ids, NEW r \in Call, Holds(c, i, r),
         pc[c] = "decide", r.kind = call[c].kind, r.ids = call[c].ids,
         \A j \in Ids : j # i =>
           /\ r.out[j] = call[c].out[j] /\ r.says[j] = call[c].says[j]
           /\ j \in r.anew <=> j \in call[c].anew,
         r.says[i] \subseteq TextsOf(r.out[i]),
         i \in r.anew \/ TextsOf(vec[i]) \subseteq TextsOf(r.out[i]),
         r.clean => call[c].clean /\ i \notin call[c].ids,
         UNCHANGED <<vec, node, updates, deletes, pc, calm, promised, was>>
  PROVE  Orderly'
<1> USE DEF EntriesInv, Orderly
<1>0. call \in [Callers -> Call]
  BY DEF MemoryTypeOK
<1>1. /\ call'[c].kind = r.kind /\ call'[c].out = r.out /\ call'[c].prev = r.prev
      /\ call'[c].says = r.says /\ call'[c].anew = r.anew /\ call'[c].ids = r.ids \cup {i}
      /\ call'[c].clean <=> r.clean /\ Meets(c, i) = {}
  BY <1>0, Holding
<1>2. \A d \in Callers : d # c => call'[d].out = call[d].out /\ call'[d].ids = call[d].ids
  BY <1>0, Holding
<1>3. ASSUME NEW d \in Callers, d # c
      PROVE  CallOK(d)'
  <2>1. /\ call'[d].kind = call[d].kind /\ call'[d].prev = call[d].prev
        /\ call'[d].says = call[d].says /\ call'[d].anew = call[d].anew
        /\ call'[d].clean => call[d].clean /\ d \notin Meets(c, i)
        /\ d \notin Meets(c, i) => call'[d] = call[d]
    BY <1>0, <1>3, Holding
  <2>2. pc'[d] = pc[d] /\ call'[c].ids \subseteq call[c].ids \cup {i}
    BY <1>1
  <2> QED BY <1>2, <1>3, <2>1, <2>2, HoldFrame
<1>4. Shaped(c) /\ call[c].kind = "write"
  BY DEF CallOK, Shaped
<1>5. Shaped(c)'
  <2>1. ASSUME NEW j \in Ids, Wants(c, j)'
        PROVE  j \in call'[c].ids /\ call'[c].says[j] \subseteq TextsOf(call'[c].out[j])
    <3>1. CASE j = i
      BY <1>1, <3>1
    <3>2. CASE j # i
      <4>1. r.out[j] = call[c].out[j] /\ r.says[j] = call[c].says[j]
        BY <3>2
      <4>2. Wants(c, j)
        BY <1>1, <2>1, <4>1 DEF Wants
      <4> QED BY <1>1, <1>4, <4>1, <4>2 DEF Shaped
    <3> QED BY <3>1, <3>2
  <2> QED BY <1>1, <1>4, <2>1 DEF Shaped, Wants
<1>6. ASSUME call'[c].clean, NEW j \in Ids, Wants(c, j)'
      PROVE  Owned(c, j)'
  <2>1. r.clean /\ Meets(c, i) = {} /\ call[c].clean /\ i \notin call[c].ids
    BY <1>1, <1>6
  <2>2. Placed(c, j)' /\ Based(c, j)' /\ Logs(c, j)' /\ Undoes(c, j)'
    BY <1>1, <1>4 DEF Placed, Based, Logs, Undoes
  <2>3. CASE j = i
    <3>1. Apart(c, j)'
      BY <1>2, <2>1, <2>3 DEF Apart, Meets
    <3>2. ~Landed(i)
      BY <2>1, Unheld
    <3>3. ASSUME i \notin Slugs, calm[i], i \notin r.anew
          PROVE  promised[i] \subseteq TextsOf(r.out[i])
      BY <3>2, <3>3 DEF EntriesOK, EntryOK, Stores
    <3>4. i \notin Slugs => Keeps(c, i)'
      BY <1>1, <3>3 DEF Keeps
    <3> QED BY <2>2, <2>3, <3>1, <3>4 DEF Owned
  <2>4. CASE j # i
    <3>1. r.out[j] = call[c].out[j] /\ (j \in r.anew <=> j \in call[c].anew)
      BY <2>4
    <3>2. Wants(c, j)
      BY <1>1, <1>6, <3>1 DEF Wants
    <3>3. Owned(c, j)
      BY <2>1, <3>2 DEF CallOK
    <3>4. Apart(c, j)'
      BY <1>2, <3>3 DEF Apart, Owned
    <3>5. j \notin Slugs => Keeps(c, j)'
      BY <1>1, <3>1, <3>3 DEF Keeps, Owned
    <3> QED BY <2>2, <3>4, <3>5 DEF Owned
  <2> QED BY <2>3, <2>4
<1>7. CallOK(c)'
  BY <1>5, <1>6 DEF CallOK
<1>8. ASSUME NEW j \in Ids
      PROVE  EntryOK(j)'
  <2>1. Landed(j)' <=> Landed(j)
    BY <1>2, SameLanded
  <2> QED BY <2>1, EntryFrame DEF EntriesOK
<1> QED BY <1>3, <1>7, <1>8 DEF EntriesOK

LEMMA DecideStep ==
  ASSUME EntriesInv, NEW c \in Callers, Decide(c)
  PROVE  Orderly'
<1>1. /\ pc[c] = "decide" /\ call[c].todo # << >>
      /\ UNCHANGED <<vec, node, updates, deletes, pc, calm, promised, was>>
  BY DEF Decide, stores, history
<1>2. MemoryTypeOK /\ call[c] \in Call
  BY DEF EntriesInv, MemoryTypeOK
<1>3. PICK d \in [id : Ids, entry : Entry] : d = Head(call[c].todo)
  <2>1. Head(call[c].todo) \in Drafts
    BY <1>1, <1>2, CallFields
  <2> QED BY <2>1, EntryAssumption
<1>4. d.id \in Ids /\ d.entry \in Entry
  OBVIOUS
<1>5. PICK q \in Call, says \in SUBSET Texts : q = call[c] /\ says = TextsOf(d.entry)
  BY <1>2, <1>4, PresentTexts
<1>6. CASE Decided(c, d.id, d.entry, d, TRUE)
  <2>1. PICK i \in Ids, e \in Stored, anew \in SUBSET Ids :
           i = d.id /\ e = d.entry /\ anew = q.anew \cup {i}
    <3>1. d.entry \in Stored /\ q.anew \cup {d.id} \in SUBSET Ids
      BY <1>4, PresentTexts, CallFields
    <3> QED BY <1>4, <3>1
  <2> DEFINE r == AtDraft(q, i, e, says, anew)
  <2>2. Holds(c, i, r)
    BY <1>5, <1>6, <2>1, DecidedCall
  <2>3. /\ r \in Call /\ r.kind = q.kind /\ r.ids = q.ids
        /\ r.out = [q.out EXCEPT ![i] = e] /\ r.says = [q.says EXCEPT ![i] = says]
        /\ r.anew = anew
        /\ r.clean => q.clean /\ i \notin q.ids
    BY <1>1, <1>5, Deciding
  <2> HIDE DEF r
  <2>4. \A j \in Ids : j # i =>
          /\ r.out[j] = call[c].out[j] /\ r.says[j] = call[c].says[j]
          /\ j \in r.anew <=> j \in call[c].anew
    BY <1>5, <2>1, <2>3, CallFields
  <2>5. r.says[i] \subseteq TextsOf(r.out[i]) /\ i \in r.anew
    BY <1>5, <2>1, <2>3, CallFields
  <2>6. r.kind = call[c].kind /\ r.ids = call[c].ids
    BY <1>5, <2>3
  <2>7. r.clean => call[c].clean /\ i \notin call[c].ids
    BY <1>5, <2>3
  <2> QED BY <1>1, <2>2, <2>3, <2>4, <2>5, <2>6, <2>7, DraftStep,
          ZenonT(40)
<1>7. ASSUME NEW i \in Twins(d.entry), Decided(c, i, Merged(vec[i], d.entry), d, FALSE)
      PROVE  Orderly'
  <2>1. i \in Ids /\ vec[i] # Absent /\ vec[i].head = d.entry.head
    BY DEF Twins
  <2>2. PICK base \in Entry : base = vec[i]
    BY <1>2, <2>1, Finding, Present
  <2>3. PICK e \in Entry : e = Merged(base, d.entry)
    BY <1>4, Merging
  <2>4. e \in Stored /\ TextsOf(base) \subseteq TextsOf(e) /\ TextsOf(d.entry) \subseteq TextsOf(e)
    BY <1>4, <2>1, <2>2, <2>3, Merging, PresentTexts
  <2>5. PICK anew \in SUBSET Ids : anew = q.anew \ {i}
    BY CallFields
  <2> DEFINE r == AtDraft(q, i, e, says, anew)
  <2>6. Holds(c, i, r)
    BY <1>5, <1>7, <2>1, <2>2, <2>3, <2>4, <2>5, DecidedCall
  <2>7. /\ r \in Call /\ r.kind = q.kind /\ r.ids = q.ids
        /\ r.out = [q.out EXCEPT ![i] = e] /\ r.says = [q.says EXCEPT ![i] = says]
        /\ r.anew = anew
        /\ r.clean => q.clean /\ i \notin q.ids
    BY <1>1, <1>5, <2>1, <2>4, Deciding
  <2> HIDE DEF r
  <2>8. \A j \in Ids : j # i =>
          /\ r.out[j] = call[c].out[j] /\ r.says[j] = call[c].says[j]
          /\ j \in r.anew <=> j \in call[c].anew
    BY <1>5, <2>1, <2>5, <2>7, CallFields
  <2>9. r.out[i] = e /\ r.says[i] = TextsOf(d.entry)
    BY <1>5, <2>1, <2>7, CallFields
  <2>10. TextsOf(vec[i]) \subseteq TextsOf(r.out[i]) /\ r.says[i] \subseteq TextsOf(r.out[i])
    BY <2>2, <2>4, <2>9
  <2>11. r.kind = call[c].kind /\ r.ids = call[c].ids
    BY <1>5, <2>7
  <2>12. r.clean => call[c].clean /\ i \notin call[c].ids
    BY <1>5, <2>7
  <2> QED BY <1>1, <2>1, <2>6, <2>7, <2>8, <2>10, <2>11, <2>12, DraftStep,
          ZenonT(40)
<1> QED BY <1>3, <1>6, <1>7 DEF Decide

LEMMA AllDecidedStep ==
  ASSUME EntriesInv, NEW c \in Callers, AllDecided(c)
  PROVE  Orderly'
<1> USE DEF EntriesInv, Orderly
<1>1. /\ pc[c] = "decide" /\ pc' = [pc EXCEPT ![c] = "upsert"]
      /\ UNCHANGED <<vec, node, updates, deletes, call, calm, promised, was>>
  BY DEF AllDecided, Goes, stores, history
<1>2. pc'[c] = "upsert" /\ \A d \in Callers \ {c} : pc'[d] = pc[d]
  BY <1>1 DEF MemoryTypeOK
<1>3. CallOK(c) /\ call[c].kind = "write"
  BY <1>1 DEF CallOK, Shaped
<1>4. Shaped(c)'
  BY <1>1, <1>2, <1>3 DEF CallOK, Shaped, Wants
<1>5. ASSUME call'[c].clean, NEW j \in Ids, Wants(c, j)'
      PROVE  Owned(c, j)'
  <2>1. Owned(c, j)
    BY <1>1, <1>3, <1>5 DEF CallOK, Wants
  <2>2. Placed(c, j)' /\ Based(c, j)' /\ Logs(c, j)' /\ Undoes(c, j)'
    BY <1>1, <1>2, <1>3 DEF Placed, Based, Logs, Undoes, Undo
  <2>3. Apart(c, j)' /\ (j \notin Slugs => Keeps(c, j)')
    BY <1>1, <2>1 DEF Owned, Apart, Keeps
  <2> QED BY <2>2, <2>3 DEF Owned
<1>6. CallOK(c)'
  BY <1>4, <1>5 DEF CallOK
<1>7. ASSUME NEW d \in Callers \ {c}
      PROVE  CallOK(d)'
  BY <1>1, <1>2, EndFrame
<1>8. ASSUME NEW j \in Ids
      PROVE  EntryOK(j)'
  <2>1. Landed(j)' <=> Landed(j)
    BY <1>1, <1>2, SameLanded
  <2> QED BY <1>1, <2>1, EntryFrame DEF EntriesOK
<1> QED BY <1>6, <1>7, <1>8 DEF EntriesOK

LEMMA LandStep ==
  ASSUME EntriesInv, NEW c \in Callers, Land(c)
  PROVE  Orderly'
<1> USE DEF EntriesInv, Orderly
<1>1. /\ pc[c] = "upsert" /\ pc' = [pc EXCEPT ![c] = "graph"]
      /\ vec' = Over(vec, call[c].out)
      /\ was' = [i \in Ids |->
           IF call[c].out[i] = Absent THEN was[i]
           ELSE IF call[c].kind \in {"update", "soft"} /\ call[c].clean
                THEN [kind |-> call[c].kind, entry |-> vec[i]] ELSE NoChange]
      /\ UNCHANGED <<node, updates, deletes, call, calm, promised>>
  BY DEF Land, Goes
<1>2. pc'[c] = "graph" /\ \A d \in Callers \ {c} : pc'[d] = pc[d]
  BY <1>1 DEF MemoryTypeOK
<1>3. \A i \in Ids : ~Wants(c, i) => vec'[i] = vec[i] /\ was'[i] = was[i]
  BY <1>1 DEF Over, Wants
<1>4. CallOK(c)
  OBVIOUS
<1>5. Shaped(c)'
  BY <1>1, <1>2, <1>4 DEF CallOK, Shaped, Wants
<1>6. ASSUME call'[c].clean, NEW j \in Ids, Wants(c, j)'
      PROVE  Owned(c, j)'
  <2>1. Wants(c, j) /\ Owned(c, j) /\ call[c].clean
    BY <1>1, <1>4, <1>6 DEF CallOK, Wants
  <2>2. Apart(c, j)' /\ Placed(c, j)'
    BY <1>1, <2>1 DEF Owned, Apart, Placed, Over, Wants
  <2>3. Based(c, j)' /\ Undoes(c, j)'
    BY <1>2 DEF Based, Undoes
  <2>4. ASSUME j \notin Slugs
        PROVE  Keeps(c, j)' /\ Logs(c, j)'
    <3>1. Keeps(c, j) /\ Based(c, j)
      BY <2>1, <2>4 DEF Owned
    <3>2. Keeps(c, j)'
      BY <1>1, <3>1 DEF Keeps
    <3>3. CASE call[c].kind \in {"update", "soft"}
      <4>1. was'[j] = [kind |-> call[c].kind, entry |-> vec[j]]
        BY <1>1, <2>1, <3>3 DEF Wants
      <4>2. vec[j] \in {Absent, call[c].prev}
        BY <1>1, <3>1, <3>3 DEF Based
      <4>3. Logs(c, j)'
        BY <1>1, <3>3, <4>1, <4>2 DEF Logs
      <4> QED BY <3>2, <4>3
    <3>4. CASE call[c].kind \notin {"update", "soft"}
      <4>1. was'[j].kind = "none"
        BY <1>1, <2>1, <3>4 DEF Wants, NoChange
      <4> QED BY <3>2, <4>1 DEF Logs
    <3> QED BY <3>3, <3>4
  <2> QED BY <2>2, <2>3, <2>4 DEF Owned
<1>7. CallOK(c)'
  BY <1>5, <1>6 DEF CallOK
<1>8. ASSUME NEW d \in Callers \ {c}
      PROVE  CallOK(d)'
  BY <1>1, <1>2, <1>3, EndFrame
<1>9. ASSUME NEW j \in Ids
      PROVE  EntryOK(j)'
  <2>1. CASE Wants(c, j)
    <3>1. Landed(j)'
      BY <1>1, <1>2, <2>1 DEF Landed, Wants
    <3> QED BY <3>1 DEF EntryOK
  <2>2. CASE ~Wants(c, j)
    <3>1. Landed(j) => Landed(j)'
      BY <1>1, <1>2 DEF Landed, Wants
    <3> QED BY <1>1, <1>3, <2>2, <3>1, EntryFrame DEF EntriesOK
  <2> QED BY <2>1, <2>2
<1> QED BY <1>7, <1>8, <1>9 DEF EntriesOK

-----------------------------------------------------------------------------
(* The steps: a call ends.                                                 *)

LEMMA AtRest ==
  ASSUME MemoryTypeOK, NEW c \in Callers, Ends(c)
  PROVE  /\ CallOK(c)' /\ pc'[c] = "idle" /\ call'[c].ids = {}
         /\ \A d \in Callers \ {c} : pc'[d] = pc[d] /\ call'[d] = call[d]
<1>1. /\ pc'[c] = "idle" /\ call'[c] = NoCall
      /\ \A d \in Callers \ {c} : pc'[d] = pc[d] /\ call'[d] = call[d]
  BY Ending DEF MemoryTypeOK
<1>2. CallOK(c)'
  BY <1>1, NoCallType, Blanks DEF CallOK, Shaped, Wants
<1> QED BY <1>1, <1>2, NoCallType

\* A call that ends without having written anything more.
LEMMA QuietStep ==
  ASSUME EntriesInv, NEW c \in Callers, Ends(c),
         UNCHANGED <<vec, node, promised, was>>,
         \A j \in Ids : /\ updates'[j] \in {updates[j], Absent}
                        /\ deletes'[j] \in {deletes[j], Absent}
                        /\ calm'[j] => calm[j] /\ ~Wants(c, j)
  PROVE  Orderly'
<1> USE DEF EntriesInv, Orderly
<1>1. /\ CallOK(c)' /\ pc'[c] = "idle" /\ call'[c].ids = {}
      /\ \A d \in Callers \ {c} : pc'[d] = pc[d] /\ call'[d] = call[d]
  BY AtRest
<1>2. ASSUME NEW d \in Callers \ {c}
      PROVE  CallOK(d)'
  BY <1>1, EndFrame
<1>3. ASSUME NEW j \in Ids
      PROVE  EntryOK(j)'
  <2>1. calm'[j] /\ Landed(j) => Landed(j)'
    BY <1>1 DEF Landed, Wants
  <2> QED BY <2>1, EntryFrame DEF EntriesOK
<1> QED BY <1>1, <1>2, <1>3 DEF EntriesOK

LEMMA BreaksStep ==
  ASSUME EntriesInv, NEW c \in Callers, Breaks(c)
  PROVE  Orderly'
BY QuietStep DEF Breaks, stores, EntriesInv, MemoryTypeOK, Wants

\* What the end of a call makes of the entries it writes, and of the others.
LEMMA Settled ==
  ASSUME NEW c \in Callers, \E ok \in BOOLEAN : Settles(c, ok)
  PROVE  /\ \A i \in Ids : ~Wants(c, i) =>
              node'[i] = node[i] /\ promised'[i] = promised[i] /\ (calm'[i] => calm[i])
         /\ \A i \in Ids : Wants(c, i) /\ calm'[i] =>
              /\ call[c].clean
              /\ node'[i] = call[c].out[i].head
              /\ i \in call[c].anew \/ ~calm[i] => promised'[i] = call[c].says[i]
              /\ ~(i \in call[c].anew \/ ~calm[i]) =>
                   promised'[i] = call[c].says[i] \cup promised[i]
<1>1. PICK ok \in BOOLEAN : Settles(c, ok)
  OBVIOUS
<1>2. ASSUME NEW i \in Ids, ~Wants(c, i)
      PROVE  node'[i] = node[i] /\ promised'[i] = promised[i] /\ (calm'[i] => calm[i])
  BY <1>1, <1>2 DEF Settles, Wants
<1>3. ASSUME NEW i \in Ids, Wants(c, i), calm'[i]
      PROVE  /\ call[c].clean
             /\ node'[i] = call[c].out[i].head
             /\ i \in call[c].anew \/ ~calm[i] => promised'[i] = call[c].says[i]
             /\ ~(i \in call[c].anew \/ ~calm[i]) =>
                  promised'[i] = call[c].says[i] \cup promised[i]
  BY <1>1, <1>3 DEF Settles, Wants
<1> QED BY <1>2, <1>3

LEMMA SettleStep ==
  ASSUME EntriesInv, NEW c \in Callers, pc[c] = "graph", \E ok \in BOOLEAN : Settles(c, ok),
         Ends(c), UNCHANGED <<vec, was>>,
         \A i \in Ids : ~Wants(c, i) => updates'[i] = updates[i] /\ deletes'[i] = deletes[i],
         \A i \in Ids : Wants(c, i) =>
           /\ call[c].kind = "update" => updates'[i] = call[c].prev
           /\ call[c].kind = "soft" => deletes'[i] = call[c].prev
  PROVE  Orderly'
<1> USE DEF EntriesInv, Orderly
<1>1. /\ CallOK(c)' /\ pc'[c] = "idle" /\ call'[c].ids = {}
      /\ \A d \in Callers \ {c} : pc'[d] = pc[d] /\ call'[d] = call[d]
  BY AtRest
<1>2. \A i \in Ids : ~Wants(c, i) =>
        node'[i] = node[i] /\ promised'[i] = promised[i] /\ (calm'[i] => calm[i])
  BY Settled
<1>3. ASSUME NEW d \in Callers \ {c}
      PROVE  CallOK(d)'
  BY <1>1, <1>2, EndFrame
<1>4. ASSUME NEW j \in Ids, ~Wants(c, j)
      PROVE  EntryOK(j)'
  <2>1. Landed(j) => Landed(j)'
    BY <1>1, <1>4 DEF Landed, Wants
  <2> QED BY <1>2, <1>4, <2>1, EntryFrame DEF EntriesOK
<1>5. ASSUME NEW j \in Ids, Wants(c, j), calm'[j]
      PROVE  Follows(j)' /\ Stores(j)' /\ RowsFit(j)'
  <2>1. /\ call[c].clean
        /\ node'[j] = call[c].out[j].head
        /\ j \in call[c].anew \/ ~calm[j] => promised'[j] = call[c].says[j]
        /\ ~(j \in call[c].anew \/ ~calm[j]) => promised'[j] = call[c].says[j] \cup promised[j]
    BY <1>5, Settled
  <2>2. Owned(c, j) /\ call[c].says[j] \subseteq TextsOf(call[c].out[j])
    BY <1>5, <2>1 DEF CallOK, Shaped
  <2>3. vec'[j] = call[c].out[j]
    BY <2>2 DEF Owned, Placed
  <2>4. Follows(j)'
    BY <2>1, <2>3 DEF Follows
  <2>5. ASSUME j \notin Slugs
        PROVE  promised'[j] \subseteq TextsOf(vec'[j])
    <3>1. Keeps(c, j)
      BY <2>2, <2>5 DEF Owned
    <3> QED BY <2>1, <2>2, <2>3, <3>1 DEF Keeps
  <2>6. Stores(j)'
    BY <2>5 DEF Stores, TextsOf
  <2>7. ASSUME j \notin Slugs, was'[j].entry # Absent
        PROVE  /\ was'[j].kind = "update" => updates'[j] \in {Absent, was'[j].entry}
               /\ was'[j].kind = "soft" => deletes'[j] \in {Absent, was'[j].entry}
    <3>1. Logs(c, j)
      BY <2>2, <2>7 DEF Owned
    <3> QED BY <1>5, <2>7, <3>1 DEF Logs
  <2>8. RowsFit(j)'
    BY <2>7 DEF RowsFit
  <2> QED BY <2>4, <2>6, <2>8
<1> QED BY <1>1, <1>3, <1>4, <1>5 DEF EntriesOK, EntryOK

LEMMA EndSteps ==
  ASSUME EntriesInv, NEW c \in Callers,
         FinishWrite(c) \/ FailWrite(c) \/ FinishEdit(c) \/ Deleted(c) \/ Published(c)
  PROVE  Orderly'
<1>1. CASE FinishWrite(c)
  BY <1>1, SettleStep DEF FinishWrite
<1>2. CASE FailWrite(c)
  BY <1>2, SettleStep DEF FailWrite
<1>3. CASE FinishEdit(c)
  <2>1. \E ok \in BOOLEAN : Settles(c, ok)
    BY <1>3 DEF FinishEdit
  <2>2. \A i \in Ids : ~Wants(c, i) => updates'[i] = updates[i] /\ deletes'[i] = deletes[i]
    BY <1>3 DEF FinishEdit, Wants
  <2>3. \A i \in Ids : Wants(c, i) =>
          /\ call[c].kind = "update" => updates'[i] = call[c].prev
          /\ call[c].kind = "soft" => deletes'[i] = call[c].prev
    BY <1>3 DEF FinishEdit, Wants
  <2>4. pc[c] = "graph" /\ Ends(c) /\ UNCHANGED <<vec, was>>
    BY <1>3 DEF FinishEdit
  <2> QED BY <2>1, <2>2, <2>3, <2>4, SettleStep
<1>4. CASE Deleted(c)
  <2>1. \A j \in Ids : ~Wants(c, j)
    BY <1>4 DEF Deleted, EntriesInv, Orderly, CallOK, Shaped
  <2>2. \A j \in Ids : /\ updates'[j] \in {updates[j], Absent}
                       /\ deletes'[j] \in {deletes[j], Absent}
                       /\ calm'[j] => calm[j] /\ ~Wants(c, j)
    BY <1>4, <2>1 DEF Deleted, history
  <2>3. Ends(c) /\ UNCHANGED <<vec, node, promised, was>>
    BY <1>4 DEF Deleted, history
  <2> QED BY <2>2, <2>3, QuietStep
<1>5. CASE Published(c)
  <2>1. \A j \in Ids : ~Wants(c, j)
    BY <1>5 DEF Published, EntriesInv, Orderly, CallOK, Shaped
  <2>2. \A j \in Ids : /\ updates'[j] \in {updates[j], Absent}
                       /\ deletes'[j] \in {deletes[j], Absent}
                       /\ calm'[j] => calm[j] /\ ~Wants(c, j)
    BY <1>5, <2>1 DEF Published, history
  <2>3. Ends(c) /\ UNCHANGED <<vec, node, promised, was>>
    BY <1>5 DEF Published, history
  <2> QED BY <2>2, <2>3, QuietStep
<1> QED BY <1>1, <1>2, <1>3, <1>4, <1>5

-----------------------------------------------------------------------------
(* The other steps.                                                        *)

\* A step that leaves the calls alone.
LEMMA CallsStay ==
  ASSUME EntriesInv, UNCHANGED <<vec, pc, call, calm, promised, was>>
  PROVE  (\A d \in Callers : CallOK(d)') /\ (\A j \in Ids : Landed(j)' <=> Landed(j))
<1>1. ASSUME NEW d \in Callers
      PROVE  CallOK(d)'
  BY DEF EntriesInv, Orderly, CallOK, Shaped, Wants, Owned, Apart, Placed, Keeps, Based, Logs,
         Undoes, Before
<1>2. \A j \in Ids : Landed(j)' <=> Landed(j)
  BY DEF Landed, Wants
<1> QED BY <1>1, <1>2

\* A link makes nodes where there are none: an entry that the graph follows has
\* one.
LEMMA LinkStep ==
  ASSUME EntriesInv, NEW i \in Ids, NEW j \in Ids, Link(i, j)
  PROVE  Orderly'
<1>1. /\ UNCHANGED <<vec, updates, deletes, pc, call, calm, promised, was>>
      /\ node' = [k \in Ids |-> IF k \in {i, j} /\ node[k] = NoNode THEN NoText ELSE node[k]]
  BY DEF Link, history
<1>2. (\A d \in Callers : CallOK(d)') /\ (\A k \in Ids : Landed(k)' <=> Landed(k))
  BY <1>1, CallsStay
<1>3. ASSUME NEW k \in Ids
      PROVE  EntryOK(k)'
  <2>1. SUFFICES ASSUME calm[k], ~Landed(k)
                 PROVE  Follows(k)' /\ Stores(k)' /\ RowsFit(k)'
    BY <1>1, <1>2 DEF EntryOK
  <2>2. Follows(k) /\ Stores(k) /\ RowsFit(k)
    BY <2>1 DEF EntriesInv, Orderly, EntriesOK, EntryOK
  <2>3. Stores(k)' /\ RowsFit(k)'
    BY <1>1, <2>2 DEF Stores, RowsFit, TextsOf
  <2>4. vec[k] # Absent => node'[k] = node[k]
    <3>1. ASSUME vec[k] # Absent PROVE node[k] \in Texts
      BY <2>2, <3>1, Present DEF Follows, EntriesInv, MemoryTypeOK
    <3> QED BY <1>1, <3>1, EntryAssumption
  <2>5. Follows(k)'
    BY <1>1, <2>2, <2>4 DEF Follows
  <2> QED BY <2>3, <2>5
<1> QED BY <1>2, <1>3 DEF Orderly, EntriesOK

LEMMA StayStep ==
  ASSUME EntriesInv,
         UNCHANGED <<vec, node, updates, deletes, pc, call, calm, promised, was>>
  PROVE  Orderly'
<1>1. (\A d \in Callers : CallOK(d)') /\ (\A j \in Ids : Landed(j)' <=> Landed(j))
  BY CallsStay
<1>2. ASSUME NEW j \in Ids
      PROVE  EntryOK(j)'
  BY <1>1, EntryFrame DEF EntriesInv, Orderly, EntriesOK
<1> QED BY <1>1, <1>2 DEF Orderly, EntriesOK

\* A restart forgets the calls; the entries they were writing are not in order.
LEMMA RestartStep ==
  ASSUME EntriesInv, Restart
  PROVE  Orderly'
<1>1. /\ UNCHANGED <<vec, node, promised, was>> /\ updates' = Blank /\ deletes' = Blank
      /\ pc' = [c \in Callers |-> "idle"] /\ call' = [c \in Callers |-> NoCall]
      /\ calm' = [i \in Ids |-> calm[i] /\ \A c \in Callers : call[c].out[i] = Absent]
  BY DEF Restart
<1>2. ASSUME NEW d \in Callers
      PROVE  CallOK(d)'
  BY <1>1, NoCallType, Blanks DEF CallOK, Shaped, Wants
<1>3. ASSUME NEW j \in Ids
      PROVE  EntryOK(j)'
  <2>1. calm'[j] => calm[j] /\ ~Landed(j)
    BY <1>1 DEF Landed, Wants
  <2>2. updates'[j] = Absent /\ deletes'[j] = Absent
    BY <1>1, Blanks
  <2> QED BY <1>1, <2>1, <2>2, EntryFrame DEF EntriesInv, Orderly, EntriesOK
<1> QED BY <1>2, <1>3 DEF Orderly, EntriesOK

-----------------------------------------------------------------------------
(* The theorems.                                                           *)

LEMMA EntriesInit == MemoryInit => EntriesInv
<1> SUFFICES ASSUME MemoryInit PROVE EntriesInv
  OBVIOUS
<1>1. ASSUME NEW d \in Callers
      PROVE  CallOK(d)
  BY NoCallType, Blanks DEF MemoryInit, CallOK, Shaped, Wants
<1>2. ASSUME NEW j \in Ids
      PROVE  EntryOK(j)
  BY Blanks DEF MemoryInit, EntryOK, Follows, Stores, RowsFit, NoChange
<1> QED BY <1>1, <1>2, TypeInit DEF EntriesInv, Orderly, EntriesOK

LEMMA EntriesStep ==
  ASSUME EntriesInv, [MemoryNext]_vars
  PROVE  EntriesInv'
<1>1. MemoryTypeOK'
  BY TypeStep DEF EntriesInv
<1>2. ASSUME NEW c \in Callers, Begin(c)
      PROVE  Orderly'
  <2>1. ASSUME NEW i \in Ids, NEW t \in Texts \cup {NoText}, Fetch(c, i, "update", t)
        PROVE  Orderly'
    BY <2>1, FetchStep
  <2>2. ASSUME NEW i \in Ids, Fetch(c, i, "soft", NoText)
        PROVE  Orderly'
    BY <2>2, FetchStep
  <2> QED BY <1>2, <2>1, <2>2, WriteStep, DeleteStep, RollbackStep, PublishStep DEF Begin
<1>3. ASSUME NEW c \in Callers, Continue(c)
      PROVE  Orderly'
  BY <1>3, DecideStep, AllDecidedStep, LandStep, BreaksStep, EndSteps DEF Continue
<1>4. ASSUME BreakerCloses \/ UNCHANGED vars
      PROVE  Orderly'
  <2>1. UNCHANGED <<vec, node, updates, deletes, pc, call, calm, promised, was>>
    BY <1>4 DEF BreakerCloses, vars, stores, history
  <2> QED BY <2>1, StayStep
<1> QED
  BY <1>1, <1>2, <1>3, <1>4, LinkStep, RestartStep DEF MemoryNext, EntriesInv

LEMMA EntriesInductive == MemorySpec => []EntriesInv
BY EntriesInit, EntriesStep, PTL DEF MemorySpec

\* An entry that no call is at, and whose last call met no failure and nobody
\* else, has the same text in both stores, and every text it was acknowledged
\* for.
THEOREM EntriesStayTogether == MemorySpec => []EntriesAreKept
<1>1. EntriesInv => EntriesAreKept
  <2> SUFFICES ASSUME EntriesInv, NEW i \in Ids, calm[i], Free(i)
               PROVE  Follows(i) /\ Stores(i)
    BY DEF EntriesAreKept, GraphFollows, NothingLost, Follows, Stores
  <2>1. ~Landed(i)
    BY NotLanded DEF EntriesInv, Orderly, Free
  <2> QED BY <2>1 DEF EntriesInv, Orderly, EntriesOK, EntryOK
<1> QED BY <1>1, EntriesInductive, PTL

\* From the one place to the other there is only the upsert.
LEMMA OnlyLand ==
  ASSUME MemoryTypeOK, NEW c \in Callers, MemoryNext, pc[c] = "upsert", pc'[c] = "graph"
  PROVE  Land(c)
<1>1. ASSUME NEW d \in Callers, NEW place \in Places \ {"graph"}, pc' = [pc EXCEPT ![d] = place]
      PROVE  FALSE
  BY <1>1 DEF MemoryTypeOK
<1>2. ASSUME pc' = pc
      PROVE  FALSE
  BY <1>2
<1>3. ASSUME NEW d \in Callers, Begin(d)
      PROVE  FALSE
  <2>1. ASSUME NEW batch, Write(d, batch)
        PROVE  FALSE
    BY <1>1, <2>1 DEF Write, Goes, Places
  <2>2. ASSUME NEW i \in Ids, NEW kind, NEW t, Fetch(d, i, kind, t)
        PROVE  FALSE
    BY <1>1, <1>2, <2>2 DEF Fetch, Fetched, Skipped, Goes, Places, stores
  <2>3. ASSUME NEW i \in Ids, Delete(d, i)
        PROVE  FALSE
    BY <1>1, <2>3 DEF Delete, Goes, Places
  <2>4. ASSUME NEW i \in Ids, NEW kind, Rollback(d, i, kind)
        PROVE  FALSE
    BY <1>1, <2>4 DEF Rollback, Goes, Places
  <2>5. ASSUME NEW i \in Ids, NEW shown, Publish(d, i, shown)
        PROVE  FALSE
    BY <1>1, <2>5 DEF Publish, Goes, Places
  <2> QED BY <1>3, <2>1, <2>2, <2>3, <2>4, <2>5 DEF Begin
<1>4. ASSUME NEW d \in Callers, Continue(d), ~Land(d)
      PROVE  FALSE
  <2>1. ASSUME Ends(d)
        PROVE  FALSE
    BY <1>1, <2>1 DEF Ends, Goes, Places
  <2>2. CASE Decide(d)
    BY <1>2, <2>2 DEF Decide
  <2>3. CASE AllDecided(d)
    BY <1>1, <2>3 DEF AllDecided, Goes, Places
  <2> QED BY <1>4, <2>1, <2>2, <2>3
       DEF Continue, Breaks, FinishWrite, FailWrite, FinishEdit, Deleted, Published
<1>5. ASSUME NEW d \in Callers, Land(d)
      PROVE  d = c
  <2>1. pc' = [pc EXCEPT ![d] = "graph"]
    BY <1>5 DEF Land, Goes
  <2> QED BY <2>1 DEF MemoryTypeOK
<1>6. ~(\E i, j \in Ids : Link(i, j)) /\ ~BreakerCloses /\ ~Restart
  BY DEF Link, BreakerCloses, Restart
<1> QED BY <1>3, <1>4, <1>5, <1>6 DEF MemoryNext

\* The upsert of a rollback that nobody met puts back what the update or the
\* soft delete had found.
THEOREM RollbacksRestore == MemorySpec => RollbackRestores
<1>1. ASSUME EntriesInv, NEW c \in Callers, NEW i \in Ids \ Slugs,
             NEW kind \in {"update", "soft"}, [MemoryNext]_vars,
             pc[c] = "upsert", pc'[c] = "graph", call[c].kind = Undo(kind), call[c].clean,
             calm[i], call[c].out[i] # Absent, was[i].kind = kind, was[i].entry # Absent
      PROVE  vec'[i] = Before(i, kind)
  <2>1. call[c].out[i] = Before(i, kind)
    BY <1>1 DEF EntriesInv, Orderly, CallOK, Wants, Owned, Undoes
  <2>2. MemoryTypeOK /\ MemoryNext
    BY <1>1 DEF EntriesInv, vars
  <2>3. vec' = Over(vec, call[c].out)
    BY <1>1, <2>2, OnlyLand DEF Land
  <2> QED BY <1>1, <2>1, <2>3 DEF Over
<1>2. EntriesInv /\ [MemoryNext]_vars =>
        [\A c \in Callers, i \in Ids \ Slugs, kind \in {"update", "soft"} :
           /\ pc[c] = "upsert" /\ pc'[c] = "graph"
           /\ call[c].kind = Undo(kind) /\ call[c].clean /\ calm[i]
           /\ call[c].out[i] # Absent
           /\ was[i].kind = kind /\ was[i].entry # Absent
           => vec'[i] = Before(i, kind)]_vars
  BY <1>1
<1> QED BY <1>2, EntriesInductive, PTL DEF MemorySpec, RollbackRestores

-----------------------------------------------------------------------------
(* The kinds of the nodes and of the edges.                                *)

LEMMA Disjoint ==
  /\ Events \cap Segments = {} /\ Events \cap Evidences = {} /\ Events \cap Utterances = {}
  /\ Events \cap Entities = {} /\ Events \cap Locations = {} /\ Events \cap Facts = {}
  /\ Events \cap Spans = {} /\ Segments \cap Evidences = {} /\ Segments \cap Utterances = {}
  /\ Segments \cap Entities = {} /\ Segments \cap Locations = {} /\ Segments \cap Facts = {}
  /\ Segments \cap Spans = {} /\ Evidences \cap Utterances = {} /\ Evidences \cap Entities = {}
  /\ Evidences \cap Locations = {} /\ Evidences \cap Facts = {} /\ Evidences \cap Spans = {}
  /\ Utterances \cap Entities = {} /\ Utterances \cap Locations = {}
  /\ Utterances \cap Facts = {} /\ Utterances \cap Spans = {} /\ Entities \cap Locations = {}
  /\ Entities \cap Facts = {} /\ Entities \cap Spans = {} /\ Locations \cap Facts = {}
  /\ Locations \cap Spans = {} /\ Facts \cap Spans = {} /\ Upserted \cap Slices = {}
<1> DEFINE kinds == <<Events, Segments, Evidences, Utterances, Entities, Locations, Facts,
                      Spans, Slices>>
<1>1. \A i, j \in 1 .. 9 : i # j => kinds[i] \cap kinds[j] = {}
  <2>1. DOMAIN kinds = 1 .. 9
    OBVIOUS
  <2> QED BY <2>1, UpkeepAssumption
<1>2. /\ kinds[1] = Events /\ kinds[2] = Segments /\ kinds[3] = Evidences
      /\ kinds[4] = Utterances /\ kinds[5] = Entities /\ kinds[6] = Locations
      /\ kinds[7] = Facts /\ kinds[8] = Spans /\ kinds[9] = Slices
  OBVIOUS
<1> HIDE DEF kinds
<1>3. \A i \in 1 .. 8 : kinds[i] \cap kinds[9] = {}
  BY <1>1
<1>4. Upserted \cap Slices = {}
  <2>1. /\ kinds[1] \cap kinds[9] = {} /\ kinds[2] \cap kinds[9] = {}
        /\ kinds[3] \cap kinds[9] = {} /\ kinds[4] \cap kinds[9] = {}
        /\ kinds[5] \cap kinds[9] = {} /\ kinds[6] \cap kinds[9] = {}
        /\ kinds[7] \cap kinds[9] = {} /\ kinds[8] \cap kinds[9] = {}
    BY <1>3
  <2> QED BY <1>2, <2>1, Zenon DEF Upserted
<1>5. /\ \A j \in 2 .. 8 : kinds[1] \cap kinds[j] = {}
      /\ \A j \in 3 .. 8 : kinds[2] \cap kinds[j] = {}
      /\ \A j \in 4 .. 8 : kinds[3] \cap kinds[j] = {}
      /\ \A j \in 5 .. 8 : kinds[4] \cap kinds[j] = {}
      /\ \A j \in 6 .. 8 : kinds[5] \cap kinds[j] = {}
      /\ \A j \in 7 .. 8 : kinds[6] \cap kinds[j] = {}
      /\ kinds[7] \cap kinds[8] = {}
  BY <1>1
<1> QED BY <1>2, <1>4, <1>5

LEMMA Numbering ==
  ASSUME NEW t \in Times, NEW mode \in Modes, NEW w \in Widths
  PROVE  /\ WidthOf(mode, w) \in Nat \ {0} /\ <<mode, t \div WidthOf(mode, w)>> \in Slices
         /\ t \in Nat /\ t \div WidthOf(mode, w) \in Nat
<1>1. WidthOf(mode, w) \in Nat \ {0}
  BY UpkeepAssumption DEF WidthOf, Modes
<1>2. <<mode, t \div WidthOf(mode, w)>> \in Slices
  BY DEF Slices, Numbers
<1> DEFINE d == WidthOf(mode, w)
<1>3. d \in Nat /\ d > 0 /\ t \in Nat
  BY <1>1, UpkeepAssumption
<1> HIDE DEF d
<1>4. t \div d \in Nat
  BY <1>3
<1> QED BY <1>1, <1>2, <1>3, <1>4 DEF d

\* The window of a number contains the times that have this number.
LEMMA WindowHolds ==
  ASSUME NEW t \in Nat, NEW d \in Nat \ {0}
  PROVE  (t \div d) * d <= t /\ t < ((t \div d) + 1) * d
OBVIOUS

LEMMA LabelsAre ==
  /\ DOMAIN Labels = {"SUMMARIZES", "INVOLVES", "OCCURS_AT", "NEXT_EVENT", "CAUSES",
                      "SPOKEN_BY", "BELONGS_TO_ENTITY", "SUPPORTED_BY", "COVERS_SEGMENT",
                      "COVERS_EVENT", "DERIVED_FROM", "STATED_BY"}
  /\ Labels["NEXT_EVENT"] = Events \X Events /\ Labels["CAUSES"] = Events \X Events
  /\ Labels["COVERS_SEGMENT"] = (Spans \cup Slices) \X Segments
BY DEF Labels

LEMMA EdgeIs ==
  ASSUME NEW type \in DOMAIN Labels, NEW a \in Nodes, NEW b \in Nodes
  PROVE  <<type, a, b>> \in Edge <=> <<a, b>> \in Labels[type]
<1> DEFINE labels == Labels
<1>1. Edge = {edge \in (DOMAIN labels) \X Nodes \X Nodes :
                <<edge[2], edge[3]>> \in labels[edge[1]]}
  BY DEF Edge
<1> HIDE DEF labels
<1>2. type \in DOMAIN labels
  BY DEF labels
<1>3. <<type, a, b>> \in Edge <=> <<a, b>> \in labels[type]
  BY <1>1, <1>2
<1> QED BY <1>3 DEF labels

LEMMA EdgeEnds ==
  ASSUME NEW edge \in Edge
  PROVE  edge[2] \in Nodes /\ edge[3] \in Nodes
BY DEF Edge

-----------------------------------------------------------------------------
(* Types.                                                                  *)

BodyOK ==
  /\ body \in [Nodes -> Node \cup {None}]
  /\ \A n \in Upserted : There(n) => body[n].at \in Times
BuildOK  == build \in [todo : Seq(SUBSET Edge), all : BOOLEAN]
ExportOK ==
  export \in [on : BOOLEAN, after : Nat, got : SUBSET Edge, since : SUBSET Edge, cut : SUBSET Nat]
UpkeepTypeOK ==
  /\ BodyOK /\ BuildOK /\ ExportOK
  /\ derived \subseteq Edge /\ ops \in Nat /\ moved \subseteq Upserted /\ linked \in BOOLEAN

LEMMA Inside == Upserted \subseteq Nodes /\ Slices \subseteq Nodes /\ Events \subseteq Upserted
                /\ Segments \subseteq Upserted
BY DEF Nodes, Upserted

LEMMA KnownNode ==
  ASSUME BodyOK, NEW n \in Nodes, There(n)
  PROVE  body[n] \in Node
BY DEF BodyOK, There

LEMMA AtIsNat ==
  ASSUME BodyOK, NEW n \in Nodes, There(n)
  PROVE  body[n].at \in Nat /\ body[n].to \in Nat /\ body[n].shown \in BOOLEAN
BY KnownNode DEF Node

LEMMA RowIs ==
  ASSUME NEW place, NEW sourced, NEW row \in Rows(place, sourced)
  PROVE  row[1] \in Events /\ Shown(row[1])
<1>1. PICK e \in {e \in Events : Shown(e)} :
        row \in {e} \X OrNone(To("SUMMARIZES", e)) \X OrNone(To("OCCURS_AT", e))
  BY Zenon DEF Rows
<1>2. row[1] = e
  BY <1>1
<1> QED BY <1>1, <1>2

LEMMA OrderedRow ==
  ASSUME NEW place, NEW sourced, NEW order \in InOrder(Rows(place, sourced)),
         NEW i \in DOMAIN order
  PROVE  /\ order[i] \in Rows(place, sourced) /\ order[i][1] \in Events /\ Shown(order[i][1])
         /\ i \in 1 .. Cardinality(Rows(place, sourced))
<1> DEFINE rows == Rows(place, sourced)
<1>1. order \in [1 .. Cardinality(rows) -> rows]
  BY DEF InOrder
<1>2. order[i] \in rows /\ i \in 1 .. Cardinality(rows)
  BY <1>1
<1> QED BY <1>2, RowIs

\* An edge of a build leads from the event of a dated row to that of the next.
LEMMA PairIs ==
  ASSUME NEW place, NEW sourced, NEW order \in InOrder(Rows(place, sourced)),
         NEW type, NEW edge \in Pairs(type, order)
  PROVE  \E i \in DOMAIN order :
           /\ i + 1 \in DOMAIN order /\ {i, i + 1} \subseteq Taken(order)
           /\ edge = <<type, order[i][1], order[i + 1][1]>>
           /\ order[i][1] \in Events /\ order[i + 1][1] \in Events
           /\ Shown(order[i][1]) /\ Shown(order[i + 1][1])
<1>1. PICK i \in Taken(order) :
        i + 1 \in Taken(order) /\ edge = <<type, order[i][1], order[i + 1][1]>>
  BY DEF Pairs
<1>2. i \in DOMAIN order /\ i + 1 \in DOMAIN order
  BY <1>1 DEF Taken
<1> QED BY <1>1, <1>2, OrderedRow

LEMMA PairsAreEdges ==
  ASSUME NEW place, NEW sourced, NEW order \in InOrder(Rows(place, sourced)),
         NEW type \in {"NEXT_EVENT", "CAUSES"}
  PROVE  Pairs(type, order) \subseteq Edge
<1> SUFFICES ASSUME NEW edge \in Pairs(type, order) PROVE edge \in Edge
  OBVIOUS
<1>1. PICK a \in Events, b \in Events : edge = <<type, a, b>>
  BY PairIs
<1>2. a \in Nodes /\ b \in Nodes /\ type \in DOMAIN Labels /\ <<a, b>> \in Labels[type]
  BY LabelsAre, Inside
<1> QED BY <1>1, <1>2, EdgeIs

\* What a build of relations leaves to be written.
Plan(nexts, more) ==
  IF nexts = {} THEN << >> ELSE IF more = {} THEN <<nexts>> ELSE <<nexts, more>>

LEMMA Planning ==
  ASSUME NEW nexts \in SUBSET Edge, NEW more \in SUBSET Edge
  PROVE  /\ Plan(nexts, more) \in Seq(SUBSET Edge)
         /\ Plan(nexts, more) # << >> =>
              Head(Plan(nexts, more)) = nexts /\ Len(Plan(nexts, more)) \in {1, 2}
         /\ Len(Plan(nexts, more)) = 2 => Plan(nexts, more)[2] = more
<1>1. CASE nexts = {}
  <2>1. Plan(nexts, more) = << >>
    BY <1>1 DEF Plan
  <2> QED BY <2>1
<1>2. CASE nexts # {} /\ more = {}
  <2>1. Plan(nexts, more) = <<nexts>>
    BY <1>2 DEF Plan
  <2> QED BY <2>1
<1>3. CASE nexts # {} /\ more # {}
  <2>1. Plan(nexts, more) = <<nexts, more>>
    BY <1>3 DEF Plan
  <2> QED BY <2>1
<1> QED BY <1>1, <1>2, <1>3

LEMMA RelationsPlanned ==
  ASSUME NEW place, NEW sourced, NEW causes \in BOOLEAN,
         BuildEventRelations(place, sourced, causes)
  PROVE  /\ Idle /\ ops' = ops + 1 /\ UNCHANGED <<body, derived, export, moved, linked>>
         /\ \E order \in InOrder(Rows(place, sourced)), more \in SUBSET Edge :
              /\ build'.todo = Plan(Pairs("NEXT_EVENT", order), more)
              /\ build'.all <=> place = None /\ ~sourced /\ Len(order) <= RowLimit
              /\ build' \in [todo : Seq(SUBSET Edge), all : BOOLEAN]
              /\ more \subseteq Pairs("CAUSES", order)
              /\ Pairs("NEXT_EVENT", order) \subseteq Edge
<1>1. PICK order \in InOrder(Rows(place, sourced)) :
        build' = [todo |-> Plan(Pairs("NEXT_EVENT", order),
                                IF causes THEN Pairs("CAUSES", order) ELSE {}),
                  all |-> place = None /\ ~sourced /\ Len(order) <= RowLimit]
  BY Zenon DEF BuildEventRelations, Plan
<1>2. PICK more \in SUBSET Edge :
        /\ more = (IF causes THEN Pairs("CAUSES", order) ELSE {})
        /\ more \subseteq Pairs("CAUSES", order)
  <2>1. Pairs("CAUSES", order) \subseteq Edge
    BY PairsAreEdges
  <2>2. CASE causes
    BY <2>1, <2>2
  <2>3. CASE ~causes
    <3>1. /\ {} = (IF causes THEN Pairs("CAUSES", order) ELSE {})
          /\ {} \in SUBSET Edge /\ {} \subseteq Pairs("CAUSES", order)
      BY <2>3
    <3> QED BY <3>1
  <2> QED BY <2>2, <2>3
<1>3. Pairs("NEXT_EVENT", order) \subseteq Edge
  BY PairsAreEdges
<1>4. PICK all \in BOOLEAN : all <=> place = None /\ ~sourced /\ Len(order) <= RowLimit
  OBVIOUS
<1> DEFINE plan == Plan(Pairs("NEXT_EVENT", order), more)
<1>5. build'.todo = plan
  BY <1>1, <1>2, Zenon
<1>6. build'.all <=> place = None /\ ~sourced /\ Len(order) <= RowLimit
  BY <1>1, Zenon
<1>7. plan \in Seq(SUBSET Edge)
  BY <1>3, Planning
<1> HIDE DEF plan
<1>8. build' \in [todo : Seq(SUBSET Edge), all : BOOLEAN]
  <2>1. build' = [todo |-> plan, all |-> place = None /\ ~sourced /\ Len(order) <= RowLimit]
    BY <1>1, <1>2, Zenon DEF plan
  <2> QED BY <1>7, <2>1
<1> QED BY <1>2, <1>3, <1>5, <1>6, <1>8, Zenon DEF BuildEventRelations, plan

LEMMA SlicesPlanned ==
  ASSUME BodyOK, NEW modes \in SUBSET Modes, NEW w \in Widths, BuildTimeSlices(modes, w)
  PROVE  \E covers \in SUBSET Edge :
           /\ covers # {} /\ build' = [todo |-> <<covers>>, all |-> FALSE]
           /\ \A edge \in covers : \E s \in Segments, mode \in modes :
                edge = <<"COVERS_SEGMENT", SliceOf(s, mode, w), s>> /\ There(s)
           /\ body' = [n \in Nodes |-> IF n \in {edge[2] : edge \in covers}
                                       THEN Window(n, w) ELSE body[n]]
           /\ \A edge \in covers : edge[2] \in Slices
<1> DEFINE covers == {<<"COVERS_SEGMENT", SliceOf(s, mode, w), s>> :
                        s \in {s \in Segments : There(s)}, mode \in modes}
<1>1. ASSUME NEW edge \in covers
      PROVE  /\ edge \in Edge /\ edge[2] \in Slices
             /\ \E s \in Segments, mode \in modes :
                  edge = <<"COVERS_SEGMENT", SliceOf(s, mode, w), s>> /\ There(s)
  <2>1. PICK s \in Segments, mode \in modes :
          There(s) /\ edge = <<"COVERS_SEGMENT", SliceOf(s, mode, w), s>>
    OBVIOUS
  <2>2. body[s].at \in Times
    BY <2>1, Inside DEF BodyOK
  <2>3. SliceOf(s, mode, w) \in Slices
    BY <2>2, Numbering DEF SliceOf
  <2>4. PICK i \in Slices : i = SliceOf(s, mode, w)
    BY <2>3
  <2>5. <<"COVERS_SEGMENT", i, s>> \in Edge
    <3>1. i \in Nodes /\ s \in Nodes /\ <<i, s>> \in Labels["COVERS_SEGMENT"]
      BY Inside, LabelsAre
    <3> QED BY <3>1, LabelsAre, EdgeIs
  <2> QED BY <2>1, <2>4, <2>5
<1>2. covers \in SUBSET Edge
  BY <1>1
<1>3. /\ covers # {} /\ build' = [todo |-> <<covers>>, all |-> FALSE]
      /\ body' = [n \in Nodes |-> IF n \in {edge[2] : edge \in covers}
                                  THEN Window(n, w) ELSE body[n]]
  BY DEF BuildTimeSlices
<1> HIDE DEF covers
<1> QED BY <1>1, <1>2, <1>3

\* A node that was written stays.
Stays == \A n \in Nodes : There(n) => There(n)'

LEMMA UpsertBody ==
  ASSUME BodyOK, NEW n \in Nodes, NEW t \in Times, NEW shown \in BOOLEAN, NEW own \in BOOLEAN,
         Upsert(n, t, shown, own)
  PROVE  /\ BodyOK' /\ Stays /\ n \in Upserted /\ There(n)' /\ body'[n].at = t
         /\ \A m \in Nodes : m # n => body'[m] = body[m]
<1>1. Stamped(own) \in {"forever", "live"}
  BY DEF Stamped
<1>2. PICK x \in Node :
        x.at = t /\ body' = [body EXCEPT ![n] = x]
  <2>1. t \in Nat
    BY UpkeepAssumption
  <2> DEFINE x == [at |-> t, to |-> t, shown |-> shown, life |-> Stamped(own)]
  <2>2. x \in Node /\ x.at = t
    BY <1>1, <2>1 DEF Node
  <2>3. body' = [body EXCEPT ![n] = x]
    BY DEF Upsert
  <2> HIDE DEF x
  <2> QED BY <2>2, <2>3
<1>3. n \in Upserted
  BY DEF Upsert
<1>4. x # None
  BY UpkeepAssumption
<1>5. body' \in [Nodes -> Node \cup {None}] /\ body'[n] = x
      /\ \A m \in Nodes : m # n => body'[m] = body[m]
  BY <1>2 DEF BodyOK
<1>6. \A m \in Upserted : body'[m] # None => body'[m].at \in Times
  BY <1>2, <1>5, Inside DEF BodyOK, There
<1> QED BY <1>2, <1>3, <1>4, <1>5, <1>6 DEF BodyOK, Stays, There

LEMMA PublishBody ==
  ASSUME BodyOK, NEW ns, NEW shown \in BOOLEAN, SetPublished(ns, shown)
  PROVE  /\ BodyOK' /\ Stays
         /\ \A m \in Nodes : /\ There(m)' <=> There(m)
                             /\ m \notin ns => body'[m] = body[m]
                             /\ There(m) => body'[m].at = body[m].at /\ body'[m].to = body[m].to
<1>1. body' = [m \in Nodes |-> IF m \in ns /\ There(m)
                               THEN [body[m] EXCEPT !.shown = shown] ELSE body[m]]
  BY DEF SetPublished
<1>2. ASSUME NEW m \in Nodes
      PROVE  /\ body'[m] \in Node \cup {None}
             /\ body'[m] # None <=> There(m)
             /\ m \notin ns => body'[m] = body[m]
             /\ There(m) => body'[m].at = body[m].at /\ body'[m].to = body[m].to
  <2>1. CASE m \in ns /\ There(m)
    <3>1. PICK x \in Node : x = body[m]
      BY <2>1, KnownNode
    <3>2. body'[m] = [x EXCEPT !.shown = shown]
      BY <1>1, <2>1, <3>1
    <3>3. [x EXCEPT !.shown = shown] \in Node /\ [x EXCEPT !.shown = shown].at = x.at
          /\ [x EXCEPT !.shown = shown].to = x.to
      BY DEF Node
    <3> QED BY <2>1, <3>1, <3>2, <3>3, UpkeepAssumption
  <2>2. CASE ~(m \in ns /\ There(m))
    <3>1. body'[m] = body[m]
      BY <1>1, <2>2
    <3> QED BY <2>2, <3>1 DEF BodyOK, There
  <2> QED BY <2>1, <2>2
<1>3. body' \in [Nodes -> Node \cup {None}]
  BY <1>1, <1>2
<1>4. \A m \in Upserted : body'[m] # None => body'[m].at \in Times
  BY <1>2, Inside DEF BodyOK
<1> QED BY <1>2, <1>3, <1>4 DEF BodyOK, Stays, There

LEMMA AgeBody ==
  ASSUME BodyOK, NEW n \in Nodes, TimePasses(n)
  PROVE  /\ BodyOK' /\ Stays
         /\ \A m \in Nodes : /\ There(m)' <=> There(m)
                             /\ There(m) => /\ body'[m].at = body[m].at
                                            /\ body'[m].to = body[m].to
                                            /\ body'[m].shown = body[m].shown
<1>1. There(n) /\ body' = [body EXCEPT ![n].life = "expired"]
  BY DEF TimePasses
<1>2. PICK x \in Node : x = body[n]
  BY <1>1, KnownNode
<1> DEFINE y == [x EXCEPT !.life = "expired"]
<1>3. y \in Node /\ y.at = x.at /\ y.to = x.to /\ y.shown = x.shown
  BY DEF Node
<1>4. body' = [body EXCEPT ![n] = y]
  BY <1>1, <1>2 DEF BodyOK
<1> HIDE DEF y
<1>5. y # None
  BY <1>3, UpkeepAssumption
<1>6. /\ body' \in [Nodes -> Node \cup {None}] /\ body'[n] = y
      /\ \A m \in Nodes : m # n => body'[m] = body[m]
  BY <1>3, <1>4 DEF BodyOK
<1>7. \A m \in Nodes : /\ body'[m] # None <=> body[m] # None
                       /\ There(m) => /\ body'[m].at = body[m].at
                                      /\ body'[m].to = body[m].to
                                      /\ body'[m].shown = body[m].shown
  BY <1>1, <1>2, <1>3, <1>5, <1>6 DEF There
<1>8. \A m \in Upserted : body'[m] # None => body'[m].at \in Times
  BY <1>7, Inside DEF BodyOK, There
<1> QED BY <1>6, <1>7, <1>8 DEF BodyOK, Stays, There

LEMMA WindowIsNode ==
  ASSUME NEW w \in Widths, NEW n \in Slices
  PROVE  Window(n, w) \in Node /\ Window(n, w) # None
<1>1. PICK mode \in Modes, number \in Numbers : n = <<mode, number>>
  BY DEF Slices
<1>2. WidthOf(mode, w) \in Nat
  <2>1. CASE mode = "media"
    BY <2>1, UpkeepAssumption DEF WidthOf
  <2>2. CASE mode # "media"
    BY <2>2, UpkeepAssumption DEF WidthOf, Modes
  <2> QED BY <2>1, <2>2
<1>3. number \in Nat
  <2>1. PICK t \in Times, m \in Modes, v \in Widths : number = t \div WidthOf(m, v)
    BY DEF Numbers
  <2> QED BY <2>1, Numbering
<1>4. number * WidthOf(mode, w) \in Nat /\ (number + 1) * WidthOf(mode, w) \in Nat
  BY <1>2, <1>3
<1>5. Window(n, w) \in Node
  BY <1>1, <1>4 DEF Window, Node
<1> QED BY <1>5, UpkeepAssumption

LEMMA SliceBody ==
  ASSUME BodyOK, NEW modes \in SUBSET Modes, NEW w \in Widths, BuildTimeSlices(modes, w)
  PROVE  /\ BodyOK' /\ Stays
         /\ \A m \in Nodes : m \notin Slices => body'[m] = body[m]
<1>1. PICK covers \in SUBSET Edge :
        /\ body' = [n \in Nodes |-> IF n \in {edge[2] : edge \in covers}
                                    THEN Window(n, w) ELSE body[n]]
        /\ \A edge \in covers : edge[2] \in Slices
  BY SlicesPlanned
<1>2. \A n \in Slices : Window(n, w) \in Node
  BY WindowIsNode
<1>3. \A n \in Nodes : /\ body'[n] \in Node \cup {None}
                       /\ n \notin Slices => body'[n] = body[n]
                       /\ body[n] # None => body'[n] # None
  <2> TAKE n \in Nodes
  <2>1. CASE n \in {edge[2] : edge \in covers}
    <3>1. n \in Slices /\ body'[n] = Window(n, w)
      BY <1>1, <2>1
    <3> QED BY <1>2, <3>1, UpkeepAssumption
  <2>2. CASE n \notin {edge[2] : edge \in covers}
    BY <1>1, <2>2 DEF BodyOK
  <2> QED BY <2>1, <2>2
<1>4. body' \in [Nodes -> Node \cup {None}]
  BY <1>1, <1>3
<1>5. \A n \in Upserted : body'[n] = body[n]
  BY <1>3, Disjoint, Inside
<1> QED BY <1>3, <1>4, <1>5 DEF BodyOK, Stays, There

\* The steps one by one.
LEMMA Steps ==
  ASSUME [UpkeepNext]_upkeepVars
  PROVE  \/ \E n \in Nodes, t \in Times, shown, own \in BOOLEAN : Upsert(n, t, shown, own)
         \/ \E n \in Nodes, shown \in BOOLEAN : SetPublished({n}, shown)
         \/ \E n \in Nodes : TimePasses(n)
         \/ \E place \in Locations \cup {None}, sourced, causes \in BOOLEAN :
              BuildEventRelations(place, sourced, causes)
         \/ \E modes \in SUBSET Modes, w \in Widths : BuildTimeSlices(modes, w)
         \/ WriteEdges \/ BuildFails \/ BeginExport \/ ExportPage
         \/ UNCHANGED upkeepVars
BY DEF UpkeepNext, Writes, Aging, Relations, Slicing, Building, Exporting, CleanupExpired

\* What each part of the state is changed by.
LEMMA Changers ==
  ASSUME [UpkeepNext]_upkeepVars
  PROVE  /\ WriteEdges \/ UNCHANGED derived
         /\ BeginExport \/ ExportPage \/ UNCHANGED export
         /\ \/ \E n \in Nodes, t \in Times, shown, own \in BOOLEAN : Upsert(n, t, shown, own)
            \/ UNCHANGED moved
         /\ WriteEdges \/ (\E ns : EventsWritten(ns)) \/ UNCHANGED linked
         /\ ops' = ops + 1 \/ UNCHANGED ops
<1>1. CASE \E n \in Nodes, t \in Times, shown, own \in BOOLEAN : Upsert(n, t, shown, own)
  BY <1>1 DEF Upsert
<1>2. CASE \E n \in Nodes, shown \in BOOLEAN : SetPublished({n}, shown)
  BY <1>2 DEF SetPublished
<1>3. CASE \E n \in Nodes : TimePasses(n)
  BY <1>3 DEF TimePasses
<1>4. CASE \E place \in Locations \cup {None}, sourced, causes \in BOOLEAN :
             BuildEventRelations(place, sourced, causes)
  BY <1>4, RelationsPlanned
<1>5. CASE \E modes \in SUBSET Modes, w \in Widths : BuildTimeSlices(modes, w)
  BY <1>5 DEF BuildTimeSlices
<1>6. CASE WriteEdges \/ BuildFails
  BY <1>6 DEF WriteEdges, BuildFails
<1>7. CASE BeginExport \/ ExportPage \/ UNCHANGED upkeepVars
  BY <1>7 DEF BeginExport, ExportPage, upkeepVars
<1> QED BY <1>1, <1>2, <1>3, <1>4, <1>5, <1>6, <1>7, Steps

LEMMA BodySteps ==
  ASSUME BodyOK, [UpkeepNext]_upkeepVars
  PROVE  BodyOK' /\ Stays
<1>1. CASE UNCHANGED body
  BY <1>1 DEF BodyOK, Stays, There
<1>2. CASE \E n \in Nodes, t \in Times, shown, own \in BOOLEAN : Upsert(n, t, shown, own)
  BY <1>2, UpsertBody
<1>3. CASE \E n \in Nodes, shown \in BOOLEAN : SetPublished({n}, shown)
  BY <1>3, PublishBody
<1>4. CASE \E n \in Nodes : TimePasses(n)
  BY <1>4, AgeBody
<1>5. CASE \E modes \in SUBSET Modes, w \in Widths : BuildTimeSlices(modes, w)
  BY <1>5, SliceBody
<1>6. \/ \E n \in Nodes, t \in Times, shown, own \in BOOLEAN : Upsert(n, t, shown, own)
      \/ \E n \in Nodes, shown \in BOOLEAN : SetPublished({n}, shown)
      \/ \E n \in Nodes : TimePasses(n)
      \/ \E modes \in SUBSET Modes, w \in Widths : BuildTimeSlices(modes, w)
      \/ UNCHANGED body
  BY Steps DEF BuildEventRelations, WriteEdges, BuildFails, BeginExport, ExportPage, upkeepVars
<1> QED BY <1>1, <1>2, <1>3, <1>4, <1>5, <1>6

LEMMA PlannedTypes ==
  ASSUME UpkeepTypeOK, [UpkeepNext]_upkeepVars
  PROVE  BuildOK' /\ derived' \subseteq Edge
<1> USE DEF UpkeepTypeOK, BuildOK
<1>1. /\ build \in [todo : Seq(SUBSET Edge), all : BOOLEAN] /\ derived \subseteq Edge
  OBVIOUS
<1>2. CASE \E ns : EventsWritten(ns) /\ derived' = derived
  BY <1>1, <1>2 DEF EventsWritten
<1>3. CASE UNCHANGED <<build, derived>>
  BY <1>1, <1>3
<1>4. CASE \E place \in Locations \cup {None}, sourced, causes \in BOOLEAN :
             BuildEventRelations(place, sourced, causes)
  BY <1>1, <1>4, RelationsPlanned
<1>5. CASE \E modes \in SUBSET Modes, w \in Widths : BuildTimeSlices(modes, w)
  <2>1. PICK covers \in SUBSET Edge : build' = [todo |-> <<covers>>, all |-> FALSE]
    BY <1>5, SlicesPlanned
  <2>2. derived' = derived
    BY <1>5 DEF BuildTimeSlices
  <2> QED BY <1>1, <2>1, <2>2
<1>6. CASE WriteEdges
  <2>1. /\ build.todo # << >> /\ build.todo \in Seq(SUBSET Edge)
        /\ derived' = derived \cup Head(build.todo)
        /\ build' = [build EXCEPT !.todo = Tail(@)]
    BY <1>1, <1>6 DEF WriteEdges, Idle
  <2>2. Head(build.todo) \subseteq Edge /\ Tail(build.todo) \in Seq(SUBSET Edge)
    BY <2>1
  <2> QED BY <1>1, <2>1, <2>2
<1>7. CASE BuildFails
  BY <1>1, <1>7 DEF BuildFails, NoBuild
<1>8. \/ \E ns : EventsWritten(ns) /\ derived' = derived
      \/ UNCHANGED <<build, derived>>
      \/ \E place \in Locations \cup {None}, sourced, causes \in BOOLEAN :
           BuildEventRelations(place, sourced, causes)
      \/ \E modes \in SUBSET Modes, w \in Widths : BuildTimeSlices(modes, w)
      \/ WriteEdges \/ BuildFails
  BY Steps DEF Upsert, SetPublished, TimePasses, BeginExport, ExportPage, upkeepVars
<1> QED BY <1>2, <1>3, <1>4, <1>5, <1>6, <1>7, <1>8

LEMMA EdgesTyped ==
  ASSUME derived \subseteq Edge
  PROVE  Edges \subseteq Edge /\ \A edge \in Edges : Subject(edge) \in Nat \ {0}
BY UpkeepAssumption, EdgeEnds DEF Edges, Subject

LEMMA EdgesGrow ==
  ASSUME UpkeepTypeOK, [UpkeepNext]_upkeepVars
  PROVE  Edges \subseteq Edges'
<1>1. derived \subseteq derived'
  BY Changers DEF WriteEdges
<1>2. Stays
  BY BodySteps DEF UpkeepTypeOK
<1>3. \A edge \in Told : edge[2] \in Nodes /\ edge[3] \in Nodes
  BY UpkeepAssumption, EdgeEnds
<1> QED BY <1>1, <1>2, <1>3 DEF Edges, Stays

\* A page of the export: what it leaves out comes after its last subject, or
\* shares it.
LEMMA PageIs ==
  ASSUME UpkeepTypeOK, ExportPage
  PROVE  \E page \in SUBSET Edges :
           \/ \E last \in Nat :
                /\ export' = [export EXCEPT !.after = last, !.got = @ \cup page,
                                          !.cut = @ \cup {last}]
                /\ \A edge \in Edges : Subject(edge) > export.after =>
                     edge \in page \/ Subject(edge) >= last
           \/ /\ export' = [export EXCEPT !.on = FALSE, !.got = @ \cup page]
              /\ \A edge \in Edges : Subject(edge) > export.after => edge \in page
<1>1. PICK page \in SUBSET Rest :
        /\ IsPage(page)
        /\ IF Cardinality(page) = PageLimit
           THEN \E last \in {Subject(edge) : edge \in page} :
                  /\ \A edge \in page : Subject(edge) <= last
                  /\ export' = [export EXCEPT !.after = last, !.got = @ \cup page,
                                            !.cut = @ \cup {last}]
           ELSE export' = [export EXCEPT !.on = FALSE, !.got = @ \cup page]
  BY DEF ExportPage
<1>2. page \subseteq Edges /\ \A edge \in Edges : Subject(edge) > export.after <=> edge \in Rest
  BY <1>1 DEF Rest
<1>3. CASE Cardinality(page) = PageLimit
  <2>1. PICK edge \in page :
          export' = [export EXCEPT !.after = Subject(edge), !.got = @ \cup page,
                                 !.cut = @ \cup {Subject(edge)}]
    BY <1>1, <1>3
  <2>2. \A left \in Rest \ page : Subject(edge) <= Subject(left)
    BY <1>1, <2>1 DEF IsPage
  <2>3. \A left \in Edges : Subject(left) \in Nat
    BY EdgesTyped DEF UpkeepTypeOK
  <2> QED BY <1>2, <2>1, <2>2, <2>3
<1>4. CASE Cardinality(page) # PageLimit
  <2>1. page = Rest
    BY <1>1, <1>4 DEF IsPage, OfLimit
  <2> QED BY <1>1, <1>2, <1>4, <2>1
<1> QED BY <1>3, <1>4

LEMMA ExportTypes ==
  ASSUME UpkeepTypeOK, [UpkeepNext]_upkeepVars
  PROVE  ExportOK'
<1> USE DEF ExportOK
<1>1. ExportOK /\ Edges \subseteq Edge
  BY EdgesTyped DEF UpkeepTypeOK
<1>2. CASE UNCHANGED export
  BY <1>1, <1>2
<1>3. CASE BeginExport
  BY <1>1, <1>3 DEF BeginExport, NoExport
<1>4. CASE ExportPage
  <2>1. PICK page \in SUBSET Edges :
           \/ \E last \in Nat :
                export' = [export EXCEPT !.after = last, !.got = @ \cup page,
                                       !.cut = @ \cup {last}]
           \/ export' = [export EXCEPT !.on = FALSE, !.got = @ \cup page]
    BY <1>4, PageIs
  <2>2. export.got \cup page \in SUBSET Edge
        /\ \A last \in Nat : export.cut \cup {last} \in SUBSET Nat
    BY <1>1
  <2>3. ASSUME NEW got \in SUBSET Edge, NEW last \in Nat, NEW cut \in SUBSET Nat
        PROVE  /\ [export EXCEPT !.after = last, !.got = got, !.cut = cut]
                    \in [on : BOOLEAN, after : Nat, got : SUBSET Edge, since : SUBSET Edge,
                         cut : SUBSET Nat]
               /\ [export EXCEPT !.on = FALSE, !.got = got]
                    \in [on : BOOLEAN, after : Nat, got : SUBSET Edge, since : SUBSET Edge,
                         cut : SUBSET Nat]
    BY <1>1
  <2>4. CASE \E last \in Nat :
               export' = [export EXCEPT !.after = last, !.got = @ \cup page,
                                      !.cut = @ \cup {last}]
    <3>1. PICK last \in Nat :
            export' = [export EXCEPT !.after = last, !.got = @ \cup page,
                                   !.cut = @ \cup {last}]
      BY <2>4
    <3>2. PICK got \in SUBSET Edge, cut \in SUBSET Nat :
            got = export.got \cup page /\ cut = export.cut \cup {last}
      BY <2>2
    <3>3. export' = [export EXCEPT !.after = last, !.got = got, !.cut = cut]
      BY <3>1, <3>2
    <3> QED BY <2>3, <3>3
  <2>5. CASE export' = [export EXCEPT !.on = FALSE, !.got = @ \cup page]
    BY <2>2, <2>3, <2>5
  <2> QED BY <2>1, <2>4, <2>5
<1> QED BY <1>2, <1>3, <1>4, Changers

LEMMA UpkeepTypes ==
  ASSUME UpkeepTypeOK, [UpkeepNext]_upkeepVars
  PROVE  UpkeepTypeOK'
<1>1. BodyOK' /\ BuildOK' /\ ExportOK' /\ derived' \subseteq Edge
  BY BodySteps, PlannedTypes, ExportTypes DEF UpkeepTypeOK
<1>2. ops' \in Nat /\ moved' \subseteq Upserted /\ linked' \in BOOLEAN
  <2>1. /\ ops \in Nat /\ moved \subseteq Upserted /\ linked \in BOOLEAN
        /\ build.all \in BOOLEAN
    BY DEF UpkeepTypeOK, BuildOK
  <2>2. ops' \in Nat
    BY <2>1, Changers
  <2>3. moved' \subseteq Upserted
    BY <2>1, Changers DEF Upsert
  <2>4. linked' \in BOOLEAN
    BY <2>1, Changers DEF WriteEdges, EventsWritten
  <2> QED BY <2>2, <2>3, <2>4
<1> QED BY <1>1, <1>2 DEF UpkeepTypeOK

LEMMA UpkeepStart ==
  ASSUME UpkeepInit
  PROVE  UpkeepTypeOK
<1>1. BodyOK
  BY Inside DEF UpkeepInit, BodyOK, There
<1>2. BuildOK /\ ExportOK
  BY DEF UpkeepInit, BuildOK, ExportOK, NoBuild, NoExport
<1> QED BY <1>1, <1>2 DEF UpkeepInit, UpkeepTypeOK

\* The nodes, the edges, what a build has to write and how far an export has
\* come are of the kinds the model gives them, for any graph and any upserts.
THEOREM UpkeepKeepsTypes == UpkeepSpec => []UpkeepTypeOK
<1>1. UpkeepTypeOK /\ [UpkeepNext]_upkeepVars => UpkeepTypeOK'
  BY UpkeepTypes
<1> QED BY <1>1, UpkeepStart, PTL DEF UpkeepSpec

-----------------------------------------------------------------------------
(* The export.                                                             *)

ExportInv == export.since \subseteq Edges /\ ExportMissesOnlyCut

LEMMA ExportSteps ==
  ASSUME UpkeepTypeOK, ExportInv, [UpkeepNext]_upkeepVars
  PROVE  ExportInv'
<1> USE DEF ExportInv, ExportMissesOnlyCut
<1>1. Edges \subseteq Edges' /\ \A edge : Subject(edge)' = Subject(edge)
  BY EdgesGrow DEF Subject
<1>2. \A edge \in Edges : Subject(edge) \in Nat \ {0}
  BY EdgesTyped DEF UpkeepTypeOK
<1>3. CASE UNCHANGED export
  BY <1>1, <1>3
<1>4. CASE BeginExport
  <2>1. export' = [on |-> TRUE, after |-> 0, got |-> {}, since |-> Edges, cut |-> {}]
    BY <1>4 DEF BeginExport, NoExport
  <2> QED BY <1>1, <1>2, <2>1
<1>5. CASE ExportPage
  <2>1. export \in [on : BOOLEAN, after : Nat, got : SUBSET Edge, since : SUBSET Edge,
                    cut : SUBSET Nat]
    BY DEF UpkeepTypeOK, ExportOK
  <2>2. export.on
    BY <1>5 DEF ExportPage
  <2>3. PICK page \in SUBSET Edges :
           \/ \E last \in Nat :
                /\ export' = [export EXCEPT !.after = last, !.got = @ \cup page,
                                          !.cut = @ \cup {last}]
                /\ \A edge \in Edges : Subject(edge) > export.after =>
                     edge \in page \/ Subject(edge) >= last
           \/ /\ export' = [export EXCEPT !.on = FALSE, !.got = @ \cup page]
              /\ \A edge \in Edges : Subject(edge) > export.after => edge \in page
    BY <1>5, PageIs
  <2>4. CASE \E last \in Nat :
               /\ export' = [export EXCEPT !.after = last, !.got = @ \cup page,
                                         !.cut = @ \cup {last}]
               /\ \A edge \in Edges : Subject(edge) > export.after =>
                    edge \in page \/ Subject(edge) >= last
    <3>1. PICK last \in Nat :
               /\ export' = [export EXCEPT !.after = last, !.got = @ \cup page,
                                         !.cut = @ \cup {last}]
               /\ \A edge \in Edges : Subject(edge) > export.after =>
                    edge \in page \/ Subject(edge) >= last
      BY <2>4
    <3>2. /\ export'.on /\ export'.after = last /\ export'.got = export.got \cup page
          /\ export'.since = export.since /\ export'.cut = export.cut \cup {last}
      BY <2>1, <2>2, <3>1
    <3>3. ASSUME NEW edge \in export.since
          PROVE  \/ export'.on /\ Subject(edge) > export'.after
                 \/ edge \in export'.got
                 \/ Subject(edge) \in export'.cut
      <4>1. Subject(edge) \in Nat /\ edge \in Edges
        BY <1>2
      <4>2. CASE Subject(edge) > export.after
        <5>1. edge \in page \/ Subject(edge) > last \/ Subject(edge) = last
          BY <3>1, <4>1, <4>2
        <5> QED BY <3>2, <5>1
      <4>3. CASE edge \in export.got \/ Subject(edge) \in export.cut
        BY <3>2, <4>3
      <4> QED BY <4>2, <4>3
    <3> QED BY <1>1, <3>2, <3>3
  <2>5. CASE /\ export' = [export EXCEPT !.on = FALSE, !.got = @ \cup page]
             /\ \A edge \in Edges : Subject(edge) > export.after => edge \in page
    <3>1. /\ export'.on = FALSE /\ export'.got = export.got \cup page
          /\ export'.since = export.since /\ export'.cut = export.cut
      BY <2>1, <2>5
    <3>2. ASSUME NEW edge \in export.since
          PROVE  edge \in export'.got \/ Subject(edge) \in export'.cut
      BY <2>5, <3>1
    <3> QED BY <1>1, <3>1, <3>2
  <2> QED BY <2>3, <2>4, <2>5
<1> QED BY <1>3, <1>4, <1>5, Changers

\* Whatever is upserted and built while a client walks over the pages: it
\* misses an edge that was there from the start only at a subject where a full
\* page was cut.
THEOREM ExportIsComplete == UpkeepSpec => []ExportMissesOnlyCut
<1>1. UpkeepInit => UpkeepTypeOK /\ ExportInv
  <2>1. UpkeepInit => ExportInv
    BY DEF UpkeepInit, ExportInv, ExportMissesOnlyCut, NoExport
  <2> QED BY <2>1, UpkeepStart
<1>2. UpkeepTypeOK /\ ExportInv /\ [UpkeepNext]_upkeepVars => (UpkeepTypeOK /\ ExportInv)'
  BY UpkeepTypes, ExportSteps
<1>3. ExportInv => ExportMissesOnlyCut
  BY DEF ExportInv
<1> QED BY <1>1, <1>2, <1>3, PTL DEF UpkeepSpec

-----------------------------------------------------------------------------
(* What a build writes.                                                    *)

\* The edges that are there, and those a build has yet to write.
Coming == derived \cup {edge \in Edge : \E n \in 1 .. Len(build.todo) : edge \in build.todo[n]}

LEMMA AfterRelations ==
  ASSUME UpkeepTypeOK, NEW place, NEW sourced, NEW causes \in BOOLEAN,
         BuildEventRelations(place, sourced, causes)
  PROVE  /\ UNCHANGED <<body, derived, moved>>
         /\ \E order \in InOrder(Rows(place, sourced)) :
              Coming' \subseteq derived \cup Pairs("NEXT_EVENT", order) \cup Pairs("CAUSES", order)
<1>1. PICK order \in InOrder(Rows(place, sourced)), more \in SUBSET Edge :
        /\ build'.todo = Plan(Pairs("NEXT_EVENT", order), more)
        /\ more \subseteq Pairs("CAUSES", order)
        /\ Pairs("NEXT_EVENT", order) \subseteq Edge
  BY RelationsPlanned
<1>2. UNCHANGED <<body, derived, moved>>
  BY RelationsPlanned
<1> DEFINE nexts == Pairs("NEXT_EVENT", order)
           todo == Plan(nexts, more)
<1>3. \A n \in 1 .. Len(todo) : todo[n] \in {nexts, more}
  <2>1. CASE nexts = {}
    <3>1. todo = << >>
      BY <2>1 DEF Plan
    <3> QED BY <3>1
  <2>2. CASE nexts # {} /\ more = {}
    <3>1. todo = <<nexts>>
      BY <2>2 DEF Plan
    <3> QED BY <3>1
  <2>3. CASE nexts # {} /\ more # {}
    <3>1. todo = <<nexts, more>>
      BY <2>3 DEF Plan
    <3> HIDE DEF todo, nexts
    <3>2. Len(todo) = 2 /\ todo[1] = nexts /\ todo[2] = more
      BY <3>1
    <3> QED BY <3>2
  <2> QED BY <2>1, <2>2, <2>3
<1> HIDE DEF todo
<1>4. Coming' = derived \cup {edge \in Edge : \E n \in 1 .. Len(todo) : edge \in todo[n]}
  BY <1>1, <1>2 DEF Coming, todo
<1> HIDE DEF nexts
<1>5. Coming' \subseteq derived \cup nexts \cup more
  BY <1>3, <1>4
<1> QED BY <1>1, <1>2, <1>5 DEF nexts

LEMMA AfterSlices ==
  ASSUME UpkeepTypeOK, NEW modes \in SUBSET Modes, NEW w \in Widths, BuildTimeSlices(modes, w)
  PROVE  /\ UNCHANGED <<derived, moved>>
         /\ \E covers \in SUBSET Edge :
              /\ Coming' \subseteq derived \cup covers
              /\ \A edge \in covers : \E s \in Segments, mode \in modes :
                   edge = <<"COVERS_SEGMENT", SliceOf(s, mode, w), s>> /\ There(s)
              /\ body' = [n \in Nodes |-> IF n \in {edge[2] : edge \in covers}
                                          THEN Window(n, w) ELSE body[n]]
              /\ \A edge \in covers : edge[2] \in Slices
<1>1. PICK covers \in SUBSET Edge :
        /\ build' = [todo |-> <<covers>>, all |-> FALSE]
        /\ \A edge \in covers : \E s \in Segments, mode \in modes :
             edge = <<"COVERS_SEGMENT", SliceOf(s, mode, w), s>> /\ There(s)
        /\ body' = [n \in Nodes |-> IF n \in {edge[2] : edge \in covers}
                                    THEN Window(n, w) ELSE body[n]]
        /\ \A edge \in covers : edge[2] \in Slices
  BY SlicesPlanned DEF UpkeepTypeOK
<1>2. UNCHANGED <<derived, moved>>
  BY DEF BuildTimeSlices
<1>3. Coming' = derived \cup {edge \in Edge : \E n \in 1 .. 1 : edge \in (<<covers>>)[n]}
  BY <1>1, <1>2 DEF Coming
<1>4. Coming' \subseteq derived \cup covers
  BY <1>3
<1> QED BY <1>1, <1>2, <1>4

LEMMA SlicesAdd ==
  ASSUME UpkeepTypeOK, NEW modes \in SUBSET Modes, NEW w \in Widths, BuildTimeSlices(modes, w)
  PROVE  /\ \A edge \in Coming' : edge \in derived \/ edge[1] = "COVERS_SEGMENT"
         /\ \E covers : /\ build'.todo = <<covers>> /\ build'.all = FALSE
                        /\ \A edge \in covers : edge[1] = "COVERS_SEGMENT"
<1>1. PICK covers \in SUBSET Edge :
        /\ covers # {} /\ build' = [todo |-> <<covers>>, all |-> FALSE]
        /\ \A edge \in covers : \E s \in Segments, mode \in modes :
             edge = <<"COVERS_SEGMENT", SliceOf(s, mode, w), s>> /\ There(s)
        /\ body' = [n \in Nodes |-> IF n \in {edge[2] : edge \in covers}
                                    THEN Window(n, w) ELSE body[n]]
        /\ \A edge \in covers : edge[2] \in Slices
  BY SlicesPlanned DEF UpkeepTypeOK
<1>2. \A edge \in covers : edge[1] = "COVERS_SEGMENT"
  BY <1>1
<1>3. derived' = derived
  BY DEF BuildTimeSlices
<1>4. Coming' = derived \cup {edge \in Edge : \E n \in 1 .. 1 : edge \in (<<covers>>)[n]}
  BY <1>1, <1>3 DEF Coming
<1>5. Coming' \subseteq derived \cup covers
  BY <1>4
<1> QED BY <1>1, <1>2, <1>5

\* Only the start of a build makes new edges.
LEMMA ComingSteps ==
  ASSUME UpkeepTypeOK, [UpkeepNext]_upkeepVars
  PROVE  \/ Coming' \subseteq Coming
         \/ \E place \in Locations \cup {None}, sourced, causes \in BOOLEAN :
              BuildEventRelations(place, sourced, causes)
         \/ \E modes \in SUBSET Modes, w \in Widths : BuildTimeSlices(modes, w)
<1>1. build \in [todo : Seq(SUBSET Edge), all : BOOLEAN]
  BY DEF UpkeepTypeOK, BuildOK
<1>2. CASE UNCHANGED derived /\ build'.todo = build.todo
  BY <1>2 DEF Coming
<1>3. CASE WriteEdges
  <2>1. /\ build.todo # << >> /\ derived' = derived \cup Head(build.todo)
        /\ build'.todo = Tail(build.todo)
    BY <1>1, <1>3 DEF WriteEdges, Idle
  <2>2. ASSUME NEW edge \in Edge, NEW n \in 1 .. Len(build'.todo), edge \in build'.todo[n]
        PROVE  edge \in Coming
    <3>1. n + 1 \in 1 .. Len(build.todo) /\ build'.todo[n] = build.todo[n + 1]
      BY <1>1, <2>1
    <3> QED BY <2>2, <3>1 DEF Coming
  <2>3. Head(build.todo) \subseteq Coming
    <3>1. 1 \in 1 .. Len(build.todo) /\ Head(build.todo) = build.todo[1]
          /\ Head(build.todo) \subseteq Edge
      BY <1>1, <2>1
    <3> QED BY <3>1 DEF Coming
  <2> QED BY <2>1, <2>2, <2>3 DEF Coming
<1>4. CASE BuildFails
  <2>1. build'.todo = << >> /\ derived' = derived
    BY <1>4 DEF BuildFails, NoBuild
  <2> QED BY <2>1 DEF Coming
<1>5. CASE \E ns : EventsWritten(ns) /\ derived' = derived
  <2>1. UNCHANGED derived /\ build'.todo = build.todo
    BY <1>1, <1>5 DEF EventsWritten
  <2> QED BY <1>2, <2>1
<1>6. \/ \E ns : EventsWritten(ns) /\ derived' = derived
      \/ UNCHANGED <<build, derived>>
      \/ \E place \in Locations \cup {None}, sourced, causes \in BOOLEAN :
           BuildEventRelations(place, sourced, causes)
      \/ \E modes \in SUBSET Modes, w \in Widths : BuildTimeSlices(modes, w)
      \/ WriteEdges \/ BuildFails
  BY Steps DEF Upsert, SetPublished, TimePasses, BeginExport, ExportPage, upkeepVars
<1> QED BY <1>2, <1>3, <1>4, <1>5, <1>6

\* A node that keeps out of the record of the moved has kept its time.
LEMMA NotMoved ==
  ASSUME UpkeepTypeOK, [UpkeepNext]_upkeepVars, NEW n \in Upserted, There(n), n \notin moved'
  PROVE  n \notin moved /\ body'[n].at = body[n].at
<1>1. BodyOK /\ n \in Nodes
  BY Inside DEF UpkeepTypeOK
<1>2. CASE \E m \in Nodes, t \in Times, shown, own \in BOOLEAN : Upsert(m, t, shown, own)
  <2>1. PICK m \in Nodes, t \in Times, shown \in BOOLEAN, own \in BOOLEAN :
          Upsert(m, t, shown, own)
    BY <1>2
  <2>2. /\ body'[m].at = t /\ \A k \in Nodes : k # m => body'[k] = body[k]
    BY <1>1, <2>1, UpsertBody
  <2>3. moved' = IF There(m) /\ body[m].at # t THEN moved \cup {m} ELSE moved
    BY <2>1 DEF Upsert
  <2> QED BY <1>1, <2>2, <2>3
<1>3. CASE \E m \in Nodes, shown \in BOOLEAN : SetPublished({m}, shown)
  <2>1. moved' = moved
    BY <1>3 DEF SetPublished
  <2> QED BY <1>1, <1>3, <2>1, PublishBody
<1>4. CASE \E m \in Nodes : TimePasses(m)
  <2>1. moved' = moved
    BY <1>4 DEF TimePasses
  <2> QED BY <1>1, <1>4, <2>1, AgeBody
<1>5. CASE \E modes \in SUBSET Modes, w \in Widths : BuildTimeSlices(modes, w)
  <2>1. moved' = moved
    BY <1>5 DEF BuildTimeSlices
  <2>2. n \notin Slices
    BY Disjoint
  <2> QED BY <1>1, <1>5, <2>1, <2>2, SliceBody
<1>6. CASE UNCHANGED <<body, moved>>
  BY <1>6
<1>7. CASE \E place \in Locations \cup {None}, sourced, causes \in BOOLEAN :
             BuildEventRelations(place, sourced, causes)
  BY <1>7, RelationsPlanned
<1> QED BY <1>2, <1>3, <1>4, <1>5, <1>6, <1>7, Steps
        DEF WriteEdges, BuildFails, BeginExport, ExportPage, upkeepVars

-----------------------------------------------------------------------------
(* Time slices.                                                            *)

\* The window of a slice follows from its id, as long as nobody asks for
\* another width.
SlicesOK ==
  \A i \in Slices, w \in Widths :
    There(i) => body[i].at = Window(i, w).at /\ body[i].to = Window(i, w).to

CoversOK ==
  \A i \in Slices, s \in Segments :
    <<"COVERS_SEGMENT", i, s>> \in Coming =>
      /\ There(i) /\ There(s)
      /\ s \notin moved => body[i].at <= body[s].at /\ body[s].at < body[i].to

LEMMA SlicesSteps ==
  ASSUME OneWidth, UpkeepTypeOK, SlicesOK, [UpkeepNext]_upkeepVars
  PROVE  SlicesOK'
<1> SUFFICES ASSUME NEW i \in Slices, NEW w \in Widths, There(i)'
             PROVE  body'[i].at = Window(i, w).at /\ body'[i].to = Window(i, w).to
  BY DEF SlicesOK, Window, WidthOf
<1>1. BodyOK /\ i \in Nodes /\ i \notin Upserted
  BY Inside, Disjoint DEF UpkeepTypeOK
<1>2. CASE UNCHANGED body
  BY <1>2 DEF SlicesOK, There
<1>3. CASE \E n \in Nodes, t \in Times, shown, own \in BOOLEAN : Upsert(n, t, shown, own)
  <2>1. body'[i] = body[i]
    BY <1>1, <1>3, UpsertBody
  <2> QED BY <2>1 DEF SlicesOK, There
<1>4. CASE \E n \in Nodes, shown \in BOOLEAN : SetPublished({n}, shown)
  BY <1>1, <1>4, PublishBody DEF SlicesOK
<1>5. CASE \E n \in Nodes : TimePasses(n)
  BY <1>1, <1>5, AgeBody DEF SlicesOK
<1>6. CASE \E modes \in SUBSET Modes, v \in Widths : BuildTimeSlices(modes, v)
  <2>1. PICK modes \in SUBSET Modes, v \in Widths : BuildTimeSlices(modes, v)
    BY <1>6
  <2>2. v = w
    BY <2>1 DEF OneWidth
  <2>3. body'[i] = Window(i, w) \/ body'[i] = body[i]
    <3>1. PICK covers : body' = [n \in Nodes |-> IF n \in {edge[2] : edge \in covers}
                                                 THEN Window(n, v) ELSE body[n]]
      BY <2>1, AfterSlices
    <3> QED BY <1>1, <2>2, <3>1
  <2> QED BY <2>3 DEF SlicesOK, There
<1>7. \/ \E n \in Nodes, t \in Times, shown, own \in BOOLEAN : Upsert(n, t, shown, own)
      \/ \E n \in Nodes, shown \in BOOLEAN : SetPublished({n}, shown)
      \/ \E n \in Nodes : TimePasses(n)
      \/ \E modes \in SUBSET Modes, v \in Widths : BuildTimeSlices(modes, v)
      \/ UNCHANGED body
  BY Steps DEF BuildEventRelations, WriteEdges, BuildFails, BeginExport, ExportPage, upkeepVars
<1> QED BY <1>2, <1>3, <1>4, <1>5, <1>6, <1>7

\* A slice that is there keeps its window.
LEMMA WindowStays ==
  ASSUME OneWidth, UpkeepTypeOK, SlicesOK, [UpkeepNext]_upkeepVars, NEW i \in Slices, There(i)
  PROVE  There(i)' /\ body'[i].at = body[i].at /\ body'[i].to = body[i].to
<1>1. PICK w \in Widths : TRUE
  BY DEF Slices, Numbers
<1>2. There(i)'
  BY BodySteps, Inside DEF Stays, UpkeepTypeOK
<1>3. /\ body[i].at = Window(i, w).at /\ body[i].to = Window(i, w).to
  BY DEF SlicesOK
<1>4. \A v \in Widths : body'[i].at = Window(i, v).at /\ body'[i].to = Window(i, v).to
  <2>1. SlicesOK'
    BY SlicesSteps
  <2> QED BY <1>2, <2>1 DEF SlicesOK, Window, WidthOf
<1> QED BY <1>2, <1>3, <1>4

LEMMA CoversSteps ==
  ASSUME OneWidth, UpkeepTypeOK, SlicesOK, CoversOK, [UpkeepNext]_upkeepVars
  PROVE  CoversOK'
<1> SUFFICES ASSUME NEW i \in Slices, NEW s \in Segments, <<"COVERS_SEGMENT", i, s>> \in Coming'
             PROVE  /\ There(i)' /\ There(s)'
                    /\ s \notin moved' => body'[i].at <= body'[s].at /\ body'[s].at < body'[i].to
  BY DEF CoversOK
<1>1. BodyOK /\ BodyOK' /\ Stays /\ i \in Nodes /\ s \in Nodes /\ s \in Upserted /\ s \notin Slices
  BY Inside, Disjoint, BodySteps DEF UpkeepTypeOK
<1>2. CASE <<"COVERS_SEGMENT", i, s>> \in Coming
  <2>1. There(i) /\ There(s)
        /\ (s \notin moved => body[i].at <= body[s].at /\ body[s].at < body[i].to)
    BY <1>2 DEF CoversOK
  <2>2. There(i)' /\ body'[i].at = body[i].at /\ body'[i].to = body[i].to
    BY <2>1, WindowStays
  <2>3. There(s)' /\ (s \notin moved' => s \notin moved /\ body'[s].at = body[s].at)
    BY <1>1, <2>1, NotMoved DEF Stays
  <2> QED BY <2>1, <2>2, <2>3
<1>3. CASE \E place \in Locations \cup {None}, sourced, causes \in BOOLEAN :
             BuildEventRelations(place, sourced, causes)
  <2>1. PICK place \in Locations \cup {None}, sourced \in BOOLEAN, causes \in BOOLEAN :
          BuildEventRelations(place, sourced, causes)
    BY <1>3
  <2>2. PICK order \in InOrder(Rows(place, sourced)) :
          Coming' \subseteq derived \cup Pairs("NEXT_EVENT", order) \cup Pairs("CAUSES", order)
    BY <2>1, AfterRelations
  <2>3. \A type \in {"NEXT_EVENT", "CAUSES"} : \A edge \in Pairs(type, order) : edge[1] = type
    BY PairIs
  <2>4. <<"COVERS_SEGMENT", i, s>> \in derived
    BY <2>2, <2>3
  <2> QED BY <1>2, <2>4 DEF Coming
<1>4. CASE \E modes \in SUBSET Modes, w \in Widths : BuildTimeSlices(modes, w)
  <2>1. PICK modes \in SUBSET Modes, w \in Widths : BuildTimeSlices(modes, w)
    BY <1>4
  <2>2. PICK covers \in SUBSET Edge :
          /\ Coming' \subseteq derived \cup covers
          /\ \A edge \in covers : \E k \in Segments, mode \in modes :
               edge = <<"COVERS_SEGMENT", SliceOf(k, mode, w), k>> /\ There(k)
          /\ body' = [n \in Nodes |-> IF n \in {edge[2] : edge \in covers}
                                      THEN Window(n, w) ELSE body[n]]
          /\ \A edge \in covers : edge[2] \in Slices
    BY <2>1, AfterSlices
  <2>3. CASE <<"COVERS_SEGMENT", i, s>> \in covers
    <3>1. PICK mode \in modes : i = SliceOf(s, mode, w) /\ There(s)
      <4>1. PICK k \in Segments, mode \in modes :
              /\ <<"COVERS_SEGMENT", i, s>> = <<"COVERS_SEGMENT", SliceOf(k, mode, w), k>>
              /\ There(k)
        BY <2>2, <2>3
      <4> QED BY <4>1
    <3>2. body'[i] = Window(i, w) /\ body'[s] = body[s]
      <4>1. i \in {edge[2] : edge \in covers}
        BY <2>3
      <4>2. s \notin {edge[2] : edge \in covers}
        BY <1>1, <2>2
      <4> QED BY <1>1, <2>2, <4>1, <4>2
    <3>3. PICK t \in Times : t = body[s].at
      BY <1>1, <3>1 DEF BodyOK
    <3> DEFINE d == WidthOf(mode, w)
    <3>4. d \in Nat \ {0} /\ t \in Nat
      BY Numbering
    <3>5. i = <<mode, t \div d>>
      BY <3>1, <3>3 DEF SliceOf
    <3>6. body'[i].at = (t \div d) * d /\ body'[i].to = ((t \div d) + 1) * d
      BY <3>2, <3>5 DEF Window
    <3>7. (t \div d) * d <= t /\ t < ((t \div d) + 1) * d
      BY <3>4, WindowHolds
    <3>8. There(i)' /\ There(s)'
      <4>1. Window(i, w) # None
        BY WindowIsNode
      <4> QED BY <1>1, <3>1, <3>2, <4>1 DEF There
    <3> QED BY <3>2, <3>3, <3>6, <3>7, <3>8
  <2>4. CASE <<"COVERS_SEGMENT", i, s>> \in derived
    BY <1>2, <2>4 DEF Coming
  <2> QED BY <2>2, <2>3, <2>4
<1> QED BY <1>2, <1>3, <1>4, ComingSteps

\* If the same width is asked for every time, a segment begins within each of
\* the slices that cover it, whatever is rewritten and built meanwhile, unless
\* an upsert gave it another beginning after the slice was built.
THEOREM SlicesCoverBegin == ASSUME OneWidth PROVE UpkeepSpec => []CoveredBeginInside
<1>1. UpkeepInit => UpkeepTypeOK /\ SlicesOK /\ CoversOK
  <2>1. ASSUME UpkeepInit PROVE SlicesOK /\ CoversOK
    <3>1. Coming = {} /\ \A n \in Nodes : ~There(n)
      BY <2>1 DEF UpkeepInit, Coming, NoBuild, There
    <3> QED BY <3>1, Inside DEF SlicesOK, CoversOK
  <2> QED BY <2>1, UpkeepStart
<1>2. UpkeepTypeOK /\ SlicesOK /\ CoversOK /\ [UpkeepNext]_upkeepVars
        => (UpkeepTypeOK /\ SlicesOK /\ CoversOK)'
  BY UpkeepTypes, SlicesSteps, CoversSteps
<1>3. CoversOK => CoveredBeginInside
  BY DEF CoversOK, CoveredBeginInside, Coming
<1> QED BY <1>1, <1>2, <1>3, PTL DEF UpkeepSpec

-----------------------------------------------------------------------------
(* The relations of the events.                                            *)

LEMMA LaterIs ==
  ASSUME NEW a, NEW b, body[a].at \in Nat, body[b].at \in Nat, ~Later(a, b), body[b].at # 0
  PROVE  body[a].at # 0 /\ body[a].at <= body[b].at
BY DEF Later

\* Rows in a place further on are not earlier, and dated only if all before are.
LEMMA Sorted ==
  ASSUME BodyOK, NEW place, NEW sourced, NEW order \in InOrder(Rows(place, sourced)),
         NEW i \in DOMAIN order, NEW j \in DOMAIN order, i < j,
         body[order[j][1]].at # 0
  PROVE  /\ body[order[i][1]].at # 0 /\ body[order[i][1]].at <= body[order[j][1]].at
<1>1. ~Later(order[i][1], order[j][1])
  BY DEF InOrder
<1>2. /\ order[i][1] \in Nodes /\ order[j][1] \in Nodes
      /\ There(order[i][1]) /\ There(order[j][1])
  BY OrderedRow, Inside DEF Shown
<1> QED BY <1>1, <1>2, AtIsNat, LaterIs

TimesOK ==
  \A a, b \in Events :
    <<"NEXT_EVENT", a, b>> \in Coming =>
      /\ There(a) /\ There(b)
      /\ a \notin moved /\ b \notin moved =>
           body[a].at # 0 /\ body[b].at # 0 /\ body[a].at <= body[b].at

LEMMA TimesSteps ==
  ASSUME UpkeepTypeOK, TimesOK, [UpkeepNext]_upkeepVars
  PROVE  TimesOK'
<1> SUFFICES ASSUME NEW a \in Events, NEW b \in Events, <<"NEXT_EVENT", a, b>> \in Coming'
             PROVE  /\ There(a)' /\ There(b)'
                    /\ a \notin moved' /\ b \notin moved' =>
                         body'[a].at # 0 /\ body'[b].at # 0 /\ body'[a].at <= body'[b].at
  BY DEF TimesOK
<1>1. BodyOK /\ a \in Nodes /\ b \in Nodes /\ a \in Upserted /\ b \in Upserted
  BY Inside DEF UpkeepTypeOK
<1>2. CASE <<"NEXT_EVENT", a, b>> \in Coming
  <2>1. There(a) /\ There(b)
        /\ (a \notin moved /\ b \notin moved =>
              body[a].at # 0 /\ body[b].at # 0 /\ body[a].at <= body[b].at)
    BY <1>2 DEF TimesOK
  <2>2. There(a)' /\ There(b)'
    BY <1>1, <2>1, BodySteps DEF Stays
  <2>3. (a \notin moved' => a \notin moved /\ body'[a].at = body[a].at)
        /\ (b \notin moved' => b \notin moved /\ body'[b].at = body[b].at)
    BY <1>1, <2>1, NotMoved
  <2> QED BY <2>1, <2>2, <2>3
<1>3. CASE \E place \in Locations \cup {None}, sourced, causes \in BOOLEAN :
             BuildEventRelations(place, sourced, causes)
  <2>1. PICK place \in Locations \cup {None}, sourced \in BOOLEAN, causes \in BOOLEAN :
          BuildEventRelations(place, sourced, causes)
    BY <1>3
  <2>2. PICK order \in InOrder(Rows(place, sourced)) :
          Coming' \subseteq derived \cup Pairs("NEXT_EVENT", order) \cup Pairs("CAUSES", order)
    BY <2>1, AfterRelations
  <2>3. UNCHANGED <<body, derived, moved>>
    BY <2>1, AfterRelations
  <2>4. CASE <<"NEXT_EVENT", a, b>> \in derived
    BY <1>2, <2>4 DEF Coming
  <2>5. CASE <<"NEXT_EVENT", a, b>> \notin derived
    <3>1. \A edge \in Pairs("CAUSES", order) : edge[1] = "CAUSES"
      BY PairIs
    <3>2. <<"NEXT_EVENT", a, b>> \in Pairs("NEXT_EVENT", order)
      BY <2>2, <2>5, <3>1
    <3>3. PICK i \in DOMAIN order :
            /\ i + 1 \in DOMAIN order /\ {i, i + 1} \subseteq Taken(order)
            /\ <<"NEXT_EVENT", a, b>> = <<"NEXT_EVENT", order[i][1], order[i + 1][1]>>
            /\ Shown(order[i][1]) /\ Shown(order[i + 1][1])
      BY <3>2, PairIs
    <3>4. a = order[i][1] /\ b = order[i + 1][1] /\ i \in Nat
          /\ body[a].at # 0 /\ body[b].at # 0
      <4>1. i \in 1 .. Cardinality(Rows(place, sourced))
        BY <3>3, OrderedRow
      <4> QED BY <3>3, <4>1 DEF Taken
    <3>5. body[a].at <= body[b].at
      BY <1>1, <3>3, <3>4, Sorted
    <3> QED BY <2>3, <3>3, <3>4, <3>5 DEF Shown, There
  <2> QED BY <2>4, <2>5
<1>4. CASE \E modes \in SUBSET Modes, w \in Widths : BuildTimeSlices(modes, w)
  <2>1. <<"NEXT_EVENT", a, b>> \in derived
    BY <1>4, SlicesAdd
  <2> QED BY <1>2, <2>1 DEF Coming
<1> QED BY <1>2, <1>3, <1>4, ComingSteps

\* A candidate of a cause is written after the same two events were linked.
Causal(S, T) ==
  \A a, b \in Events : <<"CAUSES", a, b>> \in S => <<"NEXT_EVENT", a, b>> \in T
CausesOK ==
  /\ Causal(derived, derived) /\ Len(build.todo) <= 2
  /\ build.todo # << >> => Causal(Head(build.todo), derived \cup Head(build.todo))
  /\ Len(build.todo) = 2 => Causal(build.todo[2], derived \cup Head(build.todo))

LEMMA CausesArePairs ==
  ASSUME NEW place, NEW sourced, NEW order \in InOrder(Rows(place, sourced))
  PROVE  Causal(Pairs("CAUSES", order), Pairs("NEXT_EVENT", order))
<1> SUFFICES ASSUME NEW a \in Events, NEW b \in Events,
                    <<"CAUSES", a, b>> \in Pairs("CAUSES", order)
             PROVE  <<"NEXT_EVENT", a, b>> \in Pairs("NEXT_EVENT", order)
  BY DEF Causal
<1>1. PICK i \in Taken(order) :
        /\ i + 1 \in Taken(order)
        /\ <<"CAUSES", a, b>> = <<"CAUSES", order[i][1], order[i + 1][1]>>
  BY DEF Pairs
<1>2. <<"NEXT_EVENT", a, b>> = <<"NEXT_EVENT", order[i][1], order[i + 1][1]>>
  BY <1>1
<1> QED BY <1>1, <1>2 DEF Pairs

LEMMA TailIs ==
  ASSUME NEW T, NEW s \in Seq(T), s # << >>
  PROVE  /\ Tail(s) \in Seq(T) /\ Len(Tail(s)) = Len(s) - 1 /\ Len(s) \in Nat \ {0}
         /\ Len(s) = 1 <=> Tail(s) = << >>
         /\ Head(s) = s[1] /\ \A n \in 1 .. Len(s) - 1 : Tail(s)[n] = s[n + 1]
<1>1. Tail(s) \in Seq(T) /\ Len(Tail(s)) = Len(s) - 1
      /\ \A n \in 1 .. Len(s) - 1 : Tail(s)[n] = s[n + 1]
  BY HeadTailProperties
<1>2. Len(s) \in Nat \ {0} /\ Head(s) = s[1]
  BY EmptySeq
<1>3. Tail(s) = << >> <=> Len(Tail(s)) = 0
  BY <1>1, EmptySeq
<1> QED BY <1>1, <1>2, <1>3

LEMMA ShortCauses ==
  ASSUME NEW todo, build'.todo = todo, Causal(derived', derived'),
         \/ todo = << >>
         \/ Len(todo) = 1 /\ Causal(Head(todo), derived' \cup Head(todo))
         \/ Len(todo) = 2 /\ Causal(Head(todo), derived' \cup Head(todo))
                          /\ Causal(todo[2], derived' \cup Head(todo))
  PROVE  CausesOK'
<1>1. Causal(derived', derived') <=> Causal(derived, derived)'
  BY DEF Causal
<1>2. Len(todo) <= 2
  OBVIOUS
<1>3. todo # << >> => Causal(Head(todo), derived' \cup Head(todo))
  OBVIOUS
<1>4. Len(todo) = 2 => Causal(todo[2], derived' \cup Head(todo))
  <2>1. Len(<< >>) = 0
    OBVIOUS
  <2> QED BY <2>1
<1> QED BY <1>1, <1>2, <1>3, <1>4 DEF CausesOK, Causal

LEMMA CausesSteps ==
  ASSUME UpkeepTypeOK, CausesOK, [UpkeepNext]_upkeepVars
  PROVE  CausesOK'
<1>1. build \in [todo : Seq(SUBSET Edge), all : BOOLEAN]
  BY DEF UpkeepTypeOK, BuildOK
<1>2. CASE UNCHANGED derived /\ build'.todo = build.todo
  BY <1>2 DEF CausesOK, Causal
<1>3. CASE \E ns : EventsWritten(ns) /\ derived' = derived
  <2>1. UNCHANGED derived /\ build'.todo = build.todo
    BY <1>1, <1>3 DEF EventsWritten
  <2> QED BY <1>2, <2>1
<1>4. CASE BuildFails
  <2>1. build'.todo = << >> /\ derived' = derived
    BY <1>4 DEF BuildFails, NoBuild
  <2> QED BY <2>1 DEF CausesOK, Causal
<1>5. CASE WriteEdges
  <2>1. PICK todo \in Seq(SUBSET Edge), S \in SUBSET Edge :
          /\ todo = build.todo /\ todo # << >> /\ S = Head(todo)
          /\ derived' = derived \cup S /\ build'.todo = Tail(todo)
    BY <1>1, <1>5 DEF WriteEdges, Idle
  <2>2. Causal(derived \cup S, derived \cup S)
    BY <2>1 DEF CausesOK, Causal
  <2>3. CASE Len(todo) = 1
    <3>1. Tail(todo) = << >>
      BY <2>1, <2>3, TailIs
    <3>2. Causal(derived', derived') /\ build'.todo = << >>
      BY <2>1, <2>2, <3>1
    <3> QED BY <3>2, ShortCauses
  <2>4. CASE Len(todo) = 2
    <3>1. /\ Tail(todo) \in Seq(SUBSET Edge) /\ Len(Tail(todo)) = 1
          /\ Tail(todo)[1] = todo[2]
      BY <2>1, <2>4, TailIs
    <3>2. Causal(todo[2], derived \cup S)
      BY <2>1, <2>4 DEF CausesOK
    <3>3. Causal(todo[2], derived \cup S \cup todo[2])
      BY <3>2 DEF Causal
    <3>4. Causal(derived', derived') /\ derived' = derived \cup S
      BY <2>1, <2>2
    <3>5. PICK rest \in Seq(SUBSET Edge) : rest = build'.todo /\ rest = Tail(todo)
      BY <2>1, <3>1
    <3>6. rest # << >> /\ Len(rest) = 1 /\ rest[1] = todo[2]
      <4>1. Len(rest) = 1 /\ rest[1] = todo[2]
        BY <3>1, <3>5
      <4>2. rest # << >>
        <5>1. Len(<< >>) = 0 /\ 0 # 1
          BY EmptySeq
        <5> QED BY <4>1, <5>1, Zenon
      <4> QED BY <4>1, <4>2
    <3>7. Head(rest) = todo[2]
      BY <3>6, TailIs
    <3>8. Causal(Head(rest), derived' \cup Head(rest)) /\ build'.todo = rest
      BY <3>3, <3>4, <3>5, <3>7
    <3> QED BY <3>4, <3>6, <3>8, ShortCauses
  <2>5. Len(todo) \in {1, 2}
    <3>1. Len(todo) <= 2
      BY <2>1 DEF CausesOK
    <3>2. Len(todo) \in Nat \ {0}
      BY <2>1, TailIs
    <3> DEFINE n == Len(todo)
    <3>3. n <= 2 /\ n \in Nat \ {0}
      BY <3>1, <3>2
    <3> HIDE DEF n
    <3>4. n = 1 \/ n = 2
      BY <3>3
    <3> QED BY <3>4 DEF n
  <2> QED BY <2>3, <2>4, <2>5
<1>6. CASE \E place \in Locations \cup {None}, sourced, causes \in BOOLEAN :
             BuildEventRelations(place, sourced, causes)
  <2>1. PICK place \in Locations \cup {None}, sourced \in BOOLEAN, causes \in BOOLEAN :
          BuildEventRelations(place, sourced, causes)
    BY <1>6
  <2>2. PICK order \in InOrder(Rows(place, sourced)), more \in SUBSET Edge :
          /\ build'.todo = Plan(Pairs("NEXT_EVENT", order), more)
          /\ more \subseteq Pairs("CAUSES", order)
          /\ Pairs("NEXT_EVENT", order) \subseteq Edge
    BY <2>1, RelationsPlanned
  <2>3. derived' = derived
    BY <2>1, RelationsPlanned
  <2>4. PICK nexts \in SUBSET Edge : nexts = Pairs("NEXT_EVENT", order)
    BY <2>2
  <2>5. Causal(more, nexts)
    BY <2>2, <2>4, CausesArePairs DEF Causal
  <2>6. Causal(nexts, derived \cup nexts)
    <3>1. \A edge \in nexts : edge[1] = "NEXT_EVENT"
      BY <2>4, PairIs
    <3> QED BY <3>1 DEF Causal
  <2>7. PICK todo \in Seq(SUBSET Edge) :
          /\ todo = build'.todo
          /\ todo # << >> => Head(todo) = nexts /\ Len(todo) \in {1, 2}
          /\ Len(todo) = 2 => todo[2] = more
    BY <2>2, <2>4, Planning
  <2>8. Causal(derived, derived) /\ Causal(more, derived \cup nexts)
    BY <2>5 DEF CausesOK, Causal
  <2>9. Causal(derived', derived')
    BY <2>3, <2>8
  <2>10. CASE todo = << >>
    BY <2>7, <2>9, <2>10, ShortCauses
  <2>11. CASE todo # << >>
    <3>1. Head(todo) = nexts /\ Len(todo) \in {1, 2} /\ (Len(todo) = 2 => todo[2] = more)
      BY <2>7, <2>11
    <3>2. /\ Causal(Head(todo), derived' \cup Head(todo))
          /\ Len(todo) = 2 => Causal(todo[2], derived' \cup Head(todo))
      BY <2>3, <2>6, <2>8, <3>1
    <3> QED BY <2>7, <2>9, <3>1, <3>2, ShortCauses
  <2> QED BY <2>10, <2>11
<1>7. CASE \E modes \in SUBSET Modes, w \in Widths : BuildTimeSlices(modes, w)
  <2>1. PICK covers : /\ build'.todo = <<covers>>
                      /\ \A edge \in covers : edge[1] = "COVERS_SEGMENT"
    BY <1>7, SlicesAdd
  <2>2. derived' = derived
    BY <1>7 DEF BuildTimeSlices
  <2>3. Len(<<covers>>) = 1 /\ Head(<<covers>>) = covers
    OBVIOUS
  <2>4. Causal(covers, derived \cup covers)
    BY <2>1 DEF Causal
  <2>5. build'.todo = <<covers>> /\ Causal(derived, derived)
    BY <2>1 DEF CausesOK
  <2> QED BY <2>2, <2>3, <2>4, <2>5, ShortCauses
<1>8. \/ \E ns : EventsWritten(ns) /\ derived' = derived
      \/ UNCHANGED <<build, derived>>
      \/ \E place \in Locations \cup {None}, sourced, causes \in BOOLEAN :
           BuildEventRelations(place, sourced, causes)
      \/ \E modes \in SUBSET Modes, w \in Widths : BuildTimeSlices(modes, w)
      \/ WriteEdges \/ BuildFails
  BY Steps DEF Upsert, SetPublished, TimePasses, BeginExport, ExportPage, upkeepVars
<1> QED BY <1>2, <1>3, <1>4, <1>5, <1>6, <1>7, <1>8

\* Of three finite sets, the triples are finitely many.
LEMMA FewTriples ==
  ASSUME NEW A, NEW B, NEW C, IsFiniteSet(A), IsFiniteSet(B), IsFiniteSet(C)
  PROVE  IsFiniteSet(A \X B \X C)
<1> DEFINE S == A \X (B \X C)
           T == A \X B \X C
           f == [p \in S |-> <<p[1], p[2][1], p[2][2]>>]
<1>1. IsFiniteSet(S)
  <2>1. IsFiniteSet(B \X C)
    BY FS_Product
  <2> QED BY <2>1, FS_Product
<1>2. f \in [S -> T]
  OBVIOUS
<1>3. ASSUME NEW t \in T PROVE \E p \in S : f[p] = t
  <2>1. <<t[1], <<t[2], t[3]>>>> \in S
    OBVIOUS
  <2>2. f[<<t[1], <<t[2], t[3]>>>>] = t
    BY <2>1
  <2> QED BY <2>1, <2>2
<1>4. f \in Surjection(S, T)
  BY <1>2, <1>3 DEF Surjection
<1> HIDE DEF S, T, f
<1>5. IsFiniteSet(T)
  BY <1>1, <1>4, FS_Surjection
<1> QED BY <1>5 DEF T

LEMMA FewRows ==
  ASSUME derived \subseteq Edge, NEW place, NEW sourced
  PROVE  Cardinality(Rows(place, sourced)) \in Nat
<1> DEFINE T == Events \X (Segments \cup {None}) \X (Locations \cup {None})
<1>1. IsFiniteSet(T)
  <2>1. IsFiniteSet(Segments \cup {None}) /\ IsFiniteSet(Locations \cup {None})
    BY UpkeepAssumption, FS_AddElement
  <2> QED BY <2>1, UpkeepAssumption, FewTriples
<1>2. \A e \in Events :
        To("SUMMARIZES", e) \subseteq Segments /\ To("OCCURS_AT", e) \subseteq Locations
  <2>1. ASSUME NEW edge \in Edges
        PROVE  /\ edge[1] = "SUMMARIZES" => edge[3] \in Segments
               /\ edge[1] = "OCCURS_AT" => edge[3] \in Locations
    <3>1. edge \in Edge
      BY EdgesTyped
    <3>2. <<edge[2], edge[3]>> \in Labels[edge[1]]
      BY <3>1 DEF Edge
    <3>3. Labels["SUMMARIZES"] = Events \X Segments /\ Labels["OCCURS_AT"] = Events \X Locations
      BY DEF Labels
    <3> QED BY <3>2, <3>3
  <2> QED BY <2>1 DEF To
<1>3. Rows(place, sourced) \subseteq T
  <2> SUFFICES ASSUME NEW row \in Rows(place, sourced) PROVE row \in T
    OBVIOUS
  <2>1. PICK e \in {e \in Events : Shown(e)} :
          row \in {e} \X OrNone(To("SUMMARIZES", e)) \X OrNone(To("OCCURS_AT", e))
    BY Zenon DEF Rows
  <2>2. /\ OrNone(To("SUMMARIZES", e)) \subseteq Segments \cup {None}
        /\ OrNone(To("OCCURS_AT", e)) \subseteq Locations \cup {None}
    BY <1>2, <2>1 DEF OrNone
  <2> QED BY <2>1, <2>2
<1> HIDE DEF T
<1> QED BY <1>1, <1>3, FS_Subset, FS_CardinalityType

LEMMA EventHasRow ==
  ASSUME NEW e \in Events, Shown(e)
  PROVE  \E row \in Rows(None, FALSE) : row[1] = e
<1>1. PICK s, p : s \in OrNone(To("SUMMARIZES", e)) /\ p \in OrNone(To("OCCURS_AT", e))
  BY DEF OrNone
<1> DEFINE row == <<e, s, p>>
<1>2. row \in {e} \X OrNone(To("SUMMARIZES", e)) \X OrNone(To("OCCURS_AT", e))
  BY <1>1
<1>3. row \in Rows(None, FALSE)
  <2> HIDE DEF row
  <2>1. e \in {x \in Events : Shown(x)}
    OBVIOUS
  <2> QED BY <1>2, <2>1, Zenon DEF Rows
<1> QED BY <1>3

\* Of some numbers one is the least.
LEMMA Least ==
  ASSUME NEW T \in SUBSET Nat, T # {}
  PROVE  \E n \in T : \A m \in T : ~(m < n)
<1> DEFINE R == OpToRel(<, Nat)
<1>1. IsWellFoundedOn(R, Nat)
  BY NatLessThanWellFounded
<1>2. PICK n \in T : \A m \in T : ~ (<<m, n>> \in R)
  <2> HIDE DEF R
  <2> QED BY <1>1, WFMin
<1>3. \A m \in T : ~ (m < n)
  BY <1>2, Zenon DEF OpToRel
<1> QED BY <1>3

\* Where some places in a row have a mark, there is a first that has it.
LEMMA Crossing ==
  ASSUME NEW T, NEW i \in Nat, NEW j \in Nat, i < j, i \notin T, j \in T
  PROVE  \E k \in i .. j - 1 : k \notin T /\ k + 1 \in T
<1> DEFINE U == {k \in Nat : i < k /\ k \in T}
<1>1. U \in SUBSET Nat /\ U # {}
  OBVIOUS
<1>2. PICK n \in U : \A m \in U : ~(m < n)
  <2> HIDE DEF U
  <2> QED BY <1>1, Least
<1>3. n - 1 \in Nat /\ i <= n - 1 /\ n <= j
  BY <1>2
<1>4. n - 1 \notin T
  <2>1. CASE n - 1 = i
    BY <2>1
  <2>2. CASE n - 1 # i
    BY <1>2, <1>3, <2>2
  <2> QED BY <2>1, <2>2
<1>5. n - 1 + 1 = n /\ n - 1 \in i .. j - 1
  BY <1>3
<1> QED BY <1>2, <1>4, <1>5

Dated(e) == Shown(e) /\ body[e].at # 0
Adjacent(a, b) ==
  /\ Dated(a) /\ Dated(b) /\ body[a].at < body[b].at
  /\ \A c \in Events : Dated(c) => body[c].at <= body[a].at \/ body[c].at >= body[b].at
Joined(a, b, S) ==
  \E c, d \in Events : /\ Dated(c) /\ Dated(d) /\ <<"NEXT_EVENT", c, d>> \in S
                       /\ body[c].at = body[a].at /\ body[d].at = body[b].at
AllLinked(S) == \A a, b \in Events : Adjacent(a, b) => Joined(a, b, S)

\* If all events were read, those adjacent in time stand next to each other.
LEMMA OrderLinksAll ==
  ASSUME UpkeepTypeOK, NEW order \in InOrder(Rows(None, FALSE)), Len(order) <= RowLimit
  PROVE  AllLinked(Pairs("NEXT_EVENT", order))
<1> DEFINE N == Cardinality(Rows(None, FALSE))
<1>1. N \in Nat /\ DOMAIN order = 1 .. N /\ Len(order) = N
  <2>1. N \in Nat
    BY FewRows DEF UpkeepTypeOK
  <2>2. order \in [1 .. N -> Rows(None, FALSE)]
    BY DEF InOrder
  <2>3. ASSUME NEW R, NEW n \in Nat, NEW f \in [1 .. n -> R]
        PROVE  DOMAIN f = 1 .. n /\ Len(f) = n
    <3>1. f \in Seq(R)
      OBVIOUS
    <3> QED BY <3>1
  <2> HIDE DEF N
  <2> QED BY <2>1, <2>2, <2>3
<1>2. \A k \in 1 .. N : /\ order[k][1] \in Events /\ Shown(order[k][1])
                        /\ order[k][1] \in Nodes /\ body[order[k][1]].at \in Nat
  BY <1>1, OrderedRow, Inside, AtIsNat DEF UpkeepTypeOK, Shown
<1> HIDE DEF N
<1> SUFFICES ASSUME NEW a \in Events, NEW b \in Events, Adjacent(a, b)
             PROVE  Joined(a, b, Pairs("NEXT_EVENT", order))
  BY DEF AllLinked
<1>3. ASSUME NEW e \in Events, Shown(e) PROVE \E k \in 1 .. N : order[k][1] = e
  <2>1. PICK row \in Rows(None, FALSE) : row[1] = e
    BY <1>3, EventHasRow
  <2>2. PICK k \in DOMAIN order : order[k] = row
    BY <2>1 DEF InOrder
  <2> QED BY <1>1, <2>1, <2>2
<1>4. PICK i \in 1 .. N : order[i][1] = a
  BY <1>3 DEF Adjacent, Dated
<1>5. PICK j \in 1 .. N : order[j][1] = b
  BY <1>3 DEF Adjacent, Dated
<1> DEFINE At(k) == body[order[k][1]].at
           T == {k \in 1 .. N : At(k) # 0 /\ At(k) >= At(j)}
<1>6. /\ At(i) = body[a].at /\ At(j) = body[b].at /\ At(i) # 0 /\ At(j) # 0 /\ At(i) < At(j)
      /\ \A k \in 1 .. N : At(k) \in Nat
  BY <1>2, <1>4, <1>5 DEF Adjacent, Dated
<1>7. \A k, m \in 1 .. N : k < m /\ At(m) # 0 => At(k) # 0 /\ At(k) <= At(m)
  BY <1>1, Sorted DEF UpkeepTypeOK
<1> HIDE DEF At
<1>8. i < j /\ i \notin T /\ j \in T
  BY <1>4, <1>5, <1>6, <1>7
<1>9. PICK k \in i .. j - 1 : k \notin T /\ k + 1 \in T
  <2> HIDE DEF T
  <2> QED BY <1>8, Crossing
<1>10. k \in 1 .. N /\ k + 1 \in 1 .. N /\ k < j
  <2>1. i \in Nat /\ i >= 1 /\ j \in Nat /\ j <= N /\ k \in i .. j - 1
    BY <1>1, <1>4, <1>5, <1>9
  <2> QED BY <1>1, <2>1
<1>11. At(k) # 0 /\ At(k) < At(j) /\ At(i) <= At(k)
  <2>1. At(k) # 0
    BY <1>6, <1>7, <1>10
  <2>2. At(k) < At(j)
    BY <1>6, <1>9, <1>10, <2>1
  <2>3. At(i) <= At(k)
    BY <1>6, <1>7, <1>9, <1>10, <2>1
  <2> QED BY <2>1, <2>2, <2>3
<1>12. At(k + 1) # 0 /\ At(k + 1) = At(j)
  <2>1. At(k + 1) # 0 /\ At(k + 1) >= At(j)
    BY <1>9
  <2>2. At(k + 1) <= At(j)
    <3>1. CASE k + 1 = j
      BY <1>6, <3>1
    <3>2. CASE k + 1 # j
      BY <1>6, <1>7, <1>9, <1>10, <3>2
    <3> QED BY <3>1, <3>2
  <2> QED BY <1>6, <1>10, <2>1, <2>2
<1> DEFINE c == order[k][1]
           d == order[k + 1][1]
<1>13. /\ c \in Events /\ d \in Events /\ Dated(c) /\ Dated(d)
       /\ body[c].at = At(k) /\ body[d].at = At(k + 1)
  BY <1>2, <1>10, <1>11, <1>12 DEF Dated, At
<1>14. body[c].at = body[a].at /\ body[d].at = body[b].at
  <2>1. body[c].at <= body[a].at \/ body[c].at >= body[b].at
    BY <1>13 DEF Adjacent
  <2>2. At(k) <= At(i) \/ At(k) >= At(j)
    BY <1>6, <1>13, <2>1
  <2>3. At(k) \in Nat /\ At(i) \in Nat /\ At(j) \in Nat
    BY <1>4, <1>5, <1>6, <1>10
  <2>4. At(k) = At(i)
    BY <1>11, <2>2, <2>3
  <2> QED BY <1>6, <1>12, <1>13, <2>4
<1>15. <<"NEXT_EVENT", c, d>> \in Pairs("NEXT_EVENT", order)
  <2>1. k \in Taken(order) /\ k + 1 \in Taken(order)
    <3>1. N \in Nat /\ N <= RowLimit /\ RowLimit \in Nat
      BY <1>1, UpkeepAssumption
    <3>2. k <= RowLimit /\ k + 1 <= RowLimit
      BY <1>10, <3>1
    <3> QED BY <1>1, <1>10, <1>11, <1>12, <3>2 DEF Taken, At
  <2> QED BY <2>1 DEF Pairs
<1> HIDE DEF c, d
<1> QED BY <1>13, <1>14, <1>15 DEF Joined

LinkedOK ==
  /\ linked => AllLinked(derived)
  /\ build.all /\ build.todo # << >> => AllLinked(derived \cup Head(build.todo))

EventsSame ==
  \A e \in Events : (Dated(e)' <=> Dated(e)) /\ (Dated(e) => body'[e].at = body[e].at)

\* A write of an event makes the record of the links void.
LEMMA EventsSteps ==
  ASSUME UpkeepTypeOK, [UpkeepNext]_upkeepVars
  PROVE  EventsSame \/ (linked' = FALSE /\ build'.all = FALSE)
<1>1. BodyOK /\ \A e \in Events : e \in Nodes /\ e \notin Slices
  BY Inside, Disjoint DEF UpkeepTypeOK
<1>2. build \in [todo : Seq(SUBSET Edge), all : BOOLEAN] /\ linked \in BOOLEAN
  BY DEF UpkeepTypeOK, BuildOK
<1>3. ASSUME NEW ns, EventsWritten(ns), ns \cap Events # {}
      PROVE  linked' = FALSE /\ build'.all = FALSE
  BY <1>2, <1>3 DEF EventsWritten
<1>4. CASE \A e \in Events : body'[e] = body[e]
  BY <1>4 DEF EventsSame, Dated, Shown, There
<1>5. CASE \E n \in Nodes, t \in Times, shown, own \in BOOLEAN : Upsert(n, t, shown, own)
  <2>1. PICK n \in Nodes, t \in Times, shown \in BOOLEAN, own \in BOOLEAN :
          Upsert(n, t, shown, own)
    BY <1>5
  <2>2. EventsWritten({n})
    BY <2>1 DEF Upsert
  <2>3. CASE n \in Events
    BY <1>3, <2>2, <2>3
  <2>4. CASE n \notin Events
    BY <1>1, <1>4, <2>1, <2>4, UpsertBody
  <2> QED BY <2>3, <2>4
<1>6. CASE \E n \in Nodes, shown \in BOOLEAN : SetPublished({n}, shown)
  <2>1. PICK n \in Nodes, shown \in BOOLEAN : SetPublished({n}, shown)
    BY <1>6
  <2>2. EventsWritten({n})
    BY <2>1 DEF SetPublished
  <2>3. CASE n \in Events
    BY <1>3, <2>2, <2>3
  <2>4. CASE n \notin Events
    <3>1. \A m \in Nodes : m \notin {n} => body'[m] = body[m]
      BY <1>1, <2>1, PublishBody
    <3> QED BY <1>1, <1>4, <2>4, <3>1
  <2> QED BY <2>3, <2>4
<1>7. CASE \E n \in Nodes : TimePasses(n)
  BY <1>1, <1>7, AgeBody DEF EventsSame, Dated, Shown
<1>8. CASE \E modes \in SUBSET Modes, w \in Widths : BuildTimeSlices(modes, w)
  BY <1>1, <1>4, <1>8, SliceBody
<1>9. \/ \E n \in Nodes, t \in Times, shown, own \in BOOLEAN : Upsert(n, t, shown, own)
      \/ \E n \in Nodes, shown \in BOOLEAN : SetPublished({n}, shown)
      \/ \E n \in Nodes : TimePasses(n)
      \/ \E modes \in SUBSET Modes, w \in Widths : BuildTimeSlices(modes, w)
      \/ \A e \in Events : body'[e] = body[e]
  BY Steps DEF BuildEventRelations, WriteEdges, BuildFails, BeginExport, ExportPage, upkeepVars
<1> QED BY <1>4, <1>5, <1>6, <1>7, <1>8, <1>9

LEMMA LinksStay ==
  ASSUME NEW S, NEW T, S \subseteq T, EventsSame, AllLinked(S)
  PROVE  AllLinked(T)'
<1>1. \A a, b \in Events : Adjacent(a, b)' <=> Adjacent(a, b)
  BY DEF EventsSame, Adjacent
<1>2. ASSUME NEW a \in Events, NEW b \in Events, Adjacent(a, b)'
      PROVE  Joined(a, b, T)'
  <2>1. Adjacent(a, b)
    BY <1>1, <1>2
  <2>2. PICK c \in Events, d \in Events :
          /\ Dated(c) /\ Dated(d) /\ <<"NEXT_EVENT", c, d>> \in S
          /\ body[c].at = body[a].at /\ body[d].at = body[b].at
    BY <2>1 DEF AllLinked, Joined
  <2>3. Dated(a) /\ Dated(b)
    BY <2>1 DEF Adjacent
  <2> QED BY <2>2, <2>3 DEF EventsSame, Joined
<1> QED BY <1>2 DEF AllLinked

LEMMA LinkedSteps ==
  ASSUME UpkeepTypeOK, LinkedOK, [UpkeepNext]_upkeepVars
  PROVE  LinkedOK'
<1>1. build \in [todo : Seq(SUBSET Edge), all : BOOLEAN] /\ linked \in BOOLEAN
  BY DEF UpkeepTypeOK, BuildOK
<1>2. ASSUME NEW S, NEW H, S = derived', H = Head(build'.todo),
             linked' => AllLinked(S)',
             build'.all /\ build'.todo # << >> => AllLinked(S \cup H)'
      PROVE  LinkedOK'
  <2>1. linked' => AllLinked(derived)'
    BY <1>2 DEF AllLinked
  <2>2. PICK W : W = S \cup H
    OBVIOUS
  <2>3. W = derived' \cup Head(build'.todo)
    BY <1>2, <2>2
  <2>4. build'.all /\ build'.todo # << >> => AllLinked(W)'
    BY <1>2, <2>2
  <2>5. build'.all /\ build'.todo # << >> => AllLinked(derived \cup Head(build.todo))'
    BY <2>3, <2>4 DEF AllLinked
  <2> QED BY <2>1, <2>5 DEF LinkedOK
<1>3. CASE linked' = FALSE /\ build'.all = FALSE
  BY <1>3 DEF LinkedOK
<1>4. CASE EventsSame
  <2>1. ASSUME derived' = derived, build'.todo = build.todo,
               build'.all => build.all, linked' => linked
        PROVE  LinkedOK'
    <3>1. PICK todo \in Seq(SUBSET Edge), D \in SUBSET Edge : todo = build.todo /\ D = derived
      BY <1>1 DEF UpkeepTypeOK
    <3>2. linked' => AllLinked(D)'
      BY <1>4, <2>1, <3>1, LinksStay DEF LinkedOK
    <3>3. PICK H : H = Head(todo)
      OBVIOUS
    <3>4. build'.all /\ todo # << >> => AllLinked(D \cup H)
      BY <2>1, <3>1, <3>3 DEF LinkedOK
    <3>5. build'.all /\ todo # << >> => AllLinked(D \cup H)'
      BY <1>4, <3>4, LinksStay
    <3> QED BY <2>1, <3>1, <3>2, <3>3, <3>5, <1>2
  <2>2. CASE \E ns : EventsWritten(ns) /\ derived' = derived
    BY <1>1, <2>1, <2>2 DEF EventsWritten
  <2>3. CASE UNCHANGED <<build, derived, linked>>
    BY <2>1, <2>3
  <2>4. CASE BuildFails
    <3>1. build'.all = FALSE /\ derived' = derived /\ linked' = linked
      BY <2>4 DEF BuildFails, NoBuild
    <3>2. PICK D, H : D = derived /\ H = Head(build'.todo)
      OBVIOUS
    <3>3. linked' => AllLinked(D)'
      BY <1>4, <3>1, <3>2, LinksStay DEF LinkedOK
    <3> QED BY <1>2, <3>1, <3>2, <3>3
  <2>5. CASE WriteEdges
    <3>1. PICK todo \in Seq(SUBSET Edge), D \in SUBSET Edge, S \in SUBSET Edge :
            /\ todo = build.todo /\ todo # << >> /\ D = derived /\ S = Head(todo)
            /\ derived' = D \cup S /\ build'.todo = Tail(todo)
      BY <1>1, <2>5 DEF WriteEdges, Idle, UpkeepTypeOK
    <3>2. (build'.all <=> build.all) /\ (linked' <=> linked \/ build.all)
      BY <1>1, <2>5 DEF WriteEdges
    <3>3. linked' => AllLinked(D \cup S)'
      <4>1. linked => AllLinked(D)
        BY <3>1 DEF LinkedOK
      <4>2. build.all => AllLinked(D \cup S)
        BY <3>1 DEF LinkedOK
      <4>3. linked => AllLinked(D \cup S)'
        BY <1>4, <4>1, LinksStay
      <4>4. build.all => AllLinked(D \cup S)'
        BY <1>4, <4>2, LinksStay
      <4> QED BY <3>2, <4>3, <4>4
    <3>4. PICK T, H : T = D \cup S /\ H = Head(build'.todo)
      OBVIOUS
    <3>5. build'.all => AllLinked(T \cup H)'
      <4>1. build'.all => AllLinked(D \cup S)
        BY <3>1, <3>2 DEF LinkedOK
      <4>2. D \cup S \subseteq T \cup H
        BY <3>4
      <4> QED BY <1>4, <4>1, <4>2, LinksStay
    <3>6. T = derived' /\ (linked' => AllLinked(T)')
      BY <3>1, <3>3, <3>4
    <3> QED BY <1>2, <3>4, <3>5, <3>6
  <2>6. CASE \E place \in Locations \cup {None}, sourced, causes \in BOOLEAN :
               BuildEventRelations(place, sourced, causes)
    <3>1. PICK place \in Locations \cup {None}, sourced \in BOOLEAN, causes \in BOOLEAN :
            BuildEventRelations(place, sourced, causes)
      BY <2>6
    <3>2. derived' = derived /\ linked' = linked
      BY <3>1, RelationsPlanned
    <3>3. PICK order \in InOrder(Rows(place, sourced)), more \in SUBSET Edge :
            /\ build'.todo = Plan(Pairs("NEXT_EVENT", order), more)
            /\ build'.all <=> place = None /\ ~sourced /\ Len(order) <= RowLimit
            /\ build' \in [todo : Seq(SUBSET Edge), all : BOOLEAN]
            /\ more \subseteq Pairs("CAUSES", order)
            /\ Pairs("NEXT_EVENT", order) \subseteq Edge
      BY <3>1, RelationsPlanned
    <3>4. PICK nexts \in SUBSET Edge, D \in SUBSET Edge :
            nexts = Pairs("NEXT_EVENT", order) /\ D = derived
      BY <3>3 DEF UpkeepTypeOK
    <3>5. PICK todo \in Seq(SUBSET Edge) :
            todo = build'.todo /\ (todo # << >> => Head(todo) = nexts)
      BY <3>3, <3>4, Planning
    <3>6. build'.all => AllLinked(nexts)
      <4>1. ASSUME build'.all
            PROVE  order \in InOrder(Rows(None, FALSE)) /\ Len(order) <= RowLimit
        <5>1. place = None /\ sourced = FALSE
          BY <3>3, <4>1
        <5> QED BY <3>3, <4>1, <5>1
      <4> QED BY <3>4, <4>1, OrderLinksAll
    <3>7. build'.all => AllLinked(D \cup nexts)'
      BY <1>4, <3>6, LinksStay
    <3>8. linked' => AllLinked(D)'
      BY <1>4, <3>2, <3>4, LinksStay DEF LinkedOK
    <3>9. PICK H : H = Head(todo) /\ (todo # << >> => H = nexts)
      BY <3>5
    <3>10. build'.all /\ build'.todo # << >> => AllLinked(D \cup H)'
      BY <3>5, <3>7, <3>9
    <3> QED BY <1>2, <3>2, <3>4, <3>5, <3>8, <3>9, <3>10
  <2>7. CASE \E modes \in SUBSET Modes, w \in Widths : BuildTimeSlices(modes, w)
    <3>1. build'.all = FALSE /\ derived' = derived /\ linked' = linked
      BY <2>7 DEF BuildTimeSlices
    <3>2. PICK D \in SUBSET Edge : D = derived
      BY DEF UpkeepTypeOK
    <3>3. linked' => AllLinked(D)'
      BY <1>4, <3>1, <3>2, LinksStay DEF LinkedOK
    <3>4. PICK H : H = Head(build'.todo)
      OBVIOUS
    <3> QED BY <1>2, <3>1, <3>2, <3>3, <3>4
  <2>8. \/ \E ns : EventsWritten(ns) /\ derived' = derived
        \/ UNCHANGED <<build, derived, linked>>
        \/ \E place \in Locations \cup {None}, sourced, causes \in BOOLEAN :
             BuildEventRelations(place, sourced, causes)
        \/ \E modes \in SUBSET Modes, w \in Widths : BuildTimeSlices(modes, w)
        \/ WriteEdges \/ BuildFails
    BY Steps DEF Upsert, SetPublished, TimePasses, BeginExport, ExportPage, upkeepVars
  <2> QED BY <2>2, <2>3, <2>4, <2>5, <2>6, <2>7, <2>8
<1> QED BY <1>3, <1>4, EventsSteps

\* Whatever is rewritten between and during the builds: the links between
\* events follow their time, causes are adjacent, and after a build of all
\* events those adjacent in time are linked.
THEOREM LinksFollowTime == UpkeepSpec => []LinksKeepTime
<1> DEFINE Inv == UpkeepTypeOK /\ TimesOK /\ CausesOK /\ LinkedOK
<1>1. UpkeepInit => Inv
  <2>1. ASSUME UpkeepInit PROVE TimesOK /\ CausesOK /\ LinkedOK
    <3>1. /\ Coming = {} /\ derived = {} /\ build.todo = << >> /\ build.all = FALSE
          /\ linked = FALSE
      BY <2>1 DEF UpkeepInit, Coming, NoBuild
    <3>2. TimesOK /\ LinkedOK
      BY <3>1 DEF TimesOK, LinkedOK
    <3>3. Len(<< >>) = 0
      OBVIOUS
    <3>4. CausesOK
      BY <3>1, <3>3 DEF CausesOK, Causal
    <3> QED BY <3>2, <3>4
  <2> QED BY <2>1, UpkeepStart
<1>2. Inv /\ [UpkeepNext]_upkeepVars => Inv'
  BY UpkeepTypes, TimesSteps, CausesSteps, LinkedSteps
<1>3. Inv => LinksKeepTime
  <2> SUFFICES ASSUME Inv PROVE LinksKeepTime
    OBVIOUS
  <2>1. \A a, b \in Events \ moved : <<"NEXT_EVENT", a, b>> \in derived =>
          body[a].at # 0 /\ body[b].at # 0 /\ body[a].at <= body[b].at
    BY DEF TimesOK, Coming
  <2>2. \A a, b \in Events :
          <<"CAUSES", a, b>> \in derived => <<"NEXT_EVENT", a, b>> \in derived
    BY DEF CausesOK, Causal
  <2> DEFINE dated == {e \in Events : Shown(e) /\ body[e].at # 0}
             At(t) == {e \in dated : body[e].at = t}
  <2>3. linked =>
          \A a, b \in dated :
             body[a].at < body[b].at
               /\ (\A c \in dated : body[c].at <= body[a].at \/ body[c].at >= body[b].at)
             => \E c \in At(body[a].at), d \in At(body[b].at) :
                  <<"NEXT_EVENT", c, d>> \in derived
    <3>1. ASSUME linked, NEW a \in dated, NEW b \in dated, body[a].at < body[b].at,
                 \A c \in dated : body[c].at <= body[a].at \/ body[c].at >= body[b].at
          PROVE  \E c \in At(body[a].at), d \in At(body[b].at) :
                   <<"NEXT_EVENT", c, d>> \in derived
      <4>1. Adjacent(a, b)
        BY <3>1 DEF Adjacent, Dated
      <4>2. PICK c \in Events, d \in Events :
              /\ Dated(c) /\ Dated(d) /\ <<"NEXT_EVENT", c, d>> \in derived
              /\ body[c].at = body[a].at /\ body[d].at = body[b].at
        <5>1. AllLinked(derived) /\ a \in Events /\ b \in Events
          BY <3>1 DEF LinkedOK
        <5>2. Joined(a, b, derived)
          BY <4>1, <5>1 DEF AllLinked
        <5> QED BY <5>2 DEF Joined
      <4>3. c \in At(body[a].at) /\ d \in At(body[b].at)
        BY <4>2 DEF Dated
      <4> HIDE DEF dated, At
      <4> QED BY <4>2, <4>3
    <3> HIDE DEF dated, At
    <3> QED BY <3>1
  <2> QED BY <2>1, <2>2, <2>3, Zenon DEF LinksKeepTime
<1> QED BY <1>1, <1>2, <1>3, PTL DEF UpkeepSpec

-----------------------------------------------------------------------------
(* The reads.                                                              *)

Leads(type, n, m) == <<type, n, m>> \in Edges

LEMMA LeadsIs ==
  ASSUME UpkeepTypeOK, NEW type, NEW n, NEW m
  PROVE  /\ m \in To(type, n) <=> Leads(type, n, m)
         /\ m \in From(type, n) <=> Leads(type, m, n)
         /\ Leads(type, n, m) =>
              n \in Nodes /\ m \in Nodes /\ type \in DOMAIN Labels /\ <<n, m>> \in Labels[type]
<1>1. ASSUME NEW edge \in Edges
      PROVE  /\ edge = <<edge[1], edge[2], edge[3]>>
             /\ edge[2] \in Nodes /\ edge[3] \in Nodes /\ edge[1] \in DOMAIN Labels
             /\ <<edge[2], edge[3]>> \in Labels[edge[1]]
  <2>1. edge \in Edge
    BY EdgesTyped DEF UpkeepTypeOK
  <2> QED BY <2>1 DEF Edge
<1>2. m \in To(type, n) <=> Leads(type, n, m)
  BY <1>1 DEF To, Leads
<1>3. m \in From(type, n) <=> Leads(type, m, n)
  BY <1>1 DEF From, Leads
<1>4. Leads(type, n, m) =>
        n \in Nodes /\ m \in Nodes /\ type \in DOMAIN Labels /\ <<n, m>> \in Labels[type]
  <2> SUFFICES ASSUME Leads(type, n, m)
               PROVE  /\ n \in Nodes /\ m \in Nodes /\ type \in DOMAIN Labels
                      /\ <<n, m>> \in Labels[type]
    OBVIOUS
  <2>1. PICK edge \in Edges : edge = <<type, n, m>>
    BY DEF Leads
  <2>2. edge[1] = type /\ edge[2] = n /\ edge[3] = m
    BY <2>1
  <2>3. edge[2] \in Nodes /\ edge[3] \in Nodes /\ edge[1] \in DOMAIN Labels
        /\ <<edge[2], edge[3]>> \in Labels[edge[1]]
    BY <1>1
  <2> QED BY <2>2, <2>3
<1> QED BY <1>2, <1>3, <1>4

LEMMA KindsOfLeads ==
  ASSUME UpkeepTypeOK, NEW n, NEW m
  PROVE  /\ Leads("SUMMARIZES", n, m) => n \in Events /\ m \in Segments
         /\ Leads("INVOLVES", n, m) => n \in Events /\ m \in Entities
         /\ Leads("OCCURS_AT", n, m) => n \in Events /\ m \in Locations
         /\ Leads("NEXT_EVENT", n, m) => n \in Events /\ m \in Events
         /\ Leads("CAUSES", n, m) => n \in Events /\ m \in Events
         /\ Leads("SPOKEN_BY", n, m) => n \in Utterances /\ m \in Entities
         /\ Leads("BELONGS_TO_ENTITY", n, m) => n \in Evidences /\ m \in Entities
         /\ Leads("COVERS_SEGMENT", n, m) => m \in Segments
         /\ Leads("COVERS_EVENT", n, m) => n \in Spans /\ m \in Events
         /\ Leads("DERIVED_FROM", n, m) => n \in Facts /\ m \in Events
         /\ Leads("STATED_BY", n, m) => n \in Facts /\ m \in Entities
<1>1. /\ Labels["SUMMARIZES"] = Events \X Segments /\ Labels["INVOLVES"] = Events \X Entities
      /\ Labels["OCCURS_AT"] = Events \X Locations /\ Labels["NEXT_EVENT"] = Events \X Events
      /\ Labels["CAUSES"] = Events \X Events /\ Labels["SPOKEN_BY"] = Utterances \X Entities
      /\ Labels["BELONGS_TO_ENTITY"] = Evidences \X Entities
      /\ Labels["COVERS_SEGMENT"] = (Spans \cup Slices) \X Segments
      /\ Labels["COVERS_EVENT"] = Spans \X Events /\ Labels["DERIVED_FROM"] = Facts \X Events
      /\ Labels["STATED_BY"] = Facts \X Entities
  BY DEF Labels
<1>2. \A type : Leads(type, n, m) => <<n, m>> \in Labels[type]
  BY LeadsIs
<1> QED BY <1>1, <1>2

LEMMA DetailHas ==
  ASSUME UpkeepTypeOK, NEW e, NEW x
  PROVE  x \in EventDetail(e) <=>
           /\ Seen(e)
           /\ \/ x = e
              \/ Seen(x) /\ (Leads("SUMMARIZES", e, x) \/ Leads("COVERS_EVENT", x, e))
              \/ Shown(x) /\ \/ Leads("INVOLVES", e, x) \/ Leads("OCCURS_AT", e, x)
                             \/ Leads("SUPPORTED_BY", e, x) /\ x \in Evidences
                             \/ Leads("NEXT_EVENT", e, x) \/ Leads("CAUSES", e, x)
BY LeadsIs, Zenon DEF EventDetail, SeenOf, ShownOf

\* The utterances and the facts of an event, as its chain names them.
Uttered(e, u) == Leads("SUPPORTED_BY", e, u) /\ u \in Utterances /\ Seen(u)
Derived(e, k) == Leads("DERIVED_FROM", k, e) /\ Seen(k)

LEMMA ChainHas ==
  ASSUME UpkeepTypeOK, NEW e, NEW x
  PROVE  x \in EventEvidence(e) <=>
           /\ Seen(e)
           /\ \/ x = e \/ Uttered(e, x) \/ Derived(e, x)
              \/ Shown(x) /\ Leads("INVOLVES", e, x)
              \/ Seen(x) /\ \/ Leads("OCCURS_AT", e, x) \/ Leads("COVERS_EVENT", x, e)
                            \/ Leads("SUPPORTED_BY", e, x) /\ x \in Evidences
              \/ Seen(x) /\ x \in Evidences /\ \E u : Uttered(e, u) /\ Leads("SUPPORTED_BY", u, x)
              \/ Shown(x) /\ \E k : Derived(e, k) /\ Leads("STATED_BY", k, x)
              \/ /\ Shown(x) /\ x \in Utterances
                 /\ \E k : Derived(e, k) /\ Leads("SUPPORTED_BY", k, x)
<1> DEFINE utterances == SeenOf(To("SUPPORTED_BY", e) \cap Utterances)
           facts      == SeenOf(From("DERIVED_FROM", e))
           voices     == UNION {To("SUPPORTED_BY", u) \cap Evidences : u \in utterances}
           stating    == UNION {To("STATED_BY", k) : k \in facts}
           resting    == UNION {To("SUPPORTED_BY", k) \cap Utterances : k \in facts}
<1>0. \A type, n, m : /\ m \in To(type, n) <=> Leads(type, n, m)
                      /\ m \in From(type, n) <=> Leads(type, m, n)
  BY LeadsIs
<1>1. (\A u : u \in utterances <=> Uttered(e, u)) /\ \A k : k \in facts <=> Derived(e, k)
  BY LeadsIs DEF SeenOf, Uttered, Derived
<1> HIDE DEF utterances, facts
<1>2. x \in voices <=> x \in Evidences /\ \E u : Uttered(e, u) /\ Leads("SUPPORTED_BY", u, x)
  <2>1. x \in voices <=> \E u \in utterances : x \in To("SUPPORTED_BY", u) /\ x \in Evidences
    OBVIOUS
  <2> QED BY <2>1, <1>0, <1>1, Zenon
<1>3. x \in stating <=> \E k : Derived(e, k) /\ Leads("STATED_BY", k, x)
  <2>1. x \in stating <=> \E k \in facts : x \in To("STATED_BY", k)
    OBVIOUS
  <2> QED BY <2>1, <1>0, <1>1, Zenon
<1>4. x \in resting <=> x \in Utterances /\ \E k : Derived(e, k) /\ Leads("SUPPORTED_BY", k, x)
  <2>1. x \in resting <=> \E k \in facts : x \in To("SUPPORTED_BY", k) /\ x \in Utterances
    OBVIOUS
  <2> QED BY <2>1, <1>0, <1>1, Zenon
<1> HIDE DEF voices, stating, resting
<1>5. EventEvidence(e) =
        IF ~Seen(e) THEN {}
        ELSE {e} \cup utterances \cup facts \cup ShownOf(To("INVOLVES", e))
               \cup SeenOf(To("OCCURS_AT", e) \cup (To("SUPPORTED_BY", e) \cap Evidences)
                           \cup From("COVERS_EVENT", e))
               \cup SeenOf(voices) \cup ShownOf(stating) \cup ShownOf(resting)
  BY Zenon DEF EventEvidence, utterances, facts, voices, stating, resting
<1>6. x \in EventEvidence(e) <=>
        /\ Seen(e)
        /\ \/ x = e \/ x \in utterances \/ x \in facts
           \/ Shown(x) /\ x \in To("INVOLVES", e)
           \/ Seen(x) /\ \/ x \in To("OCCURS_AT", e) \/ x \in From("COVERS_EVENT", e)
                         \/ x \in To("SUPPORTED_BY", e) /\ x \in Evidences
           \/ Seen(x) /\ x \in voices
           \/ Shown(x) /\ x \in stating
           \/ Shown(x) /\ x \in resting
  BY <1>5, Zenon DEF SeenOf, ShownOf
<1> QED BY <1>1, <1>2, <1>3, <1>4, <1>6, LeadsIs

LEMMA PlaceHas ==
  ASSUME UpkeepTypeOK, NEW p, NEW x
  PROVE  /\ x \in EventsAt(p) <=> Seen(x) /\ x \in Events /\ Leads("OCCURS_AT", x, p)
         /\ x \in Around(p) <=> Seen(x) /\ \E e \in EventsAt(p) :
                                  Leads("SUMMARIZES", e, x) \/ Leads("COVERS_EVENT", x, e)
         /\ x \in PlaceDetail(p) <=> Seen(p) /\ (x \in EventsAt(p) \/ x \in Around(p))
<1>0. \A type, k, m : /\ m \in To(type, k) <=> Leads(type, k, m)
                      /\ m \in From(type, k) <=> Leads(type, m, k)
  BY LeadsIs
<1>1. x \in EventsAt(p) <=> Seen(x) /\ x \in Events /\ Leads("OCCURS_AT", x, p)
  BY LeadsIs DEF EventsAt, SeenOf
<1>2. x \in Around(p) <=> Seen(x) /\ \E e \in EventsAt(p) :
                            Leads("SUMMARIZES", e, x) \/ Leads("COVERS_EVENT", x, e)
  <2>1. x \in Around(p) <=> Seen(x) /\ \E e \in EventsAt(p) :
          x \in To("SUMMARIZES", e) \/ x \in From("COVERS_EVENT", e)
    BY DEF Around, SeenOf
  <2> QED BY <1>0, <2>1, Zenon
<1>3. x \in PlaceDetail(p) <=> Seen(p) /\ (x \in EventsAt(p) \/ x \in Around(p))
  BY Zenon DEF PlaceDetail
<1> QED BY <1>1, <1>2, <1>3

LEMMA FactsHave ==
  ASSUME UpkeepTypeOK, NEW x, NEW y
  PROVE  y \in EntityFacts(x) <=>
           /\ Seen(y)
           /\ \/ Leads("STATED_BY", y, x)
              \/ /\ y \in Events
                 /\ \E k : Seen(k) /\ Leads("STATED_BY", k, x) /\ Leads("DERIVED_FROM", k, y)
<1> DEFINE facts == SeenOf(From("STATED_BY", x))
           rests == UNION {To("DERIVED_FROM", k) \cap Events : k \in facts}
<1>0. \A type, n, m : /\ m \in To(type, n) <=> Leads(type, n, m)
                      /\ m \in From(type, n) <=> Leads(type, m, n)
  BY LeadsIs
<1>1. \A k : k \in facts <=> Seen(k) /\ Leads("STATED_BY", k, x)
  BY LeadsIs DEF SeenOf
<1> HIDE DEF facts
<1>2. y \in rests <=> y \in Events /\ \E k : k \in facts /\ Leads("DERIVED_FROM", k, y)
  <2>1. y \in rests <=> \E k \in facts : y \in To("DERIVED_FROM", k) /\ y \in Events
    OBVIOUS
  <2> QED BY <2>1, <1>0, Zenon
<1> HIDE DEF rests
<1>3. EntityFacts(x) = facts \cup SeenOf(rests)
  BY Zenon DEF EntityFacts, facts, rests
<1> QED BY <1>1, <1>2, <1>3 DEF SeenOf

LEMMA OthersHave ==
  ASSUME UpkeepTypeOK, NEW n, NEW x
  PROVE  /\ x \in ListTimeSlices(n) <=>
              /\ Seen(n) /\ Seen(x)
              /\ Leads("COVERS_SEGMENT", n, x) \/ Leads("COVERS_EVENT", n, x)
         /\ x \in EntityEvidences(n) <=>
              Shown(n) /\ Seen(x) /\ Leads("BELONGS_TO_ENTITY", x, n)
         /\ x \in EntityTimeline(n) <=>
              /\ Shown(n) /\ Seen(x)
              /\ Leads("BELONGS_TO_ENTITY", x, n) \/ Leads("SPOKEN_BY", x, n)
         /\ x \in Neighbors(n, 1) <=> Shown(x) /\ \E type : Leads(type, n, x)
         /\ x \in Speakers(n) \/ x \in Neighbors(n, 2) => Shown(x) /\ \E type, m : Leads(type, m, x)
<1>0. \A type, k, m : /\ m \in To(type, k) <=> Leads(type, k, m)
                      /\ m \in From(type, k) <=> Leads(type, m, k)
  BY LeadsIs
<1>1. /\ x \in ListTimeSlices(n) <=>
              /\ Seen(n) /\ Seen(x)
              /\ Leads("COVERS_SEGMENT", n, x) \/ Leads("COVERS_EVENT", n, x)
      /\ x \in EntityEvidences(n) <=> Shown(n) /\ Seen(x) /\ Leads("BELONGS_TO_ENTITY", x, n)
      /\ x \in EntityTimeline(n) <=>
           /\ Shown(n) /\ Seen(x)
           /\ Leads("BELONGS_TO_ENTITY", x, n) \/ Leads("SPOKEN_BY", x, n)
  BY <1>0, Zenon DEF ListTimeSlices, EntityEvidences, EntityTimeline, SeenOf
<1>2. \A m, y : y \in Out(m) <=> \E type : Leads(type, m, y)
  <2>1. ASSUME NEW edge \in Edges PROVE edge = <<edge[1], edge[2], edge[3]>>
    <3>1. edge \in (DOMAIN Labels) \X Nodes \X Nodes
      BY EdgesTyped DEF UpkeepTypeOK, Edge
    <3> QED BY <3>1
  <2> QED BY <2>1 DEF Out, Leads
<1>3. x \in Neighbors(n, 1) <=> Shown(x) /\ x \in Out(n)
  BY DEF Neighbors, ShownOf
<1>4. x \in Neighbors(n, 2) => Shown(x) /\ \E m : x \in Out(m)
  BY DEF Neighbors, ShownOf
<1>5. x \in Speakers(n) => Shown(x) /\ \E m : Leads("SPOKEN_BY", m, x)
  BY LeadsIs DEF Speakers, ShownOf
<1> QED BY <1>1, <1>2, <1>3, <1>4, <1>5

LEMMA ShownNodes ==
  ASSUME UpkeepTypeOK, NEW e \in Nodes, NEW x
  PROVE  /\ x \in EventDetail(e) \/ x \in EventEvidence(e) => x \in Nodes /\ Shown(x)
         /\ x \in Speakers(e) \/ x \in Neighbors(e, 2) => x \in Nodes /\ Shown(x)
         /\ x \in EntityTimeline(e) \/ x \in EntityFacts(e) => x \in Nodes /\ Shown(x)
         /\ x \in PlaceDetail(e) => x \in Nodes /\ Shown(x)
<1>1. \A type, n, m : Leads(type, n, m) => n \in Nodes /\ m \in Nodes
  BY LeadsIs
<1>2. \A n : Seen(n) => Shown(n)
  BY DEF Seen
<1>3. x \in EventDetail(e) => x \in Nodes /\ Shown(x)
  BY <1>1, <1>2, DetailHas, Zenon
<1>4. x \in EventEvidence(e) => x \in Nodes /\ Shown(x)
  BY <1>1, <1>2, ChainHas DEF Uttered, Derived
<1>5. x \in Speakers(e) \/ x \in Neighbors(e, 2) => x \in Nodes /\ Shown(x)
  BY <1>1, OthersHave, Zenon
<1>6. x \in EntityTimeline(e) => x \in Nodes /\ Shown(x)
  BY <1>1, <1>2, OthersHave, Zenon
<1>7. x \in EntityFacts(e) => x \in Nodes /\ Shown(x)
  BY <1>1, <1>2, FactsHave, Zenon
<1>8. x \in PlaceDetail(e) => x \in Nodes /\ Shown(x)
  BY <1>1, <1>2, PlaceHas, Zenon
<1> QED BY <1>3, <1>4, <1>5, <1>6, <1>7, <1>8

\* What the answers about one event agree in.
LEMMA EventReads ==
  ASSUME UpkeepTypeOK, NEW e \in Events
  PROVE  /\ GetEvent(e) = ExplainEvent(e)
         /\ EventDetail(e) \cap Spans = EventEvidence(e) \cap Spans
         /\ EventDetail(e) \cap Entities \subseteq EventEvidence(e)
         /\ EventDetail(e) \ ({e} \cup Spans) \subseteq Neighbors(e, 1)
         /\ \A i \in Spans : e \in ListTimeSlices(i) <=> i \in EventDetail(e)
<1>1. GetEvent(e) = ExplainEvent(e)
  <2>1. EventDetail(e) = {} <=> ~Seen(e)
    BY DetailHas
  <2>2. EventEvidence(e) = {} <=> ~Seen(e)
    BY ChainHas
  <2> QED BY <2>1, <2>2 DEF GetEvent, ExplainEvent, Answered
<1>2. ASSUME NEW x \in Spans
      PROVE  x \in EventDetail(e) <=> Seen(e) /\ Seen(x) /\ Leads("COVERS_EVENT", x, e)
  <2>1. x # e /\ x \notin Segments /\ x \notin Entities /\ x \notin Locations
        /\ x \notin Evidences /\ x \notin Events
    BY <1>2, Disjoint
  <2>2. /\ ~Leads("SUMMARIZES", e, x) /\ ~Leads("INVOLVES", e, x) /\ ~Leads("OCCURS_AT", e, x)
        /\ ~Leads("NEXT_EVENT", e, x) /\ ~Leads("CAUSES", e, x)
    BY <2>1, KindsOfLeads
  <2> QED BY <2>1, <2>2, DetailHas, Zenon
<1>3. ASSUME NEW x \in Spans
      PROVE  x \in EventEvidence(e) <=> Seen(e) /\ Seen(x) /\ Leads("COVERS_EVENT", x, e)
  <2>1. x # e /\ x \notin Entities /\ x \notin Locations /\ x \notin Evidences
        /\ x \notin Utterances /\ x \notin Facts
    BY <1>3, Disjoint
  <2>2. /\ ~Leads("INVOLVES", e, x) /\ ~Leads("OCCURS_AT", e, x) /\ ~Leads("DERIVED_FROM", x, e)
        /\ \A k : ~Leads("STATED_BY", k, x)
    BY <2>1, KindsOfLeads
  <2> QED BY <2>1, <2>2, ChainHas, Zenon DEF Uttered, Derived
<1>4. ASSUME NEW x \in Entities, x \in EventDetail(e)
      PROVE  x \in EventEvidence(e)
  <2>1. x # e /\ x \notin Segments /\ x \notin Spans /\ x \notin Locations
        /\ x \notin Evidences /\ x \notin Events
    BY <1>4, Disjoint
  <2>2. /\ ~Leads("SUMMARIZES", e, x) /\ ~Leads("COVERS_EVENT", x, e) /\ ~Leads("OCCURS_AT", e, x)
        /\ ~Leads("NEXT_EVENT", e, x) /\ ~Leads("CAUSES", e, x)
    BY <2>1, KindsOfLeads
  <2>3. Seen(e) /\ Shown(x) /\ Leads("INVOLVES", e, x)
    BY <1>4, <2>1, <2>2, DetailHas, Zenon
  <2> QED BY <2>3, ChainHas, Zenon
<1>5. ASSUME NEW x, x \in EventDetail(e), x # e, x \notin Spans
      PROVE  x \in Neighbors(e, 1)
  <2>1. ~Leads("COVERS_EVENT", x, e)
    BY <1>5, KindsOfLeads
  <2>2. Shown(x) /\ \E type : Leads(type, e, x)
    BY <1>5, <2>1, DetailHas, Zenon DEF Seen
  <2> QED BY <2>2, OthersHave, Zenon
<1>6. ASSUME NEW i \in Spans
      PROVE  e \in ListTimeSlices(i) <=> i \in EventDetail(e)
  <2>1. ~Leads("COVERS_SEGMENT", i, e)
    BY Disjoint, KindsOfLeads
  <2>2. e \in ListTimeSlices(i) <=> Seen(i) /\ Seen(e) /\ Leads("COVERS_EVENT", i, e)
    BY <2>1, OthersHave, Zenon
  <2> QED BY <1>2, <2>2
<1> QED BY <1>1, <1>2, <1>3, <1>4, <1>5, <1>6

LEMMA PlaceReads ==
  ASSUME UpkeepTypeOK, NEW e \in Events, NEW p \in Locations
  PROVE  /\ e \in PlaceDetail(p) <=> Fresh(p) /\ p \in EventDetail(e)
         /\ e \in PlaceDetail(p) =>
              EventDetail(e) \cap (Spans \cup Segments) \subseteq PlaceDetail(p)
<1>1. p # e /\ p \notin Segments /\ p \notin Spans /\ p \notin Entities
      /\ p \notin Evidences /\ p \notin Events /\ e \notin Segments /\ e \notin Spans
  BY Disjoint
<1>2. e \in PlaceDetail(p) <=> Seen(p) /\ Seen(e) /\ Leads("OCCURS_AT", e, p)
  <2>1. \A a : ~Leads("SUMMARIZES", a, e) /\ ~Leads("COVERS_EVENT", e, a)
    BY <1>1, KindsOfLeads
  <2> QED BY <2>1, PlaceHas, Zenon
<1>3. p \in EventDetail(e) <=> Seen(e) /\ Shown(p) /\ Leads("OCCURS_AT", e, p)
  <2>1. /\ ~Leads("SUMMARIZES", e, p) /\ ~Leads("COVERS_EVENT", p, e) /\ ~Leads("INVOLVES", e, p)
        /\ ~Leads("NEXT_EVENT", e, p) /\ ~Leads("CAUSES", e, p)
    BY <1>1, KindsOfLeads
  <2> QED BY <1>1, <2>1, DetailHas, Zenon
<1>4. ASSUME e \in PlaceDetail(p), NEW x \in Spans \cup Segments, x \in EventDetail(e)
      PROVE  x \in PlaceDetail(p)
  <2>1. x # e /\ x \notin Entities /\ x \notin Locations /\ x \notin Evidences /\ x \notin Events
    BY <1>4, Disjoint
  <2>2. /\ ~Leads("INVOLVES", e, x) /\ ~Leads("OCCURS_AT", e, x)
        /\ ~Leads("NEXT_EVENT", e, x) /\ ~Leads("CAUSES", e, x)
    BY <2>1, KindsOfLeads
  <2>3. Seen(x) /\ (Leads("SUMMARIZES", e, x) \/ Leads("COVERS_EVENT", x, e))
    BY <1>4, <2>1, <2>2, DetailHas, Zenon
  <2>4. e \in EventsAt(p) /\ Seen(p)
    BY <1>2, <1>4, PlaceHas, Zenon
  <2> QED BY <2>3, <2>4, PlaceHas, Zenon
<1> QED BY <1>2, <1>3, <1>4 DEF Seen

LEMMA FactReads ==
  ASSUME UpkeepTypeOK, NEW e \in Events, NEW k \in Facts, NEW x \in Entities,
         Shown(x), {k, e} \subseteq EntityFacts(x), <<"DERIVED_FROM", k, e>> \in Edges
  PROVE  {k, x} \subseteq EventEvidence(e)
<1>1. k \notin Events /\ e \notin Facts
  BY Disjoint
<1>2. Seen(k) /\ Leads("STATED_BY", k, x)
  BY <1>1, FactsHave, Zenon
<1>3. Seen(e)
  BY FactsHave, Zenon
<1>4. Derived(e, k)
  BY <1>2 DEF Derived, Leads
<1>5. k \in EventEvidence(e)
  BY <1>3, <1>4, ChainHas, Zenon
<1>6. x \in EventEvidence(e)
  BY <1>2, <1>3, <1>4, ChainHas, Zenon
<1> QED BY <1>5, <1>6

LEMMA ReadsDo ==
  ASSUME UpkeepTypeOK
  PROVE  ReadsAgree
<1> DEFINE Known(ns) == {n \in ns : There(n)}
<1>1. /\ Events \subseteq Nodes /\ Entities \subseteq Nodes /\ Locations \subseteq Nodes
  BY DEF Nodes, Upserted
<1>2. UNION ({EventDetail(e) \cup EventEvidence(e) \cup Speakers(e) \cup Neighbors(e, 2)
               : e \in Known(Events)}
             \cup {EntityTimeline(x) \cup EntityFacts(x) : x \in Known(Entities)}
             \cup {PlaceDetail(p) : p \in Known(Locations)})
        \subseteq {n \in Nodes : Shown(n)}
  <2>1. \A e \in Known(Events) :
          EventDetail(e) \cup EventEvidence(e) \cup Speakers(e) \cup Neighbors(e, 2)
            \subseteq {n \in Nodes : Shown(n)}
    BY <1>1, ShownNodes
  <2>2. \A x \in Known(Entities) :
          EntityTimeline(x) \cup EntityFacts(x) \subseteq {n \in Nodes : Shown(n)}
    BY <1>1, ShownNodes
  <2>3. \A p \in Known(Locations) : PlaceDetail(p) \subseteq {n \in Nodes : Shown(n)}
    BY <1>1, ShownNodes
  <2> HIDE DEF Known
  <2> QED BY <2>1, <2>2, <2>3
<1>3. ASSUME NEW e \in Known(Events)
      PROVE  /\ GetEvent(e) = ExplainEvent(e)
             /\ EventDetail(e) \cap Spans = EventEvidence(e) \cap Spans
             /\ EventDetail(e) \cap Entities \subseteq EventEvidence(e)
             /\ EventDetail(e) \ ({e} \cup Spans) \subseteq Neighbors(e, 1)
             /\ \A i \in Spans : e \in ListTimeSlices(i) <=> i \in EventDetail(e)
             /\ \A p \in Locations :
                  /\ e \in PlaceDetail(p) <=> Fresh(p) /\ p \in EventDetail(e)
                  /\ e \in PlaceDetail(p) =>
                       EventDetail(e) \cap (Spans \cup Segments) \subseteq PlaceDetail(p)
             /\ \A k \in Facts, x \in Entities :
                  Shown(x) /\ {k, e} \subseteq EntityFacts(x)
                    /\ <<"DERIVED_FROM", k, e>> \in Edges => {k, x} \subseteq EventEvidence(e)
  <2>1. e \in Events
    OBVIOUS
  <2>2. /\ GetEvent(e) = ExplainEvent(e)
        /\ EventDetail(e) \cap Spans = EventEvidence(e) \cap Spans
        /\ EventDetail(e) \cap Entities \subseteq EventEvidence(e)
        /\ EventDetail(e) \ ({e} \cup Spans) \subseteq Neighbors(e, 1)
        /\ \A i \in Spans : e \in ListTimeSlices(i) <=> i \in EventDetail(e)
    BY <2>1, EventReads
  <2>3. \A p \in Locations :
          /\ e \in PlaceDetail(p) <=> Fresh(p) /\ p \in EventDetail(e)
          /\ e \in PlaceDetail(p) =>
               EventDetail(e) \cap (Spans \cup Segments) \subseteq PlaceDetail(p)
    BY <2>1, PlaceReads
  <2>4. \A k \in Facts, x \in Entities :
          Shown(x) /\ {k, e} \subseteq EntityFacts(x)
            /\ <<"DERIVED_FROM", k, e>> \in Edges => {k, x} \subseteq EventEvidence(e)
    BY <2>1, FactReads
  <2> QED BY <2>2, <2>3, <2>4
<1>4. \A p \in Known(Locations) : GetPlace(p) = 200 => p \in DOMAIN ListPlaces
  <2>1. ASSUME NEW p \in Locations, GetPlace(p) = 200 PROVE Seen(p)
    <3>1. PlaceDetail(p) # {}
      BY <2>1 DEF GetPlace, Answered
    <3> QED BY <3>1, PlaceHas
  <2> QED BY <2>1 DEF ListPlaces
<1>5. \A x \in Known(Entities) : EntityEvidences(x) = EntityTimeline(x) \cap Evidences
  <2> SUFFICES ASSUME NEW x \in Entities, NEW y
               PROVE  y \in EntityEvidences(x) <=> y \in EntityTimeline(x) /\ y \in Evidences
    OBVIOUS
  <2>1. /\ Leads("BELONGS_TO_ENTITY", y, x) => y \in Evidences
        /\ Leads("SPOKEN_BY", y, x) => y \in Utterances
    BY KindsOfLeads
  <2>2. ~(y \in Evidences /\ y \in Utterances)
    BY Disjoint
  <2> QED BY <2>1, <2>2, OthersHave, Zenon
<1>6. \A i \in Known(Nodes) : ListTimeSlices(i) \cap Segments \subseteq ListSegments
  BY OthersHave DEF ListSegments, SeenOf
<1> HIDE DEF Known
<1>7. \A e \in Known(Events) :
           LET detail == EventDetail(e)
               chain  == EventEvidence(e)
           IN  /\ GetEvent(e) = ExplainEvent(e)
               /\ detail \cap Spans = chain \cap Spans
               /\ detail \cap Entities \subseteq chain
               /\ detail \ ({e} \cup Spans) \subseteq Neighbors(e, 1)
               /\ \A i \in Spans : e \in ListTimeSlices(i) <=> i \in detail
               /\ \A p \in Locations :
                    /\ e \in PlaceDetail(p) <=> Fresh(p) /\ p \in detail
                    /\ e \in PlaceDetail(p) =>
                         detail \cap (Spans \cup Segments) \subseteq PlaceDetail(p)
               /\ \A k \in Facts, x \in Entities :
                    Shown(x) /\ {k, e} \subseteq EntityFacts(x)
                      /\ <<"DERIVED_FROM", k, e>> \in Edges =>
                      {k, x} \subseteq chain
  BY <1>3, Zenon
<1> QED BY <1>2, <1>4, <1>5, <1>6, <1>7, Zenon DEF ReadsAgree, Known

\* Whatever was written, hidden and built, and whatever has expired: the reads
\* name nothing hidden, and they agree with each other.
THEOREM ReadsAlwaysAgree == UpkeepSpec => []ReadsAgree
<1>1. UpkeepTypeOK => ReadsAgree
  BY ReadsDo
<1> QED BY <1>1, UpkeepKeepsTypes, PTL
=============================================================================
