----------------------------- MODULE StateTools -----------------------------
(***************************************************************************)
(* The state tools of the agent kit (entity_status, status_changes,        *)
(* state_time_since) over the timeline of one property.  A call resolves   *)
(* the entity, maps the words for the property to a name of the            *)
(* vocabulary, reads the time and asks the server for states.  The server  *)
(* keeps the vocabulary file it read first for the life of its process,    *)
(* the runtime of a tenant the answer it got last; the calls of a runtime  *)
(* interleave at every request.                                            *)
(*                                                                         *)
(* The tools are also run by the server itself for /memory/agentic/execute *)
(* and, on the choice of a language model, for /memory/agentic/query: each *)
(* request with a runtime of its own.                                      *)
(***************************************************************************)
EXTENDS StateTimeline, Sequences

CONSTANTS
  Callers,       \* calls that can be in progress at the same time
  Questions,     \* the questions asked, a subset of Question
  Properties, Property,    \* names of properties; the one StateTimeline models
  Texts,         \* what a question may call a property, names included
  Norm,          \* the text with its punctuation and case normalised
  Aliases,       \* the local table of aliases: text to name
  Near,          \* pairs of normal forms, the first contained in the second
  Files,         \* the vocabularies that are ever deployed, as they are listed
  VocabLimit,    \* properties the server gives out
  Nothing,
  MaxAsks, MaxDeploys      \* bounds: calls begun; deployments and restarts

ASSUME ToolsAssumption ==
  /\ Property \in Properties /\ Properties \subseteq Texts
  /\ Files \subseteq Seq(Properties) /\ DOMAIN Norm = Texts
  /\ DOMAIN Aliases \subseteq Texts
  /\ Nothing \notin Texts /\ Nothing \notin Files \cup {<<>>}
  /\ VocabLimit \in Nat \ {0} /\ MaxAsks \in Nat /\ MaxDeploys \in Nat

Tools    == {"entity_status", "status_changes", "state_time_since"}
Default  == {}      \* the ones of them that are enabled by default
Unusable == Forever \* a time that cannot be read; 0 is one that is not given

Question ==
  [tool : Tools, named : {"id", "name", "no"}, text : Texts \cup {Nothing},
   direct : Properties \cup {Nothing}, force : BOOLEAN,
   given : BOOLEAN,    \* a range of time is given (or, for entity_status, a time)
   start : 0 .. Unusable, end : 0 .. Unusable,
   limit : Nat, order : {"asc", "desc"},
   odd : BOOLEAN]      \* with arguments that the tool does not have
ASSUME QuestionsAssumption ==
  Questions \subseteq {q \in Question : q.given \/ (q.start = 0 /\ q.end = 0)}

VARIABLES
  file,      \* the deployed vocabulary, Nothing if it cannot be read
  served,    \* the one the server process has read, Nothing before that
  known,     \* the names the runtime has got, Nothing before that
  task,      \* the calls
  latest,      \* history: when the last state told to a caller began, 0 for none
  offered,   \* history: what the server had to offer since the runtime began
  asked, deploys

toolVars == <<file, served, known, task, latest, offered, asked, deploys>>

NoTask == [pc |-> "idle", ask |-> Nothing, via |-> "runtime", prop |-> Nothing,
           reply |-> Nothing, outcome |-> "", since |-> {}]

-----------------------------------------------------------------------------
(* The vocabulary.                                                         *)

\* _load_state_properties: an unreadable file is an empty vocabulary for good.
LoadProperties == IF served # Nothing THEN served
                  ELSE IF file # Nothing THEN file ELSE <<>>

\* memory_state_properties
Offer == LET names == LoadProperties
         IN  {names[i] : i \in {j \in DOMAIN names : j <= VocabLimit}}

\* map_state_property: what a text means is what the first of four readings of
\* it gives; failing all, several names that contain it are a choice.
MapProperty(text, names) ==
  LET alias == {a \in DOMAIN Aliases : Norm[a] = Norm[text]}
      readings == << {text},
                     {Aliases[a] : a \in DOMAIN Aliases \cap {text}},
                     {n \in names : Norm[n] = Norm[text]},
                     {Aliases[a] : a \in alias} >>
      works == {i \in DOMAIN readings : readings[i] \cap names # {}}
      best  == CHOOSE i \in works : \A j \in works : i <= j
      near  == {n \in names : <<Norm[text], Norm[n]>> \in Near}
  IN  IF works # {} THEN readings[best] \cap names
      ELSE IF Cardinality(near) > 1 THEN near ELSE {}

ToolsInit ==
  /\ file \in Files \cup {Nothing} /\ served = Nothing /\ known = Nothing
  /\ task = [c \in Callers |-> NoTask]
  /\ latest = 0 /\ asked = 0 /\ deploys = 0
  /\ offered = {Offer}

-----------------------------------------------------------------------------
(* A call, from request to request.                                        *)

\* The runtime of an agentic request has no vocabulary yet, and is closed
\* when the request is answered.
Fresh(k) == k.via # "runtime"
Known(k) == IF Fresh(k) THEN Nothing ELSE known

Stopped(k, outcome) == [k EXCEPT !.pc = "done", !.outcome = outcome]

\* _parse_when_to_iso, _parse_time_range: the time is read after the preflight.
TimeOK(q) == /\ q.start # Unusable /\ q.end # Unusable
             /\ q.given => q.start # 0 \/ q.end # 0

Asking(k, p) ==
  IF TimeOK(k.ask) THEN [k EXCEPT !.pc = "query", !.prop = p]
  ELSE Stopped(k, "invalid_input")

Mapped(k, names) ==
  LET meant == MapProperty(k.ask.text, names)
  IN  IF meant = {} THEN Stopped(k, "unrecognised")
      ELSE IF Cardinality(meant) > 1 THEN Stopped(k, "choose")
      ELSE Asking(k, CHOOSE p \in meant : TRUE)

\* load_state_property_vocab
MutantVocab(k) ==                    \* a refresh that is asked for is not made
  IF Known(k) # Nothing THEN Mapped(k, known) ELSE [k EXCEPT !.pc = "fetch"]
Vocab(k) ==
  IF Known(k) # Nothing /\ ~k.ask.force THEN Mapped(k, known)
  ELSE [k EXCEPT !.pc = "fetch"]

\* prepare_state_query_preflight, once the entity is known.
WithEntity(k) ==
  IF k.ask.direct # Nothing THEN Asking(k, k.ask.direct)
  ELSE IF k.ask.text = Nothing THEN Stopped(k, "invalid_input")
  ELSE Vocab(k)

\* _resolve_if_needed
Entering(k) ==
  CASE k.ask.named = "id"   -> WithEntity(k)
    [] k.ask.named = "name" -> [k EXCEPT !.pc = "resolve"]
    [] OTHER                -> Stopped(k, "invalid_input")

\* The checks of the agentic endpoints.  A query offers the model the tools of a
\* list, or those that are enabled; the model may choose any.
Ways == {<<"runtime", Tools>>, <<"execute", Tools>>,
         <<"query", Default>>, <<"query", Tools>>}
Refused(q, way) == q.tool \notin way[2] \/ (way[1] # "runtime" /\ q.odd)

Ask(c, q, way) ==
  /\ task[c].pc = "idle" /\ asked < MaxAsks /\ asked' = asked + 1
  /\ way[1] = "runtime" => ~q.odd
  /\ LET k == [NoTask EXCEPT !.ask = q, !.via = way[1], !.since = {Offer}]
     IN  task' = [task EXCEPT ![c] =
                    IF Refused(q, way) THEN Stopped(k, "refused") ELSE Entering(k)]
  /\ UNCHANGED <<vars, file, served, known, latest, offered, deploys>>

\* The language model fails, or chooses no tool.
NotRouted(c, q) ==
  /\ task[c].pc = "idle" /\ asked < MaxAsks /\ asked' = asked + 1
  /\ task' = [task EXCEPT ![c] =
       Stopped([NoTask EXCEPT !.ask = q, !.via = "query"], "no_tool")]
  /\ UNCHANGED <<vars, file, served, known, latest, offered, deploys>>

\* The answer: one entity, none, or several to choose from.  An error that
\* comes as an answer is taken for "none".
Resolve(c) ==
  /\ task[c].pc = "resolve"
  /\ \E k \in {WithEntity(task[c]), Stopped(task[c], "no_entity"),
               Stopped(task[c], "choose"), Stopped(task[c], "error")} :
       task' = [task EXCEPT ![c] = k]
  /\ UNCHANGED <<vars, file, served, known, latest, offered, asked, deploys>>

\* The server answers the request for the vocabulary ...
Serve(c) ==
  /\ task[c].pc = "fetch"
  /\ served' = LoadProperties
  /\ task' = [task EXCEPT ![c].pc = "load", ![c].reply = Offer]
  /\ UNCHANGED <<vars, file, known, latest, offered, asked, deploys>>

\* ... and the runtime keeps the answer, even one that was overtaken.
Load(c) ==
  /\ task[c].pc = "load"
  /\ known' = IF Fresh(task[c]) THEN known ELSE task[c].reply
  /\ task' = [task EXCEPT ![c] = Mapped(task[c], task[c].reply)]
  /\ UNCHANGED <<vars, file, served, latest, offered, asked, deploys>>

\* A request that is refused, times out or finds no server.
RequestFails(c) ==
  /\ task[c].pc \in {"fetch", "load", "query"}
  /\ task' = [task EXCEPT ![c] = Stopped(task[c], "error")]
  /\ UNCHANGED <<vars, file, served, known, latest, offered, asked, deploys>>

Return(c) ==
  /\ task[c].pc = "done"
  /\ task' = [task EXCEPT ![c] = NoTask]
  /\ UNCHANGED <<vars, file, served, known, latest, offered, asked, deploys>>

-----------------------------------------------------------------------------
(* The queries.  Each is one statement of the store.                       *)

States == {i \in Ids : Live(i)}

\* The first n of some nodes, by descending rank; any of those of equal rank.
Pages(ids, n, rank) ==
  {page \in SUBSET ids :
     /\ Cardinality(page) = (IF Cardinality(ids) < n THEN Cardinality(ids) ELSE n)
     /\ \A i \in page, j \in ids \ page : rank[i] >= rank[j]}
Latest    == [i \in Ids |-> state[i].from]
FirstOnes == [i \in Ids |-> MaxTime - state[i].from]
Newest    == [i \in Ids |-> i]

CurrentState == IF current = 0 THEN {} ELSE {current}

\* get_state_at_time
StateAt(t) == Pages(AnswersAt(t), 1, Latest)

\* get_state_changes
Between(start, end) ==
  {i \in States : (start # 0 => state[i].from >= start)
                   /\ (end # 0 => state[i].from <= end)}
StateChanges(start, end, n, order) ==
  IF order = "desc" THEN Pages(Between(start, end), n, Latest)
  ELSE Pages(Between(start, end), n, FirstOnes)

\* list_pending_states; ids are in the order of created_at.
PendingList(statuses, n) ==
  Pages({i \in Ids : Held(i) /\ pend[i].status \in statuses}, n, Newest)

\* What the endpoint of a tool may answer about a property.
Answers(q, p) ==
  IF p # Property THEN {{}}
  ELSE CASE q.tool = "entity_status" /\ q.start = 0 -> {CurrentState}
         [] q.tool = "entity_status" /\ q.start # 0 -> StateAt(q.start)
         [] q.tool = "status_changes" ->
              StateChanges(q.start, q.end, q.limit, q.order)
         [] q.tool = "state_time_since" ->
              StateChanges(q.start, q.end, 1, "desc")

\* The question is for the state as it is now.
AsksNow(q) == q.tool # "status_changes" /\ ~q.given

\* A failure of the store looks like a property without states.
Query(c) ==
  /\ task[c].pc = "query"
  /\ \E page \in Answers(task[c].ask, task[c].prop) \cup {{}} :
       /\ task' = [task EXCEPT ![c] =
            Stopped(task[c], IF page = {} THEN "not_found" ELSE "found")]
       /\ latest' = IF page # {} /\ whole /\ AsksNow(task[c].ask)
                  THEN state[CHOOSE i \in page : TRUE].from ELSE latest
  /\ UNCHANGED <<vars, file, served, known, offered, asked, deploys>>

-----------------------------------------------------------------------------
(* What goes on around the calls.                                          *)

\* What a call or the runtime may come to know, after the server changed.
Witness(died) ==
  /\ offered' = offered \cup {Offer'}
  /\ task' = [c \in Callers |->
       IF c \in died THEN Stopped(task[c], "error")
       ELSE IF task[c].pc = "idle" THEN task[c]
       ELSE [task[c] EXCEPT !.since = @ \cup {Offer'}]]

Deploy(f) ==
  /\ deploys < MaxDeploys /\ deploys' = deploys + 1
  /\ f # file /\ file' = f
  /\ UNCHANGED <<vars, served, known, latest, asked>>
  /\ Witness({})

\* The agentic requests end with the process of the server.
ServerRestarts ==
  /\ deploys < MaxDeploys /\ deploys' = deploys + 1
  /\ served # Nothing /\ served' = Nothing
  /\ UNCHANGED <<vars, file, known, latest, asked>>
  /\ Witness({c \in Callers : task[c].pc # "idle" /\ Fresh(task[c])})

RuntimeEnds ==
  /\ known # Nothing /\ known' = Nothing
  /\ \A c \in Callers : task[c].pc # "idle" => Fresh(task[c])
  /\ offered' = {Offer}
  /\ UNCHANGED <<vars, file, served, task, latest, asked, deploys>>

\* An update, a review or a batch of a purge.
Timeline ==
  /\ Next
  /\ latest' = IF purging THEN 0 ELSE latest
  /\ UNCHANGED <<file, served, known, task, offered, asked, deploys>>

CallNext(questions) ==
  \E c \in Callers :
    \/ \E q \in questions : \/ \E way \in Ways : Ask(c, q, way)
                            \/ NotRouted(c, q)
    \/ Resolve(c) \/ Serve(c) \/ Load(c) \/ RequestFails(c)
    \/ Query(c) \/ Return(c)

ServerNext ==
  \/ \E f \in Files \cup {Nothing} : Deploy(f)
  \/ ServerRestarts \/ RuntimeEnds

ToolsNext == CallNext(Questions) \/ ServerNext \/ Timeline

ToolsSpec == TimelineInit /\ ToolsInit /\ [][ToolsNext]_<<vars, toolVars>>

-----------------------------------------------------------------------------
(* Properties.                                                             *)

ToolsTypeOK ==
  /\ file \in Files \cup {Nothing} /\ served \in Files \cup {<<>>, Nothing}
  /\ known \in (SUBSET Properties) \cup {Nothing}
  /\ \A c \in Callers : task[c].ask \in Questions \cup {Nothing}
  /\ latest \in Times \cup {0}

\* The three ways to read a timeline agree: there is a current state iff there
\* are changes, and it is one that began last; it is the answer for any time
\* since then; the answer for an earlier time is the last change up to it, and
\* none only before the first change and in the last millisecond before the
\* next one.  A change is a change of the value.  And what was told and is not
\* on the timeline is on the list of pending states.
StateReadsAgree ==
  whole =>
    LET newest == StateChanges(0, 0, 1, "desc")
    IN
    /\ CurrentState = {} <=> newest = {{}}
    /\ \A top \in newest : \A i \in top, j \in CurrentState :
         state[i].from = state[j].from
    /\ \A t \in Times :
         LET then == StateAt(t)
         IN  IF \E i \in CurrentState : state[i].from <= t THEN then = {CurrentState}
             ELSE IF then = {{}} THEN
               (\E i \in States : state[i].from = t + 1) \/ Between(0, t) = {}
             ELSE then \subseteq StateChanges(0, t, 1, "desc")
    /\ \A i, j \in States :
         i < j /\ (\A k \in States : k <= i \/ j <= k) => state[i].value # state[j].value
    /\ told # NoUpdate =>
         \/ \E i \in Between(0, told[2]) : state[i].value = told[1]
         \/ \E list \in PendingList({"pending", "approved", "rejected"}, MaxNodes) :
              \E i \in list : pend[i].value = told[1] /\ pend[i].from = told[2]

\* A call asks for the property its text means in a vocabulary that the server
\* had to offer: while the call was made, if it asked for a refresh or made its
\* own runtime, and otherwise since the runtime began; and it says that there
\* is none, or a choice, only of such a vocabulary.
AsksAsMeant ==
  \A c \in Callers :
    LET k == task[c]
        names == IF k.ask.force \/ Fresh(k) THEN k.since ELSE offered
    IN  /\ k.ask # Nothing /\ k.ask.direct = Nothing /\ k.prop # Nothing =>
             \E v \in names : MapProperty(k.ask.text, v) = {k.prop}
        /\ k.outcome = "unrecognised" =>
             \E v \in names : MapProperty(k.ask.text, v) = {}

\* Who asks again for the present state, or how long it has lasted, is never
\* told of an older one than before, whatever is written, approved or repeated
\* in between, until the tenant is purged.
AnswersAdvance == [][latest' # 0 => latest <= latest']_latest
=============================================================================
