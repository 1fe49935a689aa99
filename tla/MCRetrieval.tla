------------------------------ MODULE MCRetrieval ------------------------------
(***************************************************************************)
(* What a dialog becomes in the graph, what a question finds there, and    *)
(* what a tool says of a state.  They share nothing that the modules       *)
(* describe, so each behaviour looks at one of them.                       *)
(***************************************************************************)
EXTENDS Retrieval, DialogGraph, StateTools, TLC

CONSTANTS e1, e2, u1, u2, u3, ann, bob
\* One event of one turn and one of two.
MCTurnsOf == (e1 :> {u1}) @@ (e2 :> {u2, u3})
MCFirst   == (e1 :> u1) @@ (e2 :> u2)

MCSpeaker == <<ann, bob, ann>>
\* The second turn is posted late, the third has no time.
MCGiven == <<2, 9, Absent>>
\* Everything is kept, or the last turn is not, or the first, so that the others
\* are numbered anew.
MCMarkings ==
  {<<"rule", "note", "save">>, <<"fact", "note", "none">>, <<"drop", "note", "save">>}
\* Bound: a call that keeps all the turns is the only one.
MCOnly == call' # NoCall /\ Len(call'.turns) = TurnCount => calls' = 1
MCAfter == Len(dialog.utterances) = TurnCount => calls' = calls
\* Bound: the events of two calls.
MCFew == step = "extract" => Len(call'.events) + Cardinality(DOMAIN dialog.events) <= 3
\* Bound: what the graph does not carry out is of one event at most, of a last
\* call of none.
MCLost == swallowed' /\ ~swallowed => Len(call.events) + calls <= MaxCalls

\* Two names contain "status"; "feeling" is an alias of a third, and JobStatus
\* is only normalised to its name.  The second vocabulary is over the limit.
CONSTANTS job, relationship, mood, status, feeling, JobStatus, word
MCProperties == {job, relationship, mood}
MCTexts   == MCProperties \cup {status, feeling, JobStatus, word}
MCNorm    == [t \in MCTexts |-> IF t = JobStatus THEN job ELSE t]
MCAliases == (feeling :> mood) @@ (status :> word)
MCNear    == {<<status, job>>, <<status, relationship>>}
MCFiles   == {<<job, mood>>, <<job, relationship, mood>>}

Plain == [tool |-> "entity_status", named |-> "id", text |-> Nothing,
          direct |-> Nothing, force |-> FALSE, given |-> FALSE,
          start |-> 0, end |-> 0, limit |-> 2, order |-> "desc", odd |-> FALSE]
Since == [Plain EXCEPT !.tool = "state_time_since"]
\* About the state of the property, by its name:
MCReads == {[q EXCEPT !.direct = job] : q \in {Plain, Since} \cup
  {[Plain EXCEPT !.given = TRUE, !.start = 2],
   [Since EXCEPT !.given = TRUE, !.start = 2, !.end = 3],
   [Plain EXCEPT !.tool = "status_changes"],
   [Plain EXCEPT !.tool = "status_changes", !.order = "asc"]}}
\* By what people call it, well and badly put:
MCWords == {[Plain EXCEPT !.text = t, !.force = f] :
              t \in {status, feeling, JobStatus, word}, f \in BOOLEAN}
MCOdd   == {[Plain EXCEPT !.named = "no"], Plain, [Plain EXCEPT !.odd = TRUE],
            [Since EXCEPT !.direct = mood, !.given = TRUE],
            [Plain EXCEPT !.named = "name", !.text = job]}
MCQuestions == MCReads \cup MCWords \cup MCOdd

\* The values of states are only compared with each other: let the first node
\* of a run have this one.  What reads the pending states, the reviews, is
\* checked with the timeline.
CONSTANT v1
MCTimelineNext ==
  /\ Timeline /\ rpc' = rpc /\ pend' = pend
  /\ ~whole => made' = made
  /\ made = 0 /\ made' = 1 => state'[1].value = v1
MCReadNext ==
  /\ CallNext(MCReads)
  /\ \A c \in Callers : task'[c].via = "runtime"
  /\ \A c \in Callers \ {CHOOSE c \in Callers : TRUE} : task'[c] = NoTask

\* Bounds: the callers of a run ask about one text; agentic requests are made
\* while no other call is, and the odd questions before any.
VARIABLES focus, text
MCAlone == \E c \in Callers : \A d \in Callers \ {c} : task[d] = NoTask /\ task'[d] = NoTask
MCWordNext ==
  \/ ServerNext
  \/ /\ CallNext({q \in MCWords : q.text = text})
     /\ MCAlone \/ \A c \in Callers : task'[c].via = "runtime"
  \/ asked = 0 /\ CallNext(MCOdd)

MCInit ==
  /\ RetrievalInit /\ DialogInit /\ TimelineInit /\ ToolsInit
  /\ focus \in {"dialog", "question", "answers", "words"}
  /\ focus # "question" => mode = "fused"
  /\ text \in {q.text : q \in MCWords}
  /\ file = <<job, mood>> /\ (focus # "words" => text = word)
MCNext ==
  /\ \/ focus = "question" /\ RetrievalNext /\ UNCHANGED <<dialogVars, vars, toolVars>>
     \/ /\ focus = "dialog" /\ DialogNext /\ MCOnly /\ MCAfter /\ MCFew /\ MCLost
        /\ UNCHANGED <<retrievalVars, vars, toolVars>>
     \/ /\ focus = "answers" /\ (MCTimelineNext \/ MCReadNext)
        /\ UNCHANGED <<retrievalVars, dialogVars>>
     \/ /\ focus = "words" /\ MCWordNext /\ UNCHANGED vars
        /\ UNCHANGED <<retrievalVars, dialogVars>>
  /\ UNCHANGED <<focus, text>>
MCSpec == MCInit /\ [][MCNext]_<<retrievalVars, dialogVars, vars, toolVars, focus, text>>

\* The dialog alone.
MCDialogSpec == MCSpec /\ focus = "dialog"
================================================================================
