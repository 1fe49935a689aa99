------------------------- MODULE StateTimeline -------------------------
(***************************************************************************)
(* The value of one property of one subject over time, as Neo4jStore keeps *)
(* it: State nodes with a validity interval, a StateKey node whose CURRENT *)
(* edge points at the latest one, and PendingState nodes for updates that  *)
(* are held for a review (low confidence) or came out of order.  An update *)
(* is one transaction, which takes a lock on the StateKey; an approval is  *)
(* three store calls; the purge of a tenant deletes nodes in batches of    *)
(* their own transactions.  Properties of other subjects do not meet.      *)
(*                                                                         *)
(* Time is in milliseconds.  The store reports its errors in its answers,  *)
(* which its callers read past: a call may always do nothing.              *)
(***************************************************************************)
EXTENDS Naturals, FiniteSets

CONSTANTS
  Values, NoValue,
  MaxTime,     \* bound: updates are at 1 .. MaxTime
  MaxNodes,    \* bound: State and PendingState nodes ever created
  Reviewers,   \* approve requests that can be in progress at the same time
  BatchSize    \* of the purge

ASSUME TimelineAssumption ==
  /\ NoValue \notin Values
  /\ MaxTime \in Nat /\ MaxNodes \in Nat
  /\ BatchSize \in Nat \ {0}

Times   == 1 .. MaxTime
Forever == MaxTime + 1        \* a valid_to of null
Ids     == 1 .. MaxNodes      \* in the order of creation
Key     == 0                  \* the StateKey node

State == [value : Values \cup {NoValue}, from : 0 .. MaxTime, to : 0 .. Forever]
NoState == [value |-> NoValue, from |-> 0, to |-> 0]

PendingState ==
  [value : Values \cup {NoValue}, from : 0 .. MaxTime,
   why : {"none", "held", "out_of_order"},
   status : {"none", "pending", "approved", "rejected"}]
NoPending == [value |-> NoValue, from |-> 0, why |-> "none", status |-> "none"]

\* What an approve request holds of the pending state that it read.
Review == [id : Ids \cup {0}, value : Values \cup {NoValue}, from : 0 .. MaxTime,
           apply : BOOLEAN]
NoReview == [id |-> 0, value |-> NoValue, from |-> 0, apply |-> FALSE]

NoUpdate == <<NoValue, 0>>

VARIABLES
  state, pend,   \* the nodes, by id
  current,       \* the state the CURRENT edge points at, 0 without one
  keyed,         \* the StateKey node exists
  made,          \* how many ids are used
  purging,       \* a purge of the tenant has batches to do
  rpc, review,   \* per approve request: where it is and what it read
  whole,         \* history: no purge is half done
  told           \* history: any one update since the last purge, or NoUpdate

graph == <<state, pend, current, keyed, made>>
vars  == <<graph, purging, rpc, review, whole, told>>

Live(i) == state[i] # NoState
Held(i) == pend[i] # NoPending
Nodes == {i \in Ids : Live(i) \/ Held(i)} \cup (IF keyed THEN {Key} ELSE {})

TimelineInit ==
  /\ state = [i \in Ids |-> NoState]
  /\ pend = [i \in Ids |-> NoPending]
  /\ current = 0 /\ keyed = FALSE /\ made = 0
  /\ purging = FALSE
  /\ rpc = [r \in Reviewers |-> "idle"]
  /\ review = [r \in Reviewers |-> NoReview]
  /\ whole = TRUE /\ told = NoUpdate

-----------------------------------------------------------------------------
(* apply_state_update: one transaction.                                    *)

AddState(v, t, closed) ==
  /\ made < MaxNodes
  /\ made' = made + 1
  /\ state' = [closed EXCEPT ![made + 1] =
                 [value |-> v, from |-> t, to |-> Forever]]
  /\ current' = made + 1
  /\ UNCHANGED pend

AddPending(v, t, why) ==
  /\ made < MaxNodes
  /\ made' = made + 1
  /\ pend' = [pend EXCEPT ![made + 1] =
                [value |-> v, from |-> t, why |-> why, status |-> "pending"]]
  /\ UNCHANGED <<state, current>>

MutantLate(t) == FALSE                \* whatever comes last is current
Late(t) == t < state[current].from

MutantClosed(t) == state              \* the old state stays open
Closed(t) == [state EXCEPT ![current].to = t - 1]

\* An update with the current value sets last_seen_at, which no query reads.
Touched == UNCHANGED <<state, pend, current, made>>

MutantApply(v, t) ==                  \* what is out of order is dropped
  /\ keyed' = TRUE
  /\ \/ current = 0 /\ AddState(v, t, state)
     \/ current # 0 /\ Late(t) /\ UNCHANGED <<state, pend, current, made>>
     \/ /\ current # 0 /\ ~Late(t)
        /\ \/ state[current].value = v /\ Touched
           \/ state[current].value # v /\ AddState(v, t, Closed(t))

Apply(v, t) ==
  /\ keyed' = TRUE
  /\ \/ current = 0 /\ AddState(v, t, state)
     \/ current # 0 /\ Late(t) /\ AddPending(v, t, "out_of_order")
     \/ /\ current # 0 /\ ~Late(t)
        /\ \/ state[current].value = v /\ Touched
           \/ state[current].value # v /\ AddState(v, t, Closed(t))

\* session_write applies the states of an extraction, in any order and again
\* when it is run again; one of low confidence is held.
Update(v, t) ==
  /\ Apply(v, t)
  /\ told' \in {told, <<v, t>>}
  /\ UNCHANGED <<purging, rpc, review, whole>>

Hold(v, t) ==
  /\ AddPending(v, t, "held")
  /\ keyed' = TRUE
  /\ told' \in {told, <<v, t>>}
  /\ UNCHANGED <<purging, rpc, review, whole>>

-----------------------------------------------------------------------------
(* The review of pending states.                                           *)

\* approve_pending_state reads the node, whatever its status; one that is out
\* of order is never applied.
Approve(r, i, apply) ==
  /\ rpc[r] = "idle" /\ Held(i)
  /\ rpc' = [rpc EXCEPT ![r] = "mark"]
  /\ review' = [review EXCEPT ![r] =
                  [id |-> i, value |-> pend[i].value, from |-> pend[i].from,
                   apply |-> apply /\ pend[i].why # "out_of_order"]]
  /\ UNCHANGED <<graph, purging, whole, told>>

Resolved(i, status) ==
  IF Held(i) THEN [pend EXCEPT ![i].status = status] ELSE pend

\* It goes on when there is no such node any more, or the write failed.
MarkApproved(r) ==
  /\ rpc[r] = "mark"
  /\ pend' \in {pend, Resolved(review[r].id, "approved")}
  /\ rpc' = [rpc EXCEPT ![r] = IF review[r].apply THEN "apply" ELSE "idle"]
  /\ review' = IF review[r].apply THEN review
               ELSE [review EXCEPT ![r] = NoReview]
  /\ UNCHANGED <<state, current, keyed, made, purging, whole, told>>

ApplyApproved(r) ==
  /\ rpc[r] = "apply"
  /\ Apply(review[r].value, review[r].from) \/ UNCHANGED graph
  /\ rpc' = [rpc EXCEPT ![r] = "idle"]
  /\ review' = [review EXCEPT ![r] = NoReview]
  /\ UNCHANGED <<purging, whole, told>>

\* A request that is cancelled or dies with its process.
Abandon(r) ==
  /\ rpc[r] # "idle"
  /\ rpc' = [rpc EXCEPT ![r] = "idle"]
  /\ review' = [review EXCEPT ![r] = NoReview]
  /\ UNCHANGED <<graph, purging, whole, told>>

Reject(i) ==
  /\ Held(i)
  /\ pend' = Resolved(i, "rejected")
  /\ UNCHANGED <<state, current, keyed, made, purging, rpc, review, whole, told>>

-----------------------------------------------------------------------------
(* purge_tenant.                                                           *)

BeginPurge ==
  /\ ~purging
  /\ purging' = TRUE
  /\ UNCHANGED <<graph, rpc, review, whole, told>>

\* A batch of any nodes of the tenant, these and others, until one is not full.
PurgeBatch ==
  /\ purging
  /\ \E batch \in SUBSET Nodes :
       /\ \/ Cardinality(batch) <= BatchSize /\ purging' = TRUE
          \/ batch = Nodes /\ Cardinality(batch) < BatchSize /\ purging' = FALSE
       /\ state' = [i \in Ids |-> IF i \in batch THEN NoState ELSE state[i]]
       /\ pend' = [i \in Ids |-> IF i \in batch THEN NoPending ELSE pend[i]]
       /\ current' = IF {Key, current} \cap batch = {} THEN current ELSE 0
       /\ keyed' = (keyed /\ Key \notin batch)
       /\ whole' = (batch = Nodes \/ (whole /\ batch = {}))
  /\ told' = NoUpdate
  /\ UNCHANGED <<made, rpc, review>>

\* An error, or the end of the process, leaves what is left.
PurgeFails ==
  /\ purging
  /\ purging' = FALSE
  /\ UNCHANGED <<graph, rpc, review, whole, told>>

Next ==
  \/ \E v \in Values, t \in Times : Update(v, t) \/ Hold(v, t)
  \/ \E r \in Reviewers, i \in Ids, apply \in BOOLEAN : Approve(r, i, apply)
  \/ \E r \in Reviewers : MarkApproved(r) \/ ApplyApproved(r) \/ Abandon(r)
  \/ \E i \in Ids : Reject(i)
  \/ BeginPurge \/ PurgeBatch \/ PurgeFails

Spec == TimelineInit /\ [][Next]_vars

-----------------------------------------------------------------------------
(* Properties, about a graph that no purge has left half deleted.          *)

\* The type invariant; a pending state is a whole node or none.
TypeOK ==
  /\ state \in [Ids -> State] /\ pend \in [Ids -> PendingState]
  /\ \A i \in Ids : Held(i) => pend[i].value # NoValue /\ pend[i].why # "none"
  /\ current \in 0 .. MaxNodes /\ keyed \in BOOLEAN /\ made \in 0 .. MaxNodes
  /\ purging \in BOOLEAN /\ whole \in BOOLEAN
  /\ rpc \in [Reviewers -> {"idle", "mark", "apply"}]
  /\ review \in [Reviewers -> Review]
  /\ told \in (Values \X Times) \cup {NoUpdate}

\* Updates, approvals and replays in any order leave one timeline: only the
\* current state is open, and every other one ends the millisecond before a
\* later one begins.
TimelineOK ==
  whole =>
    /\ (\E i \in Ids : Live(i)) => current # 0
    /\ current # 0 => Live(current) /\ state[current].to = Forever
    /\ \A i \in Ids : Live(i) => state[i].from \in Times
    /\ \A i \in Ids : Live(i) /\ i # current =>
         \E j \in Ids : /\ i < j /\ Live(j) /\ state[i].to = state[j].from - 1
                        /\ \A k \in Ids : i < k /\ Live(k) => j <= k
    /\ \A i, j \in Ids : Live(i) /\ Live(j) /\ i < j => state[i].from <= state[j].from

\* What get_state_at_time finds.
AnswersAt(t) == {i \in Ids : Live(i) /\ state[i].from <= t /\ state[i].to > t}

\* History is not rewritten: an update, late, repeated or approved as it may be,
\* changes no answer for a time before the state that was current, nor before
\* the one that is current after it.
HistoryIsKept ==
  [][whole /\ whole' /\ current # 0 /\ current' # 0 =>
       \A t \in Times :
         t < state[current].from \/ t + 1 < state'[current'].from =>
           AnswersAt(t)' = AnswersAt(t)]_vars

\* No update is lost: it is on the timeline, or among the pending states.
NoUpdateLost ==
  whole /\ told # NoUpdate =>
    \/ \E i \in Ids : Live(i) /\ state[i].value = told[1] /\ state[i].from <= told[2]
    \/ \E i \in Ids : Held(i) /\ pend[i].value = told[1] /\ pend[i].from = told[2]
=============================================================================
