--------------------------- MODULE RetrievalProofs --------------------------
(***************************************************************************)
(* What is asked of the graph, for every number of hits, turns, values,    *)
(* reviewers and callers:                                                  *)
(*   - the state timeline and the state tools: a property has one line and *)
(*     its past does not change, the ways to read it agree, and nobody is  *)
(*     told of an older present than before;                               *)
(*   - the dialogs in the graph: a session is what its last ingest said,   *)
(*     and nothing of an older one is left after an overwrite;             *)
(*   - a dialog retrieval: what is answered rests on hits, in the order    *)
(*     they were judged.                                                   *)
(***************************************************************************)
EXTENDS StateTools, Retrieval, DialogGraph, FiniteSetTheorems, SequenceTheorems,
        WellFoundedInduction, TLAPS

-----------------------------------------------------------------------------
(* The timeline.                                                           *)

\* Nodes are made in the order of their ids; what is live or held is whole, and
\* the CURRENT edge points at a node that is there, a purge half done or not.
Made ==
  /\ \A i \in Ids : Live(i) => i <= made /\ state[i].from \in Times
  /\ \A i \in Ids : Held(i) =>
       i <= made /\ pend[i].from \in Times /\ pend[i].value \in Values
  /\ current # 0 => current \in Ids /\ Live(current)

\* An approve request holds an update that was well formed when it was held.
Reviewed ==
  \A r \in Reviewers : rpc[r] # "idle" =>
    review[r].id \in Ids /\ review[r].from \in Times /\ review[r].value \in Values

\* The current state is the youngest.
Youngest == whole => \A i \in Ids : Live(i) => current # 0 /\ i <= current

\* What there is to say of the graph by itself.
GraphTypes ==
  /\ state \in [Ids -> State] /\ pend \in [Ids -> PendingState]
  /\ \A i \in Ids : Held(i) => pend[i].value # NoValue /\ pend[i].why # "none"
  /\ current \in 0 .. MaxNodes /\ keyed \in BOOLEAN /\ made \in 0 .. MaxNodes

GraphInv == GraphTypes /\ Made /\ Youngest /\ TimelineOK

OtherTypes ==
  /\ purging \in BOOLEAN /\ whole \in BOOLEAN
  /\ rpc \in [Reviewers -> {"idle", "mark", "apply"}]
  /\ review \in [Reviewers -> Review]
  /\ told \in (Values \X Times) \cup {NoUpdate}

\* The inductive invariant.
IInv == GraphInv /\ OtherTypes /\ Reviewed

-----------------------------------------------------------------------------
(* Types.                                                                  *)

\* The nodes that are made are nodes.
LEMMA Constants ==
  ASSUME TimelineAssumption
  PROVE  /\ NoState \in State /\ NoPending \in PendingState /\ NoReview \in Review
         /\ \A v \in Values, t \in Times :
              /\ [value |-> v, from |-> t, to |-> Forever] \in State
              /\ [value |-> v, from |-> t, to |-> Forever] # NoState
              /\ \A why \in {"held", "out_of_order"} :
                   LET p == [value |-> v, from |-> t, why |-> why, status |-> "pending"]
                   IN  p \in PendingState /\ p # NoPending
  BY DEF TimelineAssumption, NoState, State, NoPending, PendingState, NoReview, Review,
         Times, Forever

\* Closing the current state changes its end and nothing else.
LEMMA Closing ==
  ASSUME GraphTypes, Made, TimelineAssumption, current # 0, NEW t \in Times
  PROVE  /\ Closed(t) \in [Ids -> State]
         /\ \A i \in Ids : i # current => Closed(t)[i] = state[i]
         /\ Closed(t)[current].from = state[current].from
         /\ Closed(t)[current].value = state[current].value
         /\ Closed(t)[current].to = t - 1
         /\ \A i \in Ids : Closed(t)[i] # NoState <=> Live(i)
<1>1. state \in [Ids -> State] /\ current \in Ids /\ Live(current)
  BY DEF GraphTypes, Made
<1>2. state[current].from \in Times /\ t - 1 \in 0 .. Forever
  BY <1>1 DEF Made, Times, Forever, TimelineAssumption
<1>3. [state[current] EXCEPT !.to = t - 1] \in State
  BY <1>1, <1>2 DEF State
<1>4. [state[current] EXCEPT !.to = t - 1] # NoState
  BY <1>1, <1>2 DEF State, NoState, Times
<1>5. Closed(t) = [state EXCEPT ![current] = [state[current] EXCEPT !.to = t - 1]]
  BY <1>1 DEF Closed
<1>6. /\ Closed(t) \in [Ids -> State]
      /\ \A i \in Ids : i # current => Closed(t)[i] = state[i]
      /\ Closed(t)[current] = [state[current] EXCEPT !.to = t - 1]
  BY <1>1, <1>3, <1>5
<1>7. /\ Closed(t)[current].from = state[current].from
      /\ Closed(t)[current].value = state[current].value
      /\ Closed(t)[current].to = t - 1
  BY <1>1, <1>6 DEF State
<1> QED BY <1>1, <1>4, <1>6, <1>7 DEF Live

-----------------------------------------------------------------------------
(* An update.                                                              *)

\* A pending node more, or none, changes nothing of the timeline.
LEMMA AddPendingKeeps ==
  ASSUME GraphInv, TimelineAssumption, NEW v \in Values, NEW t \in Times,
         NEW why \in {"held", "out_of_order"},
         AddPending(v, t, why), keyed' \in BOOLEAN, UNCHANGED whole
  PROVE  GraphInv'
<1> DEFINE n == made + 1
           p == [value |-> v, from |-> t, why |-> why, status |-> "pending"]
<1>1. /\ n \in Ids /\ n > made /\ made' = n
      /\ pend' = [pend EXCEPT ![n] = p]
      /\ UNCHANGED <<state, current>>
  BY DEF GraphInv, GraphTypes, AddPending, Ids, TimelineAssumption
<1>2. p \in PendingState /\ p # NoPending /\ v # NoValue
  BY Constants DEF TimelineAssumption
<1> HIDE DEF n, p
<1>3. /\ pend' \in [Ids -> PendingState] /\ pend'[n] = p
      /\ \A i \in Ids : i # n => pend'[i] = pend[i]
  BY <1>1, <1>2 DEF GraphInv, GraphTypes
<1>4. p.value = v /\ p.from = t /\ p.why = why
  BY DEF p
<1>5. GraphTypes'
  BY <1>1, <1>2, <1>3, <1>4 DEF GraphInv, GraphTypes, Held, Ids
<1>6. Made'
  <2>1. \A i \in Ids : Live(i)' <=> Live(i)
    BY <1>1 DEF Live
  <2>2. \A i \in Ids : i <= made => i <= made'
    BY <1>1 DEF GraphInv, GraphTypes, Ids
  <2>3. ASSUME NEW i \in Ids, Held(i)'
        PROVE  i <= made' /\ pend'[i].from \in Times /\ pend'[i].value \in Values
    <3>1. CASE i = n
      BY <1>1, <1>3, <1>4, <3>1 DEF Ids
    <3>2. CASE i # n
      BY <1>3, <2>2, <2>3, <3>2 DEF GraphInv, Made, Held
    <3> QED BY <3>1, <3>2
  <2> QED BY <1>1, <2>1, <2>2, <2>3 DEF GraphInv, Made
<1>7. Youngest' /\ TimelineOK'
  BY <1>1 DEF GraphInv, Youngest, TimelineOK, Live
<1> QED BY <1>5, <1>6, <1>7 DEF GraphInv

\* A first state.
LEMMA FirstKeeps ==
  ASSUME GraphInv, TimelineAssumption, NEW v \in Values, NEW t \in Times,
         current = 0, AddState(v, t, state), keyed' \in BOOLEAN, UNCHANGED whole
  PROVE  GraphInv'
<1> DEFINE n == made + 1
           s == [value |-> v, from |-> t, to |-> Forever]
<1>1. /\ n \in Ids /\ n > made /\ made' = n /\ current' = n /\ n # 0
      /\ state' = [state EXCEPT ![n] = s]
      /\ UNCHANGED pend
  BY DEF GraphInv, GraphTypes, AddState, Ids, TimelineAssumption
<1>2. s \in State /\ s # NoState
  BY Constants
<1>4. s.value = v /\ s.from = t /\ s.to = Forever
  OBVIOUS
<1> HIDE DEF n, s
<1>3. /\ state' \in [Ids -> State] /\ state'[n] = s
      /\ \A i \in Ids : i # n => state'[i] = state[i]
  BY <1>1, <1>2 DEF GraphInv, GraphTypes
<1>5. GraphTypes'
  BY <1>1, <1>3 DEF GraphInv, GraphTypes, Held, Ids
<1>6. \A i \in Ids : /\ i = n => Live(i)'
                     /\ i # n => (Live(i)' <=> Live(i))
  BY <1>2, <1>3 DEF Live
<1>d. \A i \in Ids : /\ i <= made => i <= made'
                     /\ Held(i)' <=> Held(i)
                     /\ Held(i) => pend'[i] = pend[i]
  BY <1>1 DEF Held, Ids, GraphInv, GraphTypes
<1>7. Made'
  <2>1. \A i \in Ids : Live(i)' => i <= made' /\ state'[i].from \in Times
    BY <1>1, <1>3, <1>4, <1>6, <1>d DEF GraphInv, Made, Ids
  <2>2. \A i \in Ids : Held(i)' =>
          i <= made' /\ pend'[i].from \in Times /\ pend'[i].value \in Values
    BY <1>d DEF GraphInv, Made
  <2> QED BY <1>1, <1>6, <2>1, <2>2 DEF Made
<1>8. ASSUME whole PROVE \A i \in Ids : Live(i)' <=> i = n
  <2>1. \A i \in Ids : ~Live(i)
    BY <1>8 DEF GraphInv, Youngest
  <2> QED BY <1>6, <2>1
<1>9. Youngest'
  BY <1>1, <1>8 DEF Youngest, Ids
<1>10. TimelineOK'
  BY <1>1, <1>3, <1>4, <1>8 DEF TimelineOK, Ids
<1> QED BY <1>5, <1>7, <1>9, <1>10 DEF GraphInv

\* A state that follows the current one, which it closes.
LEMMA NextKeeps ==
  ASSUME GraphInv, TimelineAssumption, NEW v \in Values, NEW t \in Times,
         current # 0, ~Late(t), AddState(v, t, Closed(t)), keyed' \in BOOLEAN,
         UNCHANGED whole
  PROVE  GraphInv'
<1> DEFINE n == made + 1
           s == [value |-> v, from |-> t, to |-> Forever]
<1>1. /\ n \in Ids /\ n > made /\ made' = n /\ current' = n /\ n # 0
      /\ state' = [Closed(t) EXCEPT ![n] = s]
      /\ UNCHANGED pend
  BY DEF GraphInv, GraphTypes, AddState, Ids, TimelineAssumption
<1>2. s \in State /\ s # NoState
  BY Constants
<1>4. s.value = v /\ s.from = t /\ s.to = Forever
  OBVIOUS
<1> HIDE DEF n, s
<1>a. /\ Closed(t) \in [Ids -> State]
      /\ \A i \in Ids : i # current => Closed(t)[i] = state[i]
      /\ Closed(t)[current].from = state[current].from
      /\ Closed(t)[current].to = t - 1
      /\ \A i \in Ids : Closed(t)[i] # NoState <=> Live(i)
  BY Closing DEF GraphInv
<1>b. current \in Ids /\ Live(current) /\ current <= made
  BY DEF GraphInv, Made
<1>3. /\ state' \in [Ids -> State] /\ state'[n] = s
      /\ \A i \in Ids : i # n => state'[i] = Closed(t)[i]
  BY <1>1, <1>2, <1>a
<1>5. GraphTypes'
  BY <1>1, <1>3 DEF GraphInv, GraphTypes, Held, Ids
<1>6. \A i \in Ids : /\ i = n => Live(i)'
                     /\ i # n => (Live(i)' <=> Live(i))
  BY <1>2, <1>3, <1>a DEF Live
<1>c. \A i \in Ids : Live(i) =>
        i # n /\ i < n /\ state'[i].from = state[i].from /\ state[i].from \in Times
  BY <1>1, <1>3, <1>a DEF GraphInv, GraphTypes, Made, Ids
<1>d. \A i \in Ids : /\ i <= made => i <= made'
                     /\ Held(i)' <=> Held(i)
                     /\ Held(i) => pend'[i] = pend[i]
  BY <1>1 DEF Held, Ids, GraphInv, GraphTypes
<1>7. Made'
  <2>1. \A i \in Ids : Live(i)' => i <= made' /\ state'[i].from \in Times
    BY <1>1, <1>3, <1>4, <1>6, <1>c DEF Ids
  <2>2. \A i \in Ids : Held(i)' =>
          i <= made' /\ pend'[i].from \in Times /\ pend'[i].value \in Values
    BY <1>d DEF GraphInv, Made
  <2> QED BY <1>1, <1>6, <2>1, <2>2 DEF Made
<1>8. Youngest'
  BY <1>1, <1>6, <1>c DEF Youngest, Ids
<1>9. TimelineOK'
  <2>0. SUFFICES ASSUME whole PROVE TimelineOK'
    BY DEF TimelineOK
  <2>1. \A i \in Ids : Live(i) => i <= current
    BY <2>0 DEF GraphInv, Youngest
  <2>2. \A i \in Ids : Live(i)' => i = n \/ Live(i)
    BY <1>6
  <2>3. \A i, j \in Ids : Live(i) /\ Live(j) /\ i < j => state[i].from <= state[j].from
    BY <2>0 DEF GraphInv, TimelineOK
  <2>4. \A i \in Ids : Live(i) => state[i].from <= t
    BY <1>b, <1>c, <2>1, <2>3 DEF Late, Times, Ids
  <2>5. ASSUME NEW i \in Ids, NEW j \in Ids, Live(i)', Live(j)', i < j
        PROVE  state'[i].from <= state'[j].from
    <3>1. CASE j = n
      BY <1>1, <1>3, <1>4, <1>c, <2>2, <2>4, <2>5, <3>1 DEF Ids
    <3>2. CASE Live(j)
      BY <1>1, <1>c, <2>2, <2>3, <2>5, <3>2 DEF Ids
    <3> QED BY <2>2, <2>5, <3>1, <3>2
  <2>6. ASSUME NEW i \in Ids, Live(i)', i # n
        PROVE  \E j \in Ids :
                 /\ i < j /\ Live(j)' /\ state'[i].to = state'[j].from - 1
                 /\ \A k \in Ids : i < k /\ Live(k)' => j <= k
    <3>1. Live(i)
      BY <2>2, <2>6
    <3>2. CASE i = current
      <4>1. \A k \in Ids : i < k /\ Live(k)' => n <= k
        BY <1>1, <2>1, <2>2, <3>2 DEF Ids
      <4>2. state'[i].to = t - 1
        BY <1>3, <1>a, <2>6, <3>2
      <4> QED BY <1>1, <1>3, <1>4, <1>6, <1>c, <3>1, <4>1, <4>2
    <3>3. CASE i # current
      <4>1. PICK j \in Ids : /\ i < j /\ Live(j) /\ state[i].to = state[j].from - 1
                             /\ \A k \in Ids : i < k /\ Live(k) => j <= k
        BY <3>1, <2>0, <3>3 DEF GraphInv, TimelineOK
      <4>2. state'[i].to = state'[j].from - 1 /\ Live(j)'
        BY <1>3, <1>6, <1>a, <1>c, <2>6, <3>3, <4>1
      <4>3. \A k \in Ids : i < k /\ Live(k)' => j <= k
        BY <1>1, <1>c, <2>2, <4>1 DEF Ids
      <4> QED BY <4>1, <4>2, <4>3
    <3> QED BY <3>2, <3>3
  <2>7. \A i \in Ids : Live(i)' => state'[i].from \in Times
    BY <1>7 DEF Made
  <2> QED BY <1>1, <1>3, <1>4, <1>6, <2>5, <2>6, <2>7 DEF TimelineOK
<1> QED BY <1>5, <1>7, <1>8, <1>9 DEF GraphInv

\* An update, applied, pending or touched.
LEMMA ApplyKeeps ==
  ASSUME GraphInv, TimelineAssumption, NEW v \in Values, NEW t \in Times,
         Apply(v, t), UNCHANGED whole
  PROVE  GraphInv'
<1>1. keyed' \in BOOLEAN
  BY DEF Apply
<1>2. CASE current = 0 /\ AddState(v, t, state)
  BY <1>1, <1>2, FirstKeeps
<1>3. CASE AddPending(v, t, "out_of_order")
  BY <1>1, <1>3, AddPendingKeeps
<1>4. CASE current # 0 /\ ~Late(t) /\ AddState(v, t, Closed(t))
  BY <1>1, <1>4, NextKeeps
<1>5. CASE Touched
  BY <1>1, <1>5 DEF Touched, GraphInv, GraphTypes, Made, Youngest, TimelineOK, Live, Held
<1> QED BY <1>2, <1>3, <1>4, <1>5 DEF Apply

-----------------------------------------------------------------------------
(* The other steps.                                                        *)

\* The status of a pending state is no matter of the timeline.
LEMMA ResolvedKeeps ==
  ASSUME GraphInv, NEW i \in Ids, NEW status \in {"approved", "rejected"},
         pend' \in {pend, Resolved(i, status)},
         UNCHANGED <<state, current, keyed, made, whole>>
  PROVE  GraphInv'
<1>1. pend \in [Ids -> PendingState]
  BY DEF GraphInv, GraphTypes
<1>2. /\ Resolved(i, status) \in [Ids -> PendingState]
      /\ \A k \in Ids : /\ Resolved(i, status)[k].value = pend[k].value
                        /\ Resolved(i, status)[k].from = pend[k].from
                        /\ Resolved(i, status)[k].why = pend[k].why
                        /\ Resolved(i, status)[k] # NoPending => Held(k)
  <2>1. CASE ~Held(i)
    BY <1>1, <2>1 DEF Resolved, Held
  <2>2. CASE Held(i)
    <3> DEFINE p == [pend[i] EXCEPT !.status = status]
    <3>1. p \in PendingState /\ p.value = pend[i].value /\ p.from = pend[i].from
          /\ p.why = pend[i].why
      BY <1>1 DEF PendingState
    <3>2. Resolved(i, status) = [pend EXCEPT ![i] = p]
      BY <1>1, <2>2 DEF Resolved
    <3> HIDE DEF p
    <3>3. /\ Resolved(i, status) \in [Ids -> PendingState]
          /\ Resolved(i, status)[i] = p
          /\ \A k \in Ids : k # i => Resolved(i, status)[k] = pend[k]
      BY <1>1, <3>1, <3>2
    <3> QED BY <2>2, <3>1, <3>3 DEF Held
  <2> QED BY <2>1, <2>2
<1>3. /\ pend' \in [Ids -> PendingState]
      /\ \A k \in Ids : /\ pend'[k].value = pend[k].value
                        /\ pend'[k].from = pend[k].from
                        /\ pend'[k].why = pend[k].why
                        /\ pend'[k] # NoPending => Held(k)
  BY <1>1, <1>2 DEF Held
<1>4. GraphTypes' /\ Made'
  BY <1>3 DEF GraphInv, GraphTypes, Made, Held, Live
<1> QED BY <1>4 DEF GraphInv, Youngest, TimelineOK, Live

\* Nor is what leaves the graph alone.
LEMMA SameKeeps ==
  ASSUME GraphInv, UNCHANGED <<graph, whole>>
  PROVE  GraphInv'
  BY DEF GraphInv, GraphTypes, Made, Youngest, TimelineOK, Live, Held, graph

\* A batch of the purge takes nodes away, and takes the CURRENT edge with either
\* of its ends.  After a batch the graph is whole when nothing is left of the
\* property, or nothing of it was in the batch.
LEMMA PurgingKeeps ==
  ASSUME GraphInv, TimelineAssumption, PurgeBatch
  PROVE  /\ GraphInv'
         /\ whole' => current' = 0 \/ UNCHANGED state
<1> PICK batch \in SUBSET Nodes :
      /\ state' = [i \in Ids |-> IF i \in batch THEN NoState ELSE state[i]]
      /\ pend' = [i \in Ids |-> IF i \in batch THEN NoPending ELSE pend[i]]
      /\ current' = IF {Key, current} \cap batch = {} THEN current ELSE 0
      /\ keyed' = (keyed /\ Key \notin batch)
      /\ whole' = (batch = Nodes \/ (whole /\ batch = {}))
  BY DEF PurgeBatch
<1>1. made' = made
  BY DEF PurgeBatch
<1>2. NoState \in State /\ NoPending \in PendingState
  BY Constants
<1>3. \A i \in Ids : /\ Live(i)' <=> Live(i) /\ i \notin batch
                     /\ Live(i)' => state'[i] = state[i]
                     /\ Held(i)' <=> Held(i) /\ i \notin batch
                     /\ Held(i)' => pend'[i] = pend[i]
  BY DEF Live, Held
<1>4. GraphTypes'
  <2>1. state' \in [Ids -> State] /\ pend' \in [Ids -> PendingState]
    BY <1>2 DEF GraphInv, GraphTypes
  <2>2. current' \in 0 .. MaxNodes
    BY DEF GraphInv, GraphTypes, TimelineAssumption
  <2> QED BY <1>1, <1>3, <2>1, <2>2 DEF GraphInv, GraphTypes
<1>5. current' # 0 => current' = current /\ current \notin batch
  OBVIOUS
<1>6. Made'
  BY <1>1, <1>3, <1>5 DEF GraphInv, Made
<1>7. CASE batch = Nodes
  <2>1. \A i \in Ids : ~Live(i)'
    BY <1>3, <1>7 DEF Nodes
  <2>2. current' = 0
    BY <1>6, <2>1 DEF Made
  <2> QED BY <1>4, <1>6, <2>1, <2>2 DEF GraphInv, Youngest, TimelineOK
<1>8. CASE ~whole'
  BY <1>4, <1>6, <1>8 DEF GraphInv, Youngest, TimelineOK
<1>9. CASE whole /\ batch = {}
  <2>1. state' = state
    BY <1>9 DEF GraphInv, GraphTypes
  <2>2. current' = current
    BY <1>9
  <2> QED BY <1>4, <1>6, <1>9, <2>1, <2>2 DEF GraphInv, Youngest, TimelineOK, Live
<1> QED BY <1>7, <1>8, <1>9

\* An approve request takes over what was held.
LEMMA ReviewTypes ==
  ASSUME OtherTypes, GraphInv, TimelineAssumption, NEW r \in Reviewers
  PROVE  /\ \A i \in Ids, apply \in BOOLEAN :
              [id |-> i, value |-> pend[i].value, from |-> pend[i].from,
               apply |-> apply /\ pend[i].why # "out_of_order"] \in Review
         /\ [review EXCEPT ![r] = NoReview] \in [Reviewers -> Review]
         /\ \A where \in {"idle", "mark", "apply"} :
              [rpc EXCEPT ![r] = where] \in [Reviewers -> {"idle", "mark", "apply"}]
<1>1. NoReview \in Review
  BY Constants
<1>2. pend \in [Ids -> PendingState]
  BY DEF GraphInv, GraphTypes
<1> QED BY <1>1, <1>2 DEF OtherTypes, Review, PendingState

\* Every step keeps the invariant.
LEMMA Step ==
  ASSUME IInv, TimelineAssumption, [Next]_vars
  PROVE  IInv'
<1> USE DEF IInv
<1>1. ASSUME NEW v \in Values, NEW t \in Times, Update(v, t) PROVE IInv'
  <2>1. GraphInv'
    BY <1>1, ApplyKeeps DEF Update
  <2> QED BY <1>1, <2>1 DEF Update, OtherTypes, Reviewed
<1>2. ASSUME NEW v \in Values, NEW t \in Times, Hold(v, t) PROVE IInv'
  <2>1. GraphInv'
    BY <1>2, AddPendingKeeps DEF Hold
  <2> QED BY <1>2, <2>1 DEF Hold, OtherTypes, Reviewed
<1>3. ASSUME NEW r \in Reviewers, NEW i \in Ids, NEW apply \in BOOLEAN, Approve(r, i, apply)
      PROVE  IInv'
  <2>1. GraphInv'
    BY <1>3, SameKeeps DEF Approve
  <2>2. OtherTypes'
    BY <1>3, ReviewTypes DEF Approve, OtherTypes
  <2>3. Reviewed'
    BY <1>3 DEF Approve, Reviewed, OtherTypes, GraphInv, Made
  <2> QED BY <2>1, <2>2, <2>3
<1>4. ASSUME NEW r \in Reviewers, MarkApproved(r) PROVE IInv'
  <2>1. GraphInv'
    BY <1>4, ResolvedKeeps DEF MarkApproved, Reviewed
  <2>2. OtherTypes'
    BY <1>4, ReviewTypes DEF MarkApproved, OtherTypes
  <2>3. Reviewed'
    BY <1>4 DEF MarkApproved, Reviewed, OtherTypes
  <2> QED BY <2>1, <2>2, <2>3
<1>5. ASSUME NEW r \in Reviewers, ApplyApproved(r) PROVE IInv'
  <2>1. review[r].value \in Values /\ review[r].from \in Times
    BY <1>5 DEF ApplyApproved, Reviewed
  <2>2. GraphInv'
    BY <1>5, <2>1, ApplyKeeps, SameKeeps DEF ApplyApproved
  <2>3. OtherTypes'
    BY <1>5, ReviewTypes DEF ApplyApproved, OtherTypes
  <2>4. Reviewed'
    BY <1>5 DEF ApplyApproved, Reviewed, OtherTypes
  <2> QED BY <2>2, <2>3, <2>4
<1>6. ASSUME NEW r \in Reviewers, Abandon(r) PROVE IInv'
  <2>1. GraphInv'
    BY <1>6, SameKeeps DEF Abandon
  <2>2. OtherTypes'
    BY <1>6, ReviewTypes DEF Abandon, OtherTypes
  <2>3. Reviewed'
    BY <1>6 DEF Abandon, Reviewed, OtherTypes
  <2> QED BY <2>1, <2>2, <2>3
<1>7. ASSUME NEW i \in Ids, Reject(i) PROVE IInv'
  <2>1. GraphInv'
    BY <1>7, ResolvedKeeps DEF Reject
  <2> QED BY <1>7, <2>1 DEF Reject, OtherTypes, Reviewed
<1>8. CASE BeginPurge \/ PurgeFails
  <2>1. GraphInv'
    BY <1>8, SameKeeps DEF BeginPurge, PurgeFails
  <2> QED BY <1>8, <2>1 DEF BeginPurge, PurgeFails, OtherTypes, Reviewed
<1>9. CASE PurgeBatch
  <2>1. GraphInv'
    BY <1>9, PurgingKeeps
  <2>2. purging' \in BOOLEAN /\ whole' \in BOOLEAN
    BY <1>9 DEF PurgeBatch, OtherTypes
  <2> QED BY <1>9, <2>1, <2>2 DEF PurgeBatch, OtherTypes, Reviewed
<1>10. CASE UNCHANGED vars
  <2>1. GraphInv'
    BY <1>10, SameKeeps DEF vars
  <2> QED BY <1>10, <2>1 DEF vars, OtherTypes, Reviewed
<1> QED
  BY <1>1, <1>2, <1>3, <1>4, <1>5, <1>6, <1>7, <1>8, <1>9, <1>10 DEF Next

\* An empty graph has it.
LEMMA Start ==
  ASSUME TimelineInit, TimelineAssumption
  PROVE  IInv
<1> USE DEF TimelineInit
<1>1. NoState \in State /\ NoPending \in PendingState /\ NoReview \in Review
  BY Constants
<1>3. \A i \in Ids : ~Live(i) /\ ~Held(i)
  BY DEF Live, Held
<1>2. GraphTypes
  <2>1. state \in [Ids -> State] /\ pend \in [Ids -> PendingState]
    BY <1>1
  <2>2. 0 \in 0 .. MaxNodes
    BY DEF TimelineAssumption
  <2> QED BY <1>3, <2>1, <2>2 DEF GraphTypes
<1>4. OtherTypes /\ Reviewed
  BY <1>1 DEF OtherTypes, Reviewed
<1> QED BY <1>2, <1>3, <1>4 DEF IInv, GraphInv, Made, Youngest, TimelineOK

\* The invariant holds always.
LEMMA Inductive == Spec => []IInv
<1>1. TimelineInit => IInv
  BY Start, TimelineAssumption
<1>2. IInv /\ [Next]_vars => IInv'
  BY Step, TimelineAssumption
<1> QED BY <1>1, <1>2, PTL DEF Spec

\* Every variable of the timeline is of its type.
THEOREM TimelineTypes == Spec => []TypeOK
<1>1. IInv => TypeOK
  BY DEF IInv, GraphInv, GraphTypes, OtherTypes, TypeOK
<1> QED BY <1>1, Inductive, PTL

\* Updates, approvals, replays and purges in any order leave one timeline.
THEOREM OneTimeline == Spec => []TimelineOK
<1>1. IInv => TimelineOK
  BY DEF IInv, GraphInv
<1> QED BY <1>1, Inductive, PTL

-----------------------------------------------------------------------------
(* History.                                                                *)

KeptAt(t) ==
  t < state[current].from \/ t + 1 < state'[current'].from =>
    AnswersAt(t)' = AnswersAt(t)

\* A step that leaves the states alone leaves the answers alone.
LEMMA SameAnswers ==
  ASSUME UNCHANGED state
  PROVE  \A t : AnswersAt(t)' = AnswersAt(t)
  BY DEF AnswersAt, Live

\* A state that follows the current one answers for no time before its own, and
\* closing the current one changes no answer before that.
LEMMA NextAnswers ==
  ASSUME GraphInv, TimelineAssumption, whole, NEW v \in Values, NEW u \in Times,
         current # 0, ~Late(u), AddState(v, u, Closed(u)), NEW t \in Times
  PROVE  KeptAt(t)
<1> DEFINE n == made + 1
           s == [value |-> v, from |-> u, to |-> Forever]
<1>1. /\ n \in Ids /\ n > made /\ current' = n
      /\ state' = [Closed(u) EXCEPT ![n] = s]
  BY DEF GraphInv, GraphTypes, AddState, Ids, TimelineAssumption
<1>2. s.from = u /\ s \in State
  BY Constants
<1> HIDE DEF n, s
<1>3. /\ Closed(u) \in [Ids -> State]
      /\ \A i \in Ids : i # current => Closed(u)[i] = state[i]
      /\ Closed(u)[current].from = state[current].from
      /\ Closed(u)[current].to = u - 1
      /\ \A i \in Ids : Closed(u)[i] # NoState <=> Live(i)
  BY Closing DEF GraphInv
<1>4. state'[n] = s /\ \A i \in Ids : i # n => state'[i] = Closed(u)[i]
  BY <1>1, <1>2, <1>3
<1>5. /\ current \in Ids /\ current # n /\ Live(current)
      /\ state[current].from \in Times /\ state[current].to = Forever
      /\ ~Live(n)
  BY <1>1 DEF GraphInv, GraphTypes, Made, TimelineOK, Ids
<1>6. state'[current'].from = u /\ state[current].from <= u
  BY <1>1, <1>2, <1>4, <1>5 DEF Late, Times
<1>7. SUFFICES ASSUME t < state[current].from \/ t + 1 < u
               PROVE  AnswersAt(t)' = AnswersAt(t)
  BY <1>6 DEF KeptAt
<1>8. t < u /\ u \in Nat /\ t \in Nat /\ Forever > t
  BY <1>5, <1>6, <1>7 DEF Times, Forever, TimelineAssumption
<1>9. n \notin AnswersAt(t) /\ ~(s.from <= t)
  BY <1>2, <1>5, <1>8 DEF AnswersAt
<1>10. \A i \in Ids : i \in AnswersAt(t)' <=>
         state'[i] # NoState /\ state'[i].from <= t /\ state'[i].to > t
  BY DEF AnswersAt, Live
<1>11. \A i \in Ids : i \in AnswersAt(t) <=>
         state[i] # NoState /\ state[i].from <= t /\ state[i].to > t
  BY DEF AnswersAt, Live
<1>12. n \notin AnswersAt(t)'
  BY <1>1, <1>4, <1>9, <1>10
<1>13. current \in AnswersAt(t)' <=> current \in AnswersAt(t)
  <2>1. current \in AnswersAt(t) <=> state[current].from <= t
    BY <1>5, <1>8, <1>11 DEF Live
  <2>2. \A i \in Ids : i = current =>
          (i \in AnswersAt(t)' <=> state[current].from <= t /\ u - 1 > t)
    BY <1>3, <1>4, <1>5, <1>10
  <2>3. state[current].from <= t => u - 1 > t
    BY <1>5, <1>7, <1>8 DEF Times
  <2> QED BY <1>5, <2>1, <2>2, <2>3
<1>14. \A i \in Ids : i # n /\ i # current =>
         (i \in AnswersAt(t)' <=> i \in AnswersAt(t))
  BY <1>3, <1>4, <1>10, <1>11
<1>15. \A i \in Ids : i \in AnswersAt(t)' <=> i \in AnswersAt(t)
  BY <1>9, <1>12, <1>13, <1>14
<1>16. AnswersAt(t)' \subseteq Ids /\ AnswersAt(t) \subseteq Ids
  BY DEF AnswersAt
<1> QED BY <1>15, <1>16

\* An update keeps the past.
LEMMA ApplyAnswers ==
  ASSUME GraphInv, TimelineAssumption, whole, NEW v \in Values, NEW u \in Times,
         current # 0, Apply(v, u), NEW t \in Times
  PROVE  KeptAt(t)
<1>1. CASE ~Late(u) /\ AddState(v, u, Closed(u))
  BY <1>1, NextAnswers
<1>2. CASE UNCHANGED state
  BY <1>2, SameAnswers DEF KeptAt
<1> QED BY <1>1, <1>2 DEF Apply, AddPending, Touched

HistoryStep ==
  whole /\ whole' /\ current # 0 /\ current' # 0 =>
    \A t \in Times :
      t < state[current].from \/ t + 1 < state'[current'].from =>
        AnswersAt(t)' = AnswersAt(t)

\* Every step keeps the past.
LEMMA HistoryKept ==
  ASSUME IInv, TimelineAssumption, [Next]_vars
  PROVE  HistoryStep
<1> SUFFICES ASSUME whole, whole', current # 0, current' # 0, NEW t \in Times
             PROVE  KeptAt(t)
  BY DEF HistoryStep, KeptAt
<1>1. ASSUME NEW v \in Values, NEW u \in Times, Update(v, u) PROVE KeptAt(t)
  BY <1>1, ApplyAnswers DEF Update, IInv
<1>2. ASSUME NEW r \in Reviewers, ApplyApproved(r) PROVE KeptAt(t)
  <2>1. review[r].value \in Values /\ review[r].from \in Times
    BY <1>2 DEF ApplyApproved, Reviewed, IInv
  <2>2. CASE Apply(review[r].value, review[r].from)
    BY <2>1, <2>2, ApplyAnswers DEF IInv
  <2>3. CASE UNCHANGED graph
    BY <2>3, SameAnswers DEF graph, KeptAt
  <2> QED BY <1>2, <2>2, <2>3 DEF ApplyApproved
<1>3. CASE PurgeBatch
  BY <1>3, PurgingKeeps, SameAnswers DEF IInv, KeptAt
<1>4. CASE UNCHANGED state
  BY <1>4, SameAnswers DEF KeptAt
<1>5. \/ \E v \in Values, u \in Times : Update(v, u)
      \/ \E r \in Reviewers : ApplyApproved(r)
      \/ PurgeBatch
      \/ UNCHANGED state
  BY DEF Next, Hold, AddPending, Approve, MarkApproved, Abandon, Reject, BeginPurge,
         PurgeFails, vars, graph
<1> QED BY <1>1, <1>2, <1>3, <1>4, <1>5

\* What was true at a time before both the old and the new current state stays
\* true: no update, review or replay rewrites the past.
THEOREM PastIsKept == Spec => HistoryIsKept
<1>1. IInv /\ [Next]_vars => HistoryStep
  BY HistoryKept, TimelineAssumption
<1> QED BY <1>1, Inductive, PTL DEF Spec, HistoryIsKept, HistoryStep

-----------------------------------------------------------------------------
(* Updates.                                                                *)

\* Every node stays, with the value and the time it has.
Persists ==
  \A i \in Ids :
    /\ Live(i) => /\ Live(i)'
                  /\ state'[i].value = state[i].value /\ state'[i].from = state[i].from
    /\ Held(i) => /\ Held(i)'
                  /\ pend'[i].value = pend[i].value /\ pend'[i].from = pend[i].from

Remains(v, t) ==
  \/ \E i \in Ids : Live(i) /\ state[i].value = v /\ state[i].from <= t
  \/ \E i \in Ids : Held(i) /\ pend[i].value = v /\ pend[i].from = t

ToldInv == told # NoUpdate => Remains(told[1], told[2])

\* A pending node more leaves the others, and keeps its update.
LEMMA AddPendingPersists ==
  ASSUME GraphInv, TimelineAssumption, NEW v \in Values, NEW t \in Times,
         NEW why \in {"held", "out_of_order"}, AddPending(v, t, why)
  PROVE  Persists /\ Remains(v, t)'
<1> DEFINE n == made + 1
           p == [value |-> v, from |-> t, why |-> why, status |-> "pending"]
<1>1. n \in Ids /\ n > made /\ pend' = [pend EXCEPT ![n] = p] /\ state' = state
  BY DEF GraphInv, GraphTypes, AddPending, Ids, TimelineAssumption
<1>2. p # NoPending /\ p.value = v /\ p.from = t
  BY Constants
<1> HIDE DEF n, p
<1>3. pend'[n] = p /\ \A i \in Ids : i # n => pend'[i] = pend[i]
  BY <1>1 DEF GraphInv, GraphTypes
<1>4. ~Held(n)
  BY <1>1 DEF GraphInv, GraphTypes, Made, Ids
<1>5. \A i \in Ids : i = n => Held(i)' /\ pend'[i].value = v /\ pend'[i].from = t
  BY <1>2, <1>3 DEF Held
<1>6. Remains(v, t)'
  BY <1>1, <1>5 DEF Remains
<1> QED BY <1>1, <1>3, <1>4, <1>6 DEF Persists, Live, Held

\* So does a state more, whatever happens to the end of the others.
LEMMA AddStatePersists ==
  ASSUME GraphInv, TimelineAssumption, NEW v \in Values, NEW t \in Times,
         NEW old \in [Ids -> State],
         \A i \in Ids : Live(i) => /\ old[i] # NoState /\ old[i].value = state[i].value
                                   /\ old[i].from = state[i].from,
         AddState(v, t, old)
  PROVE  Persists /\ Remains(v, t)'
<1> DEFINE n == made + 1
           s == [value |-> v, from |-> t, to |-> Forever]
<1>1. n \in Ids /\ n > made /\ state' = [old EXCEPT ![n] = s] /\ pend' = pend
  BY DEF GraphInv, GraphTypes, AddState, Ids, TimelineAssumption
<1>2. s # NoState /\ s.value = v /\ s.from = t
  BY Constants
<1> HIDE DEF n, s
<1>3. state'[n] = s /\ \A i \in Ids : i # n => state'[i] = old[i]
  BY <1>1
<1>4. ~Live(n)
  BY <1>1 DEF GraphInv, GraphTypes, Made, Ids
<1>5. \A i \in Ids : i = n => Live(i)' /\ state'[i].value = v /\ state'[i].from <= t
  BY <1>2, <1>3 DEF Live, Times
<1>6. Remains(v, t)'
  BY <1>1, <1>5 DEF Remains
<1>7. \A i \in Ids : Live(i) => Live(i)' /\ state'[i].value = state[i].value
                                         /\ state'[i].from = state[i].from
  BY <1>3, <1>4 DEF Live
<1> QED BY <1>1, <1>6, <1>7 DEF Persists, Held

\* An update ends up on the timeline or among the pending states.
LEMMA ApplyPersists ==
  ASSUME GraphInv, TimelineAssumption, NEW v \in Values, NEW t \in Times, Apply(v, t)
  PROVE  Persists /\ Remains(v, t)'
<1>0. state \in [Ids -> State]
  BY DEF GraphInv, GraphTypes
<1>1. CASE AddState(v, t, state)
  BY <1>0, <1>1, AddStatePersists DEF Live
<1>2. CASE AddPending(v, t, "out_of_order")
  BY <1>2, AddPendingPersists
<1>3. CASE current # 0 /\ AddState(v, t, Closed(t))
  <2>1. /\ Closed(t) \in [Ids -> State]
        /\ \A i \in Ids : Live(i) => /\ Closed(t)[i] # NoState
                                      /\ Closed(t)[i].value = state[i].value
                                      /\ Closed(t)[i].from = state[i].from
    BY <1>3, Closing DEF GraphInv
  <2> QED BY <1>3, <2>1, AddStatePersists
<1>4. CASE current # 0 /\ ~Late(t) /\ state[current].value = v /\ Touched
  <2>1. Persists /\ current \in Ids /\ Live(current)
    BY <1>4 DEF Persists, Touched, Live, Held, GraphInv, Made
  <2>2. state[current].from <= t
    BY <1>4, <2>1 DEF Late, GraphInv, Made, Times
  <2> QED BY <1>4, <2>1, <2>2 DEF Remains, Touched, Live
<1> QED BY <1>1, <1>2, <1>3, <1>4 DEF Apply

\* What is kept stays kept.
LEMMA KeptOn ==
  ASSUME GraphInv, Persists, NEW v, NEW t
  PROVE  Remains(v, t) => Remains(v, t)'
  BY DEF Persists, Remains

\* A change of status leaves every node with its value and time.
LEMMA ResolvedPersists ==
  ASSUME GraphInv, NEW i \in Ids, NEW status \in {"approved", "rejected"},
         pend' \in {pend, Resolved(i, status)}, state' = state
  PROVE  Persists
<1>1. pend \in [Ids -> PendingState]
  BY DEF GraphInv, GraphTypes
<1>2. CASE pend' = pend
  BY <1>2 DEF Persists, Live, Held
<1>3. CASE Held(i) /\ pend' = [pend EXCEPT ![i].status = status]
  <2>1. \A k \in Ids : /\ pend'[k].value = pend[k].value
                       /\ pend'[k].from = pend[k].from
                       /\ pend'[k].why = pend[k].why
    BY <1>1, <1>3 DEF PendingState
  <2>2. \A k \in Ids : Held(k) => Held(k)'
    <3>1. ASSUME NEW k \in Ids, Held(k) PROVE pend'[k] # NoPending
      <4>1. pend[k].why # "none"
        BY <3>1 DEF GraphInv, GraphTypes
      <4> QED BY <2>1, <4>1 DEF NoPending
    <3> QED BY <3>1 DEF Held
  <2> QED BY <2>1, <2>2 DEF Persists, Live
<1> QED BY <1>2, <1>3 DEF Resolved

\* Every step but a batch of the purge keeps the watched update.
LEMMA ToldStep ==
  ASSUME IInv, ToldInv, TimelineAssumption, [Next]_vars
  PROVE  ToldInv'
<1> USE DEF IInv
<1>1. ASSUME NEW v \in Values, NEW t \in Times,
             Persists /\ Remains(v, t)', told' \in {told, <<v, t>>}
      PROVE  ToldInv'
  <2>1. CASE told' = told
    BY <1>1, <2>1, KeptOn DEF ToldInv
  <2>2. CASE told' = <<v, t>>
    BY <1>1, <2>2 DEF ToldInv
  <2> QED BY <1>1, <2>1, <2>2
<1>2. ASSUME Persists, told' = told PROVE ToldInv'
  BY <1>2, KeptOn DEF ToldInv
<1>3. ASSUME NEW v \in Values, NEW t \in Times, Update(v, t) PROVE ToldInv'
  BY <1>1, <1>3, ApplyPersists DEF Update
<1>4. ASSUME NEW v \in Values, NEW t \in Times, Hold(v, t) PROVE ToldInv'
  BY <1>1, <1>4, AddPendingPersists DEF Hold
<1>5. ASSUME NEW r \in Reviewers, MarkApproved(r) PROVE ToldInv'
  BY <1>2, <1>5, ResolvedPersists DEF MarkApproved, Reviewed
<1>6. ASSUME NEW r \in Reviewers, ApplyApproved(r) PROVE ToldInv'
  <2>1. review[r].value \in Values /\ review[r].from \in Times
    BY <1>6 DEF ApplyApproved, Reviewed
  <2>2. CASE Apply(review[r].value, review[r].from)
    BY <1>2, <1>6, <2>1, <2>2, ApplyPersists DEF ApplyApproved
  <2>3. CASE UNCHANGED graph
    BY <1>2, <1>6, <2>3 DEF ApplyApproved, graph, Persists, Live, Held
  <2> QED BY <1>6, <2>2, <2>3 DEF ApplyApproved
<1>7. ASSUME NEW i \in Ids, Reject(i) PROVE ToldInv'
  BY <1>2, <1>7, ResolvedPersists DEF Reject
<1>8. CASE PurgeBatch
  BY <1>8 DEF PurgeBatch, ToldInv
<1>9. CASE UNCHANGED <<graph, told>>
  BY <1>2, <1>9 DEF graph, Persists, Live, Held
<1>10. \/ \E v \in Values, t \in Times : Update(v, t) \/ Hold(v, t)
       \/ \E r \in Reviewers : MarkApproved(r) \/ ApplyApproved(r)
       \/ \E i \in Ids : Reject(i)
       \/ PurgeBatch
       \/ UNCHANGED <<graph, told>>
  BY DEF Next, Approve, Abandon, BeginPurge, PurgeFails, vars
<1> QED BY <1>3, <1>4, <1>5, <1>6, <1>7, <1>8, <1>9, <1>10

\* No update is lost: it is on the timeline or among the pending states until
\* the tenant is purged.
THEOREM UpdatesKept == Spec => []NoUpdateLost
<1>1. TimelineInit => ToldInv
  BY DEF TimelineInit, ToldInv
<1>2. IInv /\ ToldInv /\ [Next]_vars => ToldInv'
  BY ToldStep, TimelineAssumption
<1>3. ToldInv => NoUpdateLost
  BY DEF ToldInv, NoUpdateLost, Remains
<1> QED BY <1>1, <1>2, <1>3, Inductive, PTL DEF Spec

-----------------------------------------------------------------------------
(* The timeline of the tools is the one of StateTimeline.                  *)

\* A step of the tools is a step of the timeline or leaves it alone.
LEMMA TimelineStep ==
  ASSUME [ToolsNext]_<<vars, toolVars>>
  PROVE  [Next]_vars
<1>1. CASE Timeline
  BY <1>1 DEF Timeline
<1>2. CASE UNCHANGED <<vars, toolVars>>
  BY <1>2
<1>3. CASE ServerNext
  BY <1>3 DEF ServerNext, Deploy, ServerRestarts, RuntimeEnds
<1>4. CASE CallNext(Questions)
  BY <1>4 DEF CallNext, Ask, NotRouted, Resolve, Serve, Load, RequestFails, Query, Return
<1> QED BY <1>1, <1>2, <1>3, <1>4 DEF ToolsNext

\* So what holds of every timeline holds of theirs.
LEMMA TimelineInside == ToolsSpec => Spec
<1>1. [ToolsNext]_<<vars, toolVars>> => [Next]_vars
  BY TimelineStep
<1> QED BY <1>1, PTL DEF ToolsSpec, Spec

-----------------------------------------------------------------------------
(* A change of state is a change of value.                                 *)

\* Two states with none in between differ.
Varying ==
  \A i, j \in States :
    i < j /\ (\A k \in States : k <= i \/ j <= k) => state[i].value # state[j].value

\* A pending state has one of the three statuses that are asked for.
Listed ==
  \A i \in Ids : Held(i) => pend[i].status \in {"pending", "approved", "rejected"}

\* An update follows the youngest state, with another value.
LEMMA ApplyVaries ==
  ASSUME GraphInv, TimelineAssumption, whole, Varying,
         NEW v \in Values, NEW t \in Times, Apply(v, t)
  PROVE  Varying'
<1> DEFINE n == made + 1
           s == [value |-> v, from |-> t, to |-> Forever]
<1>1. CASE UNCHANGED state
  BY <1>1 DEF Varying, States, Live
<1>2. ASSUME NEW old \in [Ids -> State], AddState(v, t, old),
             \A i \in Ids : old[i] # NoState <=> Live(i),
             \A i \in Ids : Live(i) => old[i].value = state[i].value,
             \A i \in Ids : Live(i) => current # 0 /\ i <= current,
             current # 0 => state[current].value # v
      PROVE  Varying'
  <2>1. n \in Ids /\ n > made /\ state' = [old EXCEPT ![n] = s]
    BY <1>2 DEF GraphInv, GraphTypes, AddState, Ids, TimelineAssumption
  <2>2. s # NoState /\ s.value = v
    BY Constants
  <2> HIDE DEF n, s
  <2>3. state'[n] = s /\ \A i \in Ids : i # n => state'[i] = old[i]
    BY <1>2, <2>1
  <2>4. \A i \in Ids : Live(i) => i < n
    BY <2>1 DEF GraphInv, GraphTypes, Made, Ids
  <2>5. \A i \in Ids : Live(i)' <=> i = n \/ Live(i)
    BY <1>2, <2>2, <2>3, <2>4 DEF Live
  <2>6. SUFFICES ASSUME NEW i \in Ids, NEW j \in Ids, Live(i)', Live(j)', i < j,
                        \A k \in Ids : Live(k)' => k <= i \/ j <= k
                 PROVE  state'[i].value # state'[j].value
    BY DEF Varying, States
  <2>7. i # n /\ Live(i)
    BY <2>1, <2>4, <2>5, <2>6 DEF Ids
  <2>8. CASE j = n
    <3>1. current \in Ids /\ Live(current) /\ i <= current
      BY <1>2, <2>7 DEF GraphInv, Made
    <3>2. \A k \in Ids : k = current => k < n /\ state'[k] # NoState
      BY <2>4, <2>5, <3>1 DEF Live
    <3>3. i = current
      BY <2>6, <2>8, <3>1, <3>2 DEF Ids, Live
    <3> QED BY <1>2, <2>2, <2>3, <2>7, <2>8, <3>3, <3>1
  <2>9. CASE j # n
    <3>1. Live(j) /\ \A k \in States : k <= i \/ j <= k
      BY <2>5, <2>6, <2>9 DEF States
    <3>2. state[i].value # state[j].value
      BY <2>6, <2>7, <3>1 DEF Varying, States
    <3> QED BY <1>2, <2>3, <2>7, <2>9, <3>1, <3>2
  <2> QED BY <2>8, <2>9
<1>3. CASE current = 0 /\ AddState(v, t, state)
  <2>1. \A i \in Ids : ~Live(i)
    BY <1>3 DEF GraphInv, TimelineOK
  <2> QED BY <1>2, <1>3, <2>1 DEF GraphInv, GraphTypes, Live
<1>4. CASE current # 0 /\ state[current].value # v /\ AddState(v, t, Closed(t))
  <2>1. /\ Closed(t) \in [Ids -> State]
        /\ \A i \in Ids : Closed(t)[i].value = state[i].value
        /\ \A i \in Ids : Closed(t)[i] # NoState <=> Live(i)
    BY <1>4, Closing DEF GraphInv
  <2>2. \A i \in Ids : Live(i) => current # 0 /\ i <= current
    BY DEF GraphInv, Youngest
  <2> QED BY <1>2, <1>4, <2>1, <2>2
<1> QED BY <1>1, <1>3, <1>4 DEF Apply, AddPending, Touched

\* States that are left alone differ as they did.
LEMMA SameVaries ==
  ASSUME UNCHANGED state, Varying
  PROVE  Varying'
  BY DEF Varying, States, Live

\* Every step keeps it on a timeline that is whole.
LEMMA VariesStep ==
  ASSUME IInv, TimelineAssumption, whole => Varying, [Next]_vars
  PROVE  whole' => Varying'
<1> USE DEF IInv
<1> SUFFICES ASSUME whole' PROVE Varying'
  OBVIOUS
<1>1. ASSUME NEW v \in Values, NEW t \in Times, Apply(v, t), UNCHANGED whole
      PROVE  Varying'
  BY <1>1, ApplyVaries
<1>2. CASE UNCHANGED <<state, whole>>
  BY <1>2, SameVaries
<1>3. CASE PurgeBatch
  <2> PICK batch \in SUBSET Nodes :
        /\ state' = [i \in Ids |-> IF i \in batch THEN NoState ELSE state[i]]
        /\ whole' = (batch = Nodes \/ (whole /\ batch = {}))
    BY <1>3 DEF PurgeBatch
  <2>1. CASE batch = Nodes
    <3>1. \A i \in Ids : ~Live(i)'
      BY <2>1 DEF Nodes, Live
    <3> QED BY <3>1 DEF Varying, States
  <2>2. CASE whole /\ batch = {}
    <3>1. \A i \in Ids : state'[i] = state[i]
      BY <2>2
    <3> QED BY <2>2, <3>1 DEF Varying, States, Live
  <2> QED BY <2>1, <2>2
<1>4. ASSUME NEW r \in Reviewers, ApplyApproved(r) PROVE Varying'
  <2>1. review[r].value \in Values /\ review[r].from \in Times
    BY <1>4 DEF ApplyApproved, Reviewed
  <2> QED BY <1>1, <1>2, <1>4, <2>1 DEF ApplyApproved, graph
<1>5. \/ \E v \in Values, t \in Times : Update(v, t)
      \/ \E r \in Reviewers : ApplyApproved(r)
      \/ PurgeBatch
      \/ UNCHANGED <<state, whole>>
  BY DEF Next, Hold, AddPending, Approve, MarkApproved, Abandon, Reject, BeginPurge,
         PurgeFails, vars, graph
<1>6. ASSUME NEW v \in Values, NEW t \in Times, Update(v, t) PROVE Varying'
  BY <1>1, <1>6 DEF Update
<1> QED BY <1>2, <1>3, <1>4, <1>5, <1>6

\* The list of pending states leaves out no status.
LEMMA ListedStep ==
  ASSUME IInv, TimelineAssumption, Listed, [Next]_vars
  PROVE  Listed'
<1> USE DEF IInv
<1>0. pend \in [Ids -> PendingState]
  BY DEF GraphInv, GraphTypes
<1>1. ASSUME NEW v \in Values, NEW t \in Times, NEW why \in {"held", "out_of_order"},
             AddPending(v, t, why)
      PROVE  Listed'
  <2> DEFINE p == [value |-> v, from |-> t, why |-> why, status |-> "pending"]
  <2>1. pend' = [pend EXCEPT ![made + 1] = p] /\ p.status = "pending"
    BY <1>1 DEF AddPending
  <2> HIDE DEF p
  <2>2. \A i \in Ids : pend'[i] = pend[i] \/ pend'[i] = p
    BY <1>0, <2>1
  <2> QED BY <2>1, <2>2 DEF Listed, Held
<1>2. ASSUME UNCHANGED pend PROVE Listed'
  BY <1>2 DEF Listed, Held
<1>3. ASSUME NEW i \in Ids, NEW status \in {"approved", "rejected"},
             pend' \in {pend, Resolved(i, status)}
      PROVE  Listed'
  <2> DEFINE p == [pend[i] EXCEPT !.status = status]
  <2>1. CASE Held(i) /\ pend' = [pend EXCEPT ![i] = p]
    <3>1. p.status = status
      BY <1>0 DEF PendingState
    <3> HIDE DEF p
    <3>2. pend'[i] = p /\ \A k \in Ids : k # i => pend'[k] = pend[k]
      BY <1>0, <2>1
    <3> QED BY <3>1, <3>2 DEF Listed, Held
  <2> QED BY <1>2, <1>3, <2>1 DEF Resolved
<1>4. ASSUME NEW v \in Values, NEW t \in Times, Apply(v, t) PROVE Listed'
  BY <1>1, <1>2, <1>4 DEF Apply, AddState, Touched
<1>5. ASSUME NEW r \in Reviewers, MarkApproved(r) PROVE Listed'
  BY <1>3, <1>5 DEF MarkApproved, Reviewed
<1>6. ASSUME NEW r \in Reviewers, ApplyApproved(r) PROVE Listed'
  BY <1>2, <1>4, <1>6 DEF ApplyApproved, Reviewed, graph
<1>7. CASE PurgeBatch
  <2>1. \A i \in Ids : pend'[i] = pend[i] \/ pend'[i] = NoPending
    BY <1>7 DEF PurgeBatch
  <2> QED BY <2>1 DEF Listed, Held
<1>8. ASSUME NEW i \in Ids, Reject(i) PROVE Listed'
  BY <1>3, <1>8 DEF Reject
<1>9. \/ \E v \in Values, t \in Times : Update(v, t) \/ Hold(v, t)
      \/ \E r \in Reviewers : MarkApproved(r) \/ ApplyApproved(r)
      \/ \E i \in Ids : Reject(i)
      \/ PurgeBatch \/ UNCHANGED pend
  BY DEF Next, Approve, Abandon, BeginPurge, PurgeFails, vars, graph
<1>10. ASSUME NEW v \in Values, NEW t \in Times, Update(v, t) \/ Hold(v, t)
       PROVE  Listed'
  BY <1>1, <1>4, <1>10 DEF Update, Hold
<1> QED BY <1>2, <1>5, <1>6, <1>7, <1>8, <1>9, <1>10

-----------------------------------------------------------------------------
(* Pages.                                                                  *)

\* There are finitely many nodes.
LEMMA FewNodes ==
  ASSUME TimelineAssumption, NEW S \in SUBSET Ids
  PROVE  IsFiniteSet(S) /\ Cardinality(S) \in Nat /\ Cardinality(S) <= MaxNodes
<1>1. IsFiniteSet(Ids) /\ Cardinality(Ids) <= MaxNodes /\ Cardinality(Ids) \in Nat
  <2>1. 1 \in Int /\ MaxNodes \in Int /\ MaxNodes \in Nat
    BY DEF TimelineAssumption
  <2>2. /\ IsFiniteSet(1 .. MaxNodes)
        /\ Cardinality(1 .. MaxNodes) = IF 1 > MaxNodes THEN 0 ELSE MaxNodes - 1 + 1
    BY <2>1, FS_Interval
  <2> QED BY <2>1, <2>2 DEF Ids
<1>2. IsFiniteSet(S) /\ Cardinality(S) <= Cardinality(Ids)
  BY <1>1, FS_Subset
<1>3. Cardinality(S) \in Nat
  BY <1>2, FS_CardinalityType
<1> QED BY <1>1, <1>2, <1>3 DEF TimelineAssumption

\* A page of one holds the highest of the nodes, or nothing if there are none.
LEMMA OneAPage ==
  ASSUME TimelineAssumption, NEW S \in SUBSET Ids, NEW rank \in [Ids -> Int]
  PROVE  /\ S = {} <=> Pages(S, 1, rank) = {{}}
         /\ \A page \in Pages(S, 1, rank) : S # {} =>
              \E i \in S : page = {i} /\ \A j \in S : rank[i] >= rank[j]
         /\ \A i \in S : (\A j \in S : rank[i] >= rank[j]) => {i} \in Pages(S, 1, rank)
         /\ \A i \in S : S = {i} => Pages(S, 1, rank) = {S}
<1>1. \A T \in SUBSET S : IsFiniteSet(T) /\ Cardinality(T) \in Nat
  BY FewNodes
<1>2. /\ Cardinality({}) = 0
      /\ \A T \in SUBSET S : /\ Cardinality(T) = 0 <=> T = {}
                             /\ Cardinality(T) = 1 <=> \E x : T = {x}
  BY <1>1, FS_EmptySet, FS_Singleton
<1>3. \A page : page \in Pages(S, 1, rank) <=>
        /\ page \in SUBSET S
        /\ Cardinality(page) = (IF Cardinality(S) < 1 THEN Cardinality(S) ELSE 1)
        /\ \A i \in page, j \in S \ page : rank[i] >= rank[j]
  BY DEF Pages
<1>4. CASE S = {}
  <2>1. \A page : page \in Pages(S, 1, rank) <=> page = {}
    BY <1>2, <1>3, <1>4
  <2> QED BY <1>4, <2>1
<1>5. CASE S # {}
  <2>1. Cardinality(S) >= 1
    BY <1>1, <1>2, <1>5
  <2>2. \A page : page \in Pages(S, 1, rank) <=>
          /\ page \in SUBSET S
          /\ \E i : page = {i}
          /\ \A i \in page, j \in S \ page : rank[i] >= rank[j]
    <3>1. (IF Cardinality(S) < 1 THEN Cardinality(S) ELSE 1) = 1
      BY <1>1, <2>1
    <3> QED BY <1>2, <1>3, <3>1
  <2>3. {} \notin Pages(S, 1, rank)
    BY <2>2
  <2>4. \A i \in S : rank[i] >= rank[i]
    OBVIOUS
  <2>5. ASSUME NEW page \in Pages(S, 1, rank)
        PROVE  \E i \in S : page = {i} /\ \A j \in S : rank[i] >= rank[j]
    <3>1. PICK i \in S : page = {i}
      BY <2>2
    <3>2. \A j \in S : rank[i] >= rank[j]
      BY <2>2, <2>4, <3>1
    <3> QED BY <3>1, <3>2
  <2>6. \A i \in S : (\A j \in S : rank[i] >= rank[j]) => {i} \in Pages(S, 1, rank)
    BY <2>2
  <2>7. ASSUME NEW i \in S, S = {i} PROVE Pages(S, 1, rank) = {S}
    <3>1. S \in Pages(S, 1, rank)
      BY <2>2, <2>7
    <3>2. \A page \in Pages(S, 1, rank) : page = S
      BY <2>5, <2>7
    <3> QED BY <3>1, <3>2
  <2> QED BY <1>5, <2>3, <2>5, <2>6, <2>7
<1> QED BY <1>4, <1>5

\* Any of the highest makes a page.
LEMMA TopIsAPage ==
  ASSUME TimelineAssumption, NEW S \in SUBSET Ids, NEW rank \in [Ids -> Int],
         NEW i \in S, \A j \in S : rank[i] >= rank[j]
  PROVE  {i} \in Pages(S, 1, rank)
  BY OneAPage

\* A page that is long enough holds all of them.
LEMMA AllOnAPage ==
  ASSUME TimelineAssumption, NEW S \in SUBSET Ids, NEW rank
  PROVE  S \in Pages(S, MaxNodes, rank)
<1>1. Cardinality(S) \in Nat /\ Cardinality(S) <= MaxNodes
  BY FewNodes
<1>2. Cardinality(S) = (IF Cardinality(S) < MaxNodes THEN Cardinality(S) ELSE MaxNodes)
  BY <1>1 DEF TimelineAssumption
<1>3. \A i \in S, j \in S \ S : rank[i] >= rank[j]
  OBVIOUS
<1> QED BY <1>2, <1>3 DEF Pages

\* Of some nodes one is the youngest.
LEMMA OneIsYoungest ==
  ASSUME TimelineAssumption, NEW S \in SUBSET Ids, S # {}
  PROVE  \E i \in S : \A j \in S : j <= i
<1> DEFINE T == {n \in Nat : \E i \in S : n = MaxNodes - i}
           R == OpToRel(<, Nat)
<1>1. T \subseteq Nat /\ T # {}
  <2>1. PICK i \in S : TRUE
    OBVIOUS
  <2>2. MaxNodes - i \in T
    BY <2>1 DEF Ids, TimelineAssumption
  <2> QED BY <2>2
<1>2. IsWellFoundedOn(R, Nat)
  BY NatLessThanWellFounded
<1>3. PICK n \in T : \A m \in T : ~ (<<m, n>> \in R)
  <2> HIDE DEF T, R
  <2> QED BY <1>1, <1>2, WFMin
<1>4. \A m \in T : ~ (m < n)
  BY <1>1, <1>3, Zenon DEF OpToRel
<1>5. PICK i \in S : n = MaxNodes - i
  OBVIOUS
<1>6. \A j \in S : MaxNodes - j \in T
  BY DEF Ids, TimelineAssumption
<1> QED BY <1>4, <1>5, <1>6 DEF Ids, TimelineAssumption

-----------------------------------------------------------------------------
(* The ways to read a timeline.                                            *)

\* What a whole timeline is, in the words of the queries.
LEMMA WholeTimeline ==
  ASSUME GraphInv, TimelineAssumption, whole
  PROVE  /\ States \in SUBSET Ids /\ Latest \in [Ids -> Int]
         /\ States # {} <=> current # 0
         /\ States # {} => current \in States /\ state[current].to = Forever
         /\ \A i \in States : /\ i <= current /\ Latest[i] = state[i].from
                              /\ state[i].from \in Times /\ state[i].to \in Int
         /\ \A i, j \in States : i <= j => state[i].from <= state[j].from
         /\ \A i \in States : i # current =>
              \E j \in States : /\ i < j /\ state[i].to = state[j].from - 1
                                /\ \A k \in States : i < k => j <= k
<1>0. state \in [Ids -> State]
  BY DEF GraphInv, GraphTypes
<1>1. \A i \in Ids : state[i].from \in Int /\ state[i].to \in Int
  BY <1>0 DEF State, Forever, TimelineAssumption
<1>2. Latest \in [Ids -> Int] /\ \A i \in Ids : Latest[i] = state[i].from
  BY <1>1 DEF Latest
<1>3. \A i \in States : i \in Ids /\ Live(i) /\ current # 0 /\ i <= current
  BY DEF States, GraphInv, Youngest
<1>4. current # 0 => current \in States /\ state[current].to = Forever
  BY DEF States, GraphInv, Made, TimelineOK
<1>5. \A i \in States : state[i].from \in Times
  BY DEF States, GraphInv, TimelineOK
<1>6. ASSUME NEW i \in States, NEW j \in States, i <= j
      PROVE  state[i].from <= state[j].from
  <2>1. CASE i < j
    BY <1>6, <2>1 DEF States, GraphInv, TimelineOK
  <2>2. CASE i = j
    BY <1>1, <2>2 DEF States
  <2> QED BY <1>6, <2>1, <2>2 DEF States, Ids
<1>7. ASSUME NEW i \in States, i # current
      PROVE  \E j \in States : /\ i < j /\ state[i].to = state[j].from - 1
                               /\ \A k \in States : i < k => j <= k
  BY <1>7 DEF States, GraphInv, TimelineOK
<1> QED BY <1>1, <1>2, <1>3, <1>4, <1>5, <1>6, <1>7 DEF States

\* The latest change of all is the current state, or another of the same time.
LEMMA NowIsNewest ==
  ASSUME GraphInv, TimelineAssumption, whole
  PROVE  LET newest == StateChanges(0, 0, 1, "desc")
         IN  /\ CurrentState = {} <=> newest = {{}}
             /\ \A top \in newest : \A i \in top, j \in CurrentState :
                  state[i].from = state[j].from
<1>1. Between(0, 0) = States
  BY DEF Between
<1>2. StateChanges(0, 0, 1, "desc") = Pages(States, 1, Latest)
  BY <1>1 DEF StateChanges
<1>3. CurrentState = {} <=> States = {}
  BY WholeTimeline DEF CurrentState
<1>4. States = {} <=> Pages(States, 1, Latest) = {{}}
  BY WholeTimeline, OneAPage
<1>5. ASSUME NEW top \in Pages(States, 1, Latest), NEW i \in top, NEW j \in CurrentState
      PROVE  state[i].from = state[j].from
  <2>1. j = current /\ current \in States
    BY WholeTimeline DEF CurrentState
  <2>2. \E k \in States : top = {k} /\ \A l \in States : Latest[k] >= Latest[l]
    <3>1. States \in SUBSET Ids /\ Latest \in [Ids -> Int]
      BY WholeTimeline
    <3> QED BY ONLY <2>1, <3>1, OneAPage, TimelineAssumption, top \in Pages(States, 1, Latest)
  <2>4. i \in States /\ \A l \in States : Latest[i] >= Latest[l]
    BY <2>2
  <2>3. state[i].from <= state[current].from
    BY <2>1, <2>4, WholeTimeline DEF Ids
  <2>5. state[i].from >= state[current].from
    BY <2>1, <2>4, WholeTimeline
  <2>6. state[i].from \in Int /\ state[current].from \in Int
    BY <2>1, <2>4, WholeTimeline DEF Times
  <2> QED BY <2>1, <2>3, <2>5, <2>6
<1> QED BY <1>2, <1>3, <1>4, <1>5

\* At a time since it began the current state is the only answer.
LEMMA NowAnswers ==
  ASSUME GraphInv, TimelineAssumption, whole, NEW t \in Times,
         current # 0, state[current].from <= t
  PROVE  StateAt(t) = {CurrentState}
<1>1. current \in States /\ state[current].to = Forever /\ Forever > t /\ Forever \in Int
  BY WholeTimeline DEF Forever, Times, TimelineAssumption
<1>2. current \in AnswersAt(t)
  BY <1>1 DEF AnswersAt, States
<1>3. ASSUME NEW i \in AnswersAt(t), i # current PROVE FALSE
  <2>1. i \in States /\ state[i].to > t
    BY DEF AnswersAt, States
  <2>2. PICK j \in States : state[i].to = state[j].from - 1
    BY <1>3, <2>1, WholeTimeline
  <2>3. state[j].from <= state[current].from /\ state[j].from \in Int
        /\ state[current].from \in Int
    BY <1>1, <2>2, WholeTimeline DEF Times
  <2> QED BY <2>1, <2>2, <2>3 DEF Times
<1>4. AnswersAt(t) = {current} /\ AnswersAt(t) \in SUBSET Ids
  BY <1>2, <1>3 DEF AnswersAt
<1>5. StateAt(t) = {AnswersAt(t)}
  BY <1>4, WholeTimeline, OneAPage DEF StateAt
<1> QED BY <1>4, <1>5 DEF CurrentState

\* At an earlier time it is the last change up to it ...
LEMMA ThenAnswers ==
  ASSUME GraphInv, TimelineAssumption, whole, NEW t \in Times,
         StateAt(t) # {{}}
  PROVE  StateAt(t) \subseteq StateChanges(0, t, 1, "desc")
<1>0. AnswersAt(t) \in SUBSET Ids /\ AnswersAt(t) # {}
  <2>1. AnswersAt(t) \in SUBSET Ids
    BY DEF AnswersAt
  <2> QED BY <2>1, WholeTimeline, OneAPage DEF StateAt
<1>1. SUFFICES ASSUME NEW page \in StateAt(t)
               PROVE  page \in StateChanges(0, t, 1, "desc")
  OBVIOUS
<1>2. PICK i \in AnswersAt(t) : page = {i}
  <2>1. \A p \in Pages(AnswersAt(t), 1, Latest) : AnswersAt(t) # {} =>
          \E k \in AnswersAt(t) : p = {k} /\ \A l \in AnswersAt(t) : Latest[k] >= Latest[l]
    BY <1>0, WholeTimeline, OneAPage
  <2> QED BY <1>0, <2>1 DEF StateAt
<1>3. i \in States /\ state[i].from <= t /\ state[i].to > t
  BY <1>2 DEF AnswersAt, States
<1>4. ASSUME NEW j \in Between(0, t) PROVE Latest[i] >= Latest[j]
  <2>1. j \in States /\ state[j].from <= t
    BY DEF Between, Times
  <2>2. CASE j <= i
    BY <1>3, <2>1, <2>2, WholeTimeline DEF Times
  <2>3. CASE i < j
    <3>1. i # current
      BY <1>3, <2>1, <2>3, WholeTimeline DEF Ids
    <3>2. PICK k \in States : /\ state[i].to = state[k].from - 1
                              /\ \A l \in States : i < l => k <= l
      BY <1>3, <3>1, WholeTimeline
    <3>3. state[k].from <= state[j].from
      BY <2>1, <2>3, <3>2, WholeTimeline
    <3> QED BY <1>3, <2>1, <3>2, <3>3, WholeTimeline DEF Times
  <2> QED BY <1>3, <2>1, <2>2, <2>3, WholeTimeline DEF Ids
<1>5. i \in Between(0, t) /\ Between(0, t) \in SUBSET Ids
  BY <1>3, WholeTimeline DEF Between
<1>6. {i} \in Pages(Between(0, t), 1, Latest)
  <2>1. Latest \in [Ids -> Int]
    BY WholeTimeline
  <2> QED BY ONLY <1>4, <1>5, <2>1, TopIsAPage, TimelineAssumption
<1> QED BY <1>2, <1>6 DEF StateChanges

\* ... and none only before the first change, or just before the next one.
LEMMA GapsAreShort ==
  ASSUME GraphInv, TimelineAssumption, whole, NEW t \in Times,
         StateAt(t) = {{}}, Between(0, t) # {}
  PROVE  \E i \in States : state[i].from = t + 1
<1>1. AnswersAt(t) = {}
  <2>1. AnswersAt(t) \in SUBSET Ids
    BY DEF AnswersAt
  <2> QED BY <2>1, WholeTimeline, OneAPage DEF StateAt
<1>2. Between(0, t) \in SUBSET Ids
  BY WholeTimeline DEF Between
<1>3. PICK i \in Between(0, t) : \A j \in Between(0, t) : j <= i
  BY <1>2, OneIsYoungest
<1>4. i \in States /\ state[i].from <= t
  BY DEF Between, Times
<1>5. ~ (state[i].to > t)
  BY <1>1, <1>4 DEF AnswersAt, States
<1>6. i # current
  BY <1>4, <1>5, WholeTimeline DEF Forever, Times, TimelineAssumption
<1>7. PICK j \in States : i < j /\ state[i].to = state[j].from - 1
  BY <1>4, <1>6, WholeTimeline
<1>8. j \notin Between(0, t)
  BY <1>3, <1>4, <1>7, WholeTimeline DEF Ids
<1>9. ~ (state[j].from <= t)
  BY <1>7, <1>8 DEF Between
<1> QED BY <1>4, <1>5, <1>7, <1>9, WholeTimeline DEF Times

\* What was told is read from the timeline, or from the list.
LEMMA ToldIsRead ==
  ASSUME GraphInv, OtherTypes, TimelineAssumption, ToldInv, Listed, told # NoUpdate
  PROVE  \/ \E i \in Between(0, told[2]) : state[i].value = told[1]
         \/ \E list \in PendingList({"pending", "approved", "rejected"}, MaxNodes) :
              \E i \in list : pend[i].value = told[1] /\ pend[i].from = told[2]
<1>1. Remains(told[1], told[2])
  BY DEF ToldInv
<1>2. CASE \E i \in Ids : Live(i) /\ state[i].value = told[1] /\ state[i].from <= told[2]
  BY <1>2 DEF Between, States
<1>3. CASE \E i \in Ids : Held(i) /\ pend[i].value = told[1] /\ pend[i].from = told[2]
  <2> DEFINE all == {i \in Ids : Held(i) /\ pend[i].status \in {"pending", "approved", "rejected"}}
  <2>1. all \in PendingList({"pending", "approved", "rejected"}, MaxNodes)
    BY AllOnAPage DEF PendingList
  <2>2. \A i \in Ids : Held(i) => i \in all
    BY DEF Listed
  <2> QED BY <1>3, <2>1, <2>2
<1> QED BY <1>1, <1>2, <1>3 DEF Remains

\* The three ways to read a timeline agree, and with what was told.
THEOREM ReadsOfStatesAgree == ToolsSpec => []StateReadsAgree
<1>1. IInv /\ (whole => Varying) /\ Listed /\ ToldInv => StateReadsAgree
  <2> SUFFICES ASSUME IInv, Varying, Listed, ToldInv, whole
               PROVE  StateReadsAgree
    BY DEF StateReadsAgree
  <2> USE TimelineAssumption DEF IInv
  <2>1. ASSUME NEW t \in Times
        PROVE  IF \E i \in CurrentState : state[i].from <= t
               THEN StateAt(t) = {CurrentState}
               ELSE IF StateAt(t) = {{}} THEN
                 (\E i \in States : state[i].from = t + 1) \/ Between(0, t) = {}
               ELSE StateAt(t) \subseteq StateChanges(0, t, 1, "desc")
    BY NowAnswers, ThenAnswers, GapsAreShort DEF CurrentState
  <2>2. \A i, j \in States :
          i < j /\ (\A k \in States : k <= i \/ j <= k) => state[i].value # state[j].value
    BY DEF Varying
  <2> QED BY <2>1, <2>2, NowIsNewest, ToldIsRead DEF StateReadsAgree
<1>2. TimelineInit => (whole => Varying) /\ Listed /\ ToldInv
  BY DEF TimelineInit, Varying, States, Live, Listed, Held, ToldInv
<1>3. IInv /\ (whole => Varying) /\ Listed /\ ToldInv /\ [Next]_vars
        => (whole => Varying)' /\ Listed' /\ ToldInv'
  BY VariesStep, ListedStep, ToldStep, TimelineAssumption
<1> QED BY <1>1, <1>2, <1>3, Inductive, TimelineInside, PTL DEF Spec

-----------------------------------------------------------------------------
(* The calls.                                                              *)

Outcomes == {"", "refused", "no_tool", "no_entity", "choose", "error",
             "invalid_input", "unrecognised", "not_found", "found"}

Call == [pc : {"idle", "resolve", "fetch", "load", "query", "done"},
         ask : Questions \cup {Nothing}, via : {"runtime", "execute", "query"},
         prop : Properties \cup {Nothing}, reply : (SUBSET Properties) \cup {Nothing},
         outcome : Outcomes, since : SUBSET SUBSET Properties]

\* What a server has to offer: finitely many names.
Vocabulary(v) == v \in SUBSET Properties /\ IsFiniteSet(v)

\* The vocabularies that a call may go by, where the runtime was offered some.
MayUse(k, off) == IF k.ask.force \/ Fresh(k) THEN k.since ELSE off

\* It asks for what its text means in one of them.
Meant(k, off) ==
  /\ k.ask # Nothing /\ k.ask.direct = Nothing /\ k.prop # Nothing =>
       \E v \in MayUse(k, off) : MapProperty(k.ask.text, v) = {k.prop}
  /\ k.outcome = "unrecognised" =>
       \E v \in MayUse(k, off) : MapProperty(k.ask.text, v) = {}

Sound(k, off) ==
  /\ k \in Call
  /\ \A v \in k.since : Vocabulary(v)
  /\ k.pc \in {"resolve", "fetch", "load", "query"} => k.ask \in Questions
  /\ k.pc = "load" => k.reply \in k.since /\ (k.via = "runtime" => k.reply \in off)
  /\ Meant(k, off)

\* A call that still asks has seen what the server offers.
Aware(k) == k.pc \in {"resolve", "fetch", "load", "query"} => Offer \in k.since

ServerInv ==
  /\ file \in Files \cup {Nothing} /\ served \in Files \cup {<<>>, Nothing}
  /\ Offer \in offered /\ \A v \in offered : Vocabulary(v)
  /\ known # Nothing => known \in offered

CallsInv ==
  /\ task \in [Callers -> Call]
  /\ \A c \in Callers : /\ Sound(task[c], offered) /\ Aware(task[c])
                        /\ task[c].pc = "idle" => task[c] = NoTask

\* Some names that are listed are a vocabulary.
LEMMA ListedIsVocabulary ==
  ASSUME NEW names \in Seq(Properties)
  PROVE  Vocabulary({names[i] : i \in {j \in DOMAIN names : j <= VocabLimit}})
<1> DEFINE D == {j \in DOMAIN names : j <= VocabLimit}
           f == [i \in D |-> names[i]]
           V == {names[i] : i \in D}
<1>1. DOMAIN names = 1 .. Len(names) /\ Len(names) \in Nat
  OBVIOUS
<1>2. IsFiniteSet(DOMAIN names)
  BY <1>1, FS_Interval
<1>3. IsFiniteSet(D)
  BY <1>2, FS_Subset
<1>4. f \in Surjection(D, V)
  BY DEF Surjection
<1>5. IsFiniteSet(V)
  BY <1>3, <1>4, FS_Surjection
<1>6. V \in SUBSET Properties
  BY <1>1
<1> QED BY <1>5, <1>6 DEF Vocabulary

\* So what the server offers is one.
LEMMA OfferIsVocabulary ==
  ASSUME ToolsAssumption,
         file \in Files \cup {Nothing}, served \in Files \cup {<<>>, Nothing}
  PROVE  LoadProperties \in Files \cup {<<>>} /\ Vocabulary(Offer)
<1>1. <<>> \in Seq(Properties)
  OBVIOUS
<1>2. Files \subseteq Seq(Properties)
  BY DEF ToolsAssumption
<1>3. LoadProperties \in Files \cup {<<>>}
  BY DEF LoadProperties
<1>4. LoadProperties \in Seq(Properties)
  BY <1>1, <1>2, <1>3
<1> QED BY <1>3, <1>4, ListedIsVocabulary DEF Offer

\* Also after the server has changed.
LEMMA NextOfferIsVocabulary ==
  ASSUME ToolsAssumption,
         file' \in Files \cup {Nothing}, served' \in Files \cup {<<>>, Nothing}
  PROVE  Vocabulary(Offer')
<1>1. <<>> \in Seq(Properties)
  OBVIOUS
<1>2. Files \subseteq Seq(Properties)
  BY DEF ToolsAssumption
<1>3. LoadProperties' \in Files \cup {<<>>}
  BY DEF LoadProperties
<1>4. LoadProperties' \in Seq(Properties)
  BY <1>1, <1>2, <1>3
<1> QED BY <1>4, ListedIsVocabulary DEF Offer

\* A call that stops keeps what it knew.
LEMMA StoppedIsSound ==
  ASSUME NEW k, NEW off, Sound(k, off), NEW outcome \in Outcomes \ {"unrecognised"}
  PROVE  /\ Sound(Stopped(k, outcome), off)
         /\ Stopped(k, outcome).pc = "done" /\ Stopped(k, outcome).since = k.since
<1> DEFINE s == Stopped(k, outcome)
<1>1. k \in Call
  BY DEF Sound
<1>2. /\ s \in Call /\ s.pc = "done" /\ s.outcome = outcome
      /\ s.ask = k.ask /\ s.via = k.via /\ s.prop = k.prop /\ s.since = k.since
  BY <1>1 DEF Stopped, Call
<1> HIDE DEF s
<1>3. Meant(s, off)
  BY <1>2 DEF Sound, Meant, MayUse, Fresh
<1>4. Sound(s, off)
  BY <1>2, <1>3 DEF Sound
<1> QED BY <1>2, <1>4 DEF s

\* What a text means are some of the names.
LEMMA MeansNames ==
  ASSUME NEW text, NEW names
  PROVE  MapProperty(text, names) \subseteq names
  BY DEF MapProperty

\* A call that has a vocabulary that it may use does as its text means.
LEMMA MappedIsSound ==
  ASSUME NEW k, NEW off, Sound(k, off), k.ask \in Questions,
         NEW names \in MayUse(k, off), Vocabulary(names)
  PROVE  /\ Sound(Mapped(k, names), off)
         /\ Mapped(k, names).pc # "idle" /\ Mapped(k, names).since = k.since
<1> DEFINE meant == MapProperty(k.ask.text, names)
<1>0. k \in Call
  BY DEF Sound
<1>1. meant \subseteq names
  BY MeansNames
<1>2. IsFiniteSet(meant) /\ Cardinality(meant) \in Nat
  BY <1>1, FS_Subset, FS_CardinalityType DEF Vocabulary
<1>3. CASE meant = {}
  <2> DEFINE s == Stopped(k, "unrecognised")
  <2>1. Mapped(k, names) = s
    BY <1>3 DEF Mapped
  <2>2. /\ s \in Call /\ s.pc = "done"
        /\ s.ask = k.ask /\ s.via = k.via /\ s.prop = k.prop /\ s.since = k.since
    BY <1>0 DEF Stopped, Call, Outcomes
  <2> HIDE DEF s
  <2>3. Meant(s, off)
    BY <1>3, <2>2 DEF Sound, Meant, MayUse, Fresh
  <2> QED BY <2>1, <2>2, <2>3 DEF Sound
<1>4. CASE meant # {} /\ Cardinality(meant) > 1
  <2>1. Mapped(k, names) = Stopped(k, "choose")
    BY <1>4 DEF Mapped
  <2>2. "choose" \in Outcomes \ {"unrecognised"}
    BY DEF Outcomes
  <2> QED BY <2>1, <2>2, StoppedIsSound
<1>5. CASE meant # {} /\ ~ (Cardinality(meant) > 1)
  <2> DEFINE p == CHOOSE x \in meant : TRUE
  <2>1. Mapped(k, names) = Asking(k, p)
    BY <1>5 DEF Mapped
  <2>2. meant = {p}
    <3>1. Cardinality(meant) = 1
      BY <1>2, <1>5, FS_EmptySet
    <3>2. PICK x : meant = {x}
      BY <1>2, <3>1, FS_Singleton
    <3> QED BY <3>2
  <2>3. p \in Properties
    BY <1>1, <2>2 DEF Vocabulary
  <2> HIDE DEF p
  <2>4. CASE ~TimeOK(k.ask)
    <3>1. "invalid_input" \in Outcomes \ {"unrecognised"}
      BY DEF Outcomes
    <3> QED BY <2>1, <2>4, <3>1, StoppedIsSound DEF Asking
  <2>5. CASE TimeOK(k.ask)
    <3> DEFINE s == [k EXCEPT !.pc = "query", !.prop = p]
    <3>1. Mapped(k, names) = s
      BY <2>1, <2>5 DEF Asking
    <3>2. /\ s \in Call /\ s.pc = "query" /\ s.prop = p /\ s.outcome = k.outcome
          /\ s.ask = k.ask /\ s.via = k.via /\ s.since = k.since
      BY <1>0, <2>3 DEF Call
    <3> HIDE DEF s
    <3>3. Meant(s, off)
      BY <2>2, <3>2 DEF Sound, Meant, MayUse, Fresh
    <3>4. Sound(s, off)
      BY <3>2, <3>3 DEF Sound
    <3> QED BY <3>1, <3>2, <3>4
  <2> QED BY <2>4, <2>5
<1> QED BY <1>3, <1>4, <1>5

\* One that goes on to its next request is as sound as it was.
LEMMA MovedIsSound ==
  ASSUME NEW k, NEW off, Sound(k, off), k.ask \in Questions,
         NEW pc \in {"resolve", "fetch"}
  PROVE  /\ Sound([k EXCEPT !.pc = pc], off)
         /\ [k EXCEPT !.pc = pc].pc = pc /\ [k EXCEPT !.pc = pc].since = k.since
<1> DEFINE s == [k EXCEPT !.pc = pc]
<1>1. k \in Call
  BY DEF Sound
<1>2. /\ s \in Call /\ s.pc = pc /\ s.outcome = k.outcome /\ s.since = k.since
      /\ s.ask = k.ask /\ s.via = k.via /\ s.prop = k.prop
  BY <1>1 DEF Call
<1> HIDE DEF s
<1>3. Meant(s, off)
  BY <1>2 DEF Sound, Meant, MayUse, Fresh
<1>4. Sound(s, off)
  BY <1>2, <1>3 DEF Sound
<1> QED BY <1>2, <1>4 DEF s

\* So is one that was asked for a property by its name.
LEMMA DirectIsSound ==
  ASSUME NEW k, NEW off, Sound(k, off), k.ask \in Questions, k.ask.direct # Nothing
  PROVE  /\ Sound(Asking(k, k.ask.direct), off)
         /\ Asking(k, k.ask.direct).pc # "idle"
         /\ Asking(k, k.ask.direct).since = k.since
<1>1. CASE ~TimeOK(k.ask)
  <2>1. "invalid_input" \in Outcomes \ {"unrecognised"}
    BY DEF Outcomes
  <2> QED BY <1>1, <2>1, StoppedIsSound DEF Asking
<1>2. CASE TimeOK(k.ask)
  <2> DEFINE s == [k EXCEPT !.pc = "query", !.prop = k.ask.direct]
  <2>1. Asking(k, k.ask.direct) = s
    BY <1>2 DEF Asking
  <2>2. k \in Call /\ k.ask.direct \in Properties
    BY QuestionsAssumption DEF Sound, Question
  <2>3. /\ s \in Call /\ s.pc = "query" /\ s.outcome = k.outcome /\ s.since = k.since
        /\ s.ask = k.ask /\ s.via = k.via
    BY <2>2 DEF Call
  <2> HIDE DEF s
  <2>4. Meant(s, off)
    BY <2>3 DEF Sound, Meant, MayUse, Fresh
  <2>5. Sound(s, off)
    BY <2>3, <2>4 DEF Sound
  <2> QED BY <2>1, <2>3, <2>5
<1> QED BY <1>1, <1>2

\* So is one that knows its entity, and one that begins.
LEMMA WithEntityIsSound ==
  ASSUME ServerInv, NEW k, Sound(k, offered), k.ask \in Questions
  PROVE  /\ Sound(WithEntity(k), offered)
         /\ WithEntity(k).pc # "idle" /\ WithEntity(k).since = k.since
<1>0. "invalid_input" \in Outcomes \ {"unrecognised"}
  BY DEF Outcomes
<1>1. CASE k.ask.direct # Nothing
  BY <1>1, DirectIsSound DEF WithEntity
<1>2. CASE k.ask.direct = Nothing /\ k.ask.text = Nothing
  BY <1>0, <1>2, StoppedIsSound DEF WithEntity
<1>3. CASE /\ k.ask.direct = Nothing /\ k.ask.text # Nothing
           /\ Known(k) # Nothing /\ ~k.ask.force
  <2>1. ~Fresh(k) /\ known # Nothing
    BY <1>3 DEF Known
  <2>2. known \in MayUse(k, offered) /\ Vocabulary(known)
    BY <1>3, <2>1 DEF MayUse, ServerInv
  <2>3. WithEntity(k) = Mapped(k, known)
    BY <1>3 DEF WithEntity, Vocab
  <2> QED BY <2>2, <2>3, MappedIsSound
<1>4. CASE /\ k.ask.direct = Nothing /\ k.ask.text # Nothing
           /\ ~ (Known(k) # Nothing /\ ~k.ask.force)
  <2>1. WithEntity(k) = [k EXCEPT !.pc = "fetch"]
    BY <1>4 DEF WithEntity, Vocab
  <2> QED BY <2>1, MovedIsSound
<1> QED BY <1>1, <1>2, <1>3, <1>4

LEMMA EnteringIsSound ==
  ASSUME ServerInv, NEW k, Sound(k, offered), k.ask \in Questions
  PROVE  /\ Sound(Entering(k), offered)
         /\ Entering(k).pc # "idle" /\ Entering(k).since = k.since
<1>1. CASE k.ask.named = "id"
  BY <1>1, WithEntityIsSound DEF Entering
<1>2. CASE k.ask.named = "name"
  BY <1>2, MovedIsSound DEF Entering
<1>3. CASE k.ask.named = "no"
  <2>1. "invalid_input" \in Outcomes \ {"unrecognised"}
    BY DEF Outcomes
  <2>2. Entering(k) = Stopped(k, "invalid_input")
    BY <1>3 DEF Entering
  <2> QED BY <2>1, <2>2, StoppedIsSound
<1> QED BY <1>1, <1>2, <1>3, QuestionsAssumption DEF Question

-----------------------------------------------------------------------------
(* The steps of the calls and of the server.                               *)

\* A call becomes another sound one; the others and the server stay.
LEMMA CallStep ==
  ASSUME ServerInv, CallsInv, NEW c \in Callers, NEW k,
         Sound(k, offered), Aware(k), k.pc = "idle" => k = NoTask,
         task' = [task EXCEPT ![c] = k], Offer' = Offer, UNCHANGED offered
  PROVE  CallsInv'
<1>1. k \in Call
  BY DEF Sound
<1>2. /\ task' \in [Callers -> Call] /\ task'[c] = k
      /\ \A d \in Callers : d # c => task'[d] = task[d]
  BY <1>1 DEF CallsInv
<1>3. \A d \in Callers : /\ Sound(task'[d], offered)
                         /\ task'[d].pc = "idle" => task'[d] = NoTask
                         /\ Aware(task'[d])
  BY <1>2 DEF CallsInv
<1>4. \A d \in Callers :
        task'[d].pc \in {"resolve", "fetch", "load", "query"} => Offer \in task'[d].since
  BY <1>3 DEF Aware
<1> QED BY <1>2, <1>3, <1>4 DEF CallsInv, Aware, Sound, Meant, MayUse, Fresh, Vocabulary

\* What no call begins with.
LEMMA NoTaskIsSound ==
  ASSUME NEW off
  PROVE  /\ Sound(NoTask, off) /\ NoTask \in Call
         /\ NoTask.pc = "idle" /\ NoTask.since = {} /\ NoTask.ask = Nothing
<1>1. /\ NoTask \in Call /\ NoTask.outcome = "" /\ NoTask.pc = "idle"
      /\ NoTask.prop = Nothing /\ NoTask.since = {} /\ NoTask.ask = Nothing
  BY DEF NoTask, Call, Outcomes
<1> QED BY <1>1 DEF Sound, Meant

ToolsInv == ServerInv /\ CallsInv

\* A request that is answered leaves the server with the vocabulary it offered.
LEMMA ServedOffer ==
  ASSUME ToolsAssumption, served' = LoadProperties, UNCHANGED file
  PROVE  Offer' = Offer
<1>1. <<>> # Nothing
  BY DEF ToolsAssumption
<1>2. LoadProperties' = LoadProperties
  BY <1>1 DEF LoadProperties
<1> QED BY <1>2 DEF Offer

\* What the server has next is offered and seen by every call that goes on; the
\* requests of its process end with it.
LEMMA WitnessStep ==
  ASSUME ToolsInv, ToolsAssumption, UNCHANGED known,
         file' \in Files \cup {Nothing}, served' \in Files \cup {<<>>, Nothing},
         NEW died \in SUBSET Callers, \A c \in died : task[c].pc # "idle",
         Witness(died)
  PROVE  ToolsInv'
<1>1. Vocabulary(Offer')
  BY NextOfferIsVocabulary
<1>2. ServerInv'
  <2>1. offered' = offered \cup {Offer'}
    BY DEF Witness
  <2>2. \A v \in offered' : Vocabulary(v)
    BY <1>1, <2>1 DEF ToolsInv, ServerInv
  <2> QED BY <2>1, <2>2 DEF ToolsInv, ServerInv, Vocabulary
<1>3. ASSUME NEW c \in Callers
      PROVE  /\ task'[c] \in Call
             /\ task'[c].pc = "idle" => task'[c] = NoTask
             /\ Sound(task'[c], offered')
             /\ task'[c].pc \in {"resolve", "fetch", "load", "query"} =>
                  Offer' \in task'[c].since
  <2> DEFINE k == task[c]
  <2>0. offered \subseteq offered' /\ Sound(k, offered) /\ k \in Call
    BY DEF Witness, ToolsInv, CallsInv
  <2>1. Sound(k, offered')
    BY <2>0 DEF Sound, Meant, MayUse
  <2>2. CASE c \in died
    <3>1. task'[c] = Stopped(k, "error") /\ "error" \in Outcomes \ {"unrecognised"}
      BY <2>2 DEF Witness, Outcomes
    <3>2. Sound(task'[c], offered') /\ task'[c].pc = "done"
      BY <2>1, <3>1, StoppedIsSound
    <3> QED BY <3>2 DEF Sound
  <2>3. CASE c \notin died /\ k.pc = "idle"
    <3>1. task'[c] = k
      BY <2>3 DEF Witness
    <3> QED BY <2>0, <2>1, <2>3, <3>1 DEF ToolsInv, CallsInv
  <2>4. CASE c \notin died /\ k.pc # "idle"
    <3> DEFINE s == [k EXCEPT !.since = @ \cup {Offer'}]
    <3>1. task'[c] = s
      BY <2>4 DEF Witness
    <3>2. Offer' \in SUBSET Properties
      BY <1>1 DEF Vocabulary
    <3>3. /\ s \in Call /\ s.since = k.since \cup {Offer'}
          /\ s.pc = k.pc /\ s.outcome = k.outcome /\ s.reply = k.reply
          /\ s.ask = k.ask /\ s.via = k.via /\ s.prop = k.prop
      BY <2>0, <3>2 DEF Call
    <3> HIDE DEF s
    <3>4. Meant(s, offered')
      BY <2>1, <3>3 DEF Sound, Meant, MayUse, Fresh
    <3>5. Sound(s, offered')
      BY <1>1, <2>1, <3>3, <3>4 DEF Sound
    <3> QED BY <2>4, <3>1, <3>3, <3>5
  <2> QED BY <2>2, <2>3, <2>4
<1>4. task' \in [Callers -> Call]
  <2>1. DOMAIN task' = Callers /\ task' = [c \in Callers |-> task'[c]]
    BY DEF Witness
  <2> QED BY <1>3, <2>1
<1>5. CallsInv'
  BY <1>3, <1>4 DEF CallsInv, Aware, Sound, Meant, MayUse, Fresh, Vocabulary
<1> QED BY <1>2, <1>5 DEF ToolsInv

\* A call that begins may use what is offered.
LEMMA AskStep ==
  ASSUME ToolsInv, NEW c \in Callers, NEW q \in Questions, NEW way \in Ways, Ask(c, q, way)
  PROVE  ToolsInv'
<1> DEFINE k == [NoTask EXCEPT !.ask = q, !.via = way[1], !.since = {Offer}]
           s == IF Refused(q, way) THEN Stopped(k, "refused") ELSE Entering(k)
<1>1. way[1] \in {"runtime", "execute", "query"}
  BY DEF Ways
<1>2. Vocabulary(Offer)
  BY DEF ToolsInv, ServerInv
<1>3. k \in Call /\ k.outcome = "" /\ k.pc = "idle" /\ k.prop = Nothing
      /\ k.since = {Offer} /\ k.ask = q
  BY <1>1, <1>2 DEF NoTask, Call, Outcomes, Vocabulary
<1>4. task' = [task EXCEPT ![c] = s] /\ UNCHANGED <<file, served, known, offered>>
  BY DEF Ask
<1> HIDE DEF k
<1>5. Sound(k, offered)
  BY <1>2, <1>3 DEF Sound, Meant
<1>6. "refused" \in Outcomes \ {"unrecognised"}
  BY DEF Outcomes
<1>7. Sound(s, offered) /\ s.pc # "idle" /\ s.since = {Offer}
  BY <1>3, <1>5, <1>6, StoppedIsSound, EnteringIsSound DEF ToolsInv
<1> HIDE DEF s
<1>8. Aware(s) /\ Offer' = Offer
  BY <1>4, <1>7 DEF Aware, Offer, LoadProperties
<1>9. CallsInv'
  BY <1>4, <1>7, <1>8, CallStep DEF ToolsInv
<1> QED BY <1>4, <1>8, <1>9 DEF ToolsInv, ServerInv, Vocabulary

\* The other steps of a call.
LEMMA GoOnStep ==
  ASSUME ToolsInv, ToolsAssumption, NEW c \in Callers,
         \/ \E q \in Questions : NotRouted(c, q)
         \/ Resolve(c) \/ Serve(c) \/ Load(c) \/ RequestFails(c) \/ Query(c) \/ Return(c)
  PROVE  ToolsInv'
<1> DEFINE k == task[c]
<1> USE DEF ToolsInv
<1>0. k \in Call /\ Sound(k, offered) /\ Aware(k) /\ task \in [Callers -> Call]
  BY DEF CallsInv
<1>1. \A o \in {"no_tool", "no_entity", "choose", "error", "not_found", "found"} :
        o \in Outcomes \ {"unrecognised"}
  BY DEF Outcomes
<1>2. ASSUME NEW s, task' = [task EXCEPT ![c] = s], Sound(s, offered), Aware(s),
             s.pc = "idle" => s = NoTask, UNCHANGED <<file, served, known, offered>>
      PROVE  ToolsInv'
  <2>1. Offer' = Offer
    BY <1>2 DEF Offer, LoadProperties
  <2>2. CallsInv'
    BY <1>2, <2>1, CallStep
  <2> QED BY <1>2, <2>1, <2>2 DEF ServerInv, Vocabulary
<1>3. ASSUME NEW o \in {"choose", "error", "no_entity", "not_found", "found"},
             task' = [task EXCEPT ![c] = Stopped(k, o)],
             UNCHANGED <<file, served, known, offered>>
      PROVE  ToolsInv'
  <2> DEFINE s == Stopped(k, o)
  <2>1. Sound(s, offered) /\ s.pc = "done"
    BY <1>0, <1>1, StoppedIsSound
  <2> HIDE DEF s
  <2>2. Aware(s)
    BY <2>1 DEF Aware
  <2>3. task' = [task EXCEPT ![c] = s]
    BY <1>3 DEF s
  <2> QED BY <1>2, <1>3, <2>1, <2>2, <2>3
<1>4. ASSUME NEW q \in Questions, NotRouted(c, q) PROVE ToolsInv'
  <2> DEFINE b == [NoTask EXCEPT !.ask = q, !.via = "query"]
             s == Stopped(b, "no_tool")
  <2>1. b \in Call /\ b.outcome = "" /\ b.pc = "idle" /\ b.prop = Nothing /\ b.since = {}
    BY DEF NoTask, Call, Outcomes
  <2>2. task' = [task EXCEPT ![c] = s] /\ UNCHANGED <<file, served, known, offered>>
    BY <1>4 DEF NotRouted
  <2> HIDE DEF b
  <2>3. Sound(b, offered)
    BY <2>1 DEF Sound, Meant
  <2>4. Sound(s, offered) /\ s.pc = "done"
    BY <1>1, <2>3, StoppedIsSound
  <2> HIDE DEF s
  <2>5. Aware(s)
    BY <2>4 DEF Aware
  <2> QED BY <1>2, <2>2, <2>4, <2>5
<1>5. CASE Resolve(c)
  <2>1. k.ask \in Questions /\ k.pc = "resolve"
    BY <1>0, <1>5 DEF Resolve, Sound
  <2>2. UNCHANGED <<file, served, known, offered>>
    BY <1>5 DEF Resolve
  <2>3. PICK s \in {WithEntity(k), Stopped(k, "no_entity"), Stopped(k, "choose"),
                    Stopped(k, "error")} : task' = [task EXCEPT ![c] = s]
    BY <1>5 DEF Resolve
  <2>4. CASE s = WithEntity(k)
    <3>1. Sound(s, offered) /\ s.pc # "idle" /\ s.since = k.since
      BY <1>0, <2>1, <2>4, WithEntityIsSound
    <3>2. Aware(s)
      BY <1>0, <2>1, <3>1 DEF Aware
    <3> QED BY <1>2, <2>2, <2>3, <3>1, <3>2
  <2> QED BY <1>3, <2>2, <2>3, <2>4
<1>6. CASE Serve(c)
  <2> DEFINE s == [k EXCEPT !.pc = "load", !.reply = Offer]
  <2>1. k.pc = "fetch" /\ k.ask \in Questions /\ Offer \in k.since
    BY <1>0, <1>6 DEF Serve, Sound, Aware
  <2>2. task' = [task EXCEPT ![c] = s]
    BY <1>0, <1>6 DEF Serve
  <2>3. Offer' = Offer /\ UNCHANGED <<file, known, offered>>
    BY <1>6, ServedOffer DEF Serve
  <2>4. Offer \in SUBSET Properties /\ Offer \in offered
    BY DEF ServerInv, Vocabulary
  <2>5. /\ s \in Call /\ s.pc = "load" /\ s.reply = Offer /\ s.since = k.since
        /\ s.ask = k.ask /\ s.via = k.via /\ s.prop = k.prop /\ s.outcome = k.outcome
    BY <1>0, <2>4 DEF Call
  <2> HIDE DEF s
  <2>6. Sound(s, offered) /\ Aware(s)
    BY <1>0, <2>1, <2>4, <2>5 DEF Sound, Meant, MayUse, Fresh, Aware
  <2>7. CallsInv'
    BY <2>2, <2>3, <2>5, <2>6, CallStep
  <2>8. served' \in Files \cup {<<>>, Nothing}
    BY <1>6, OfferIsVocabulary DEF Serve, ServerInv
  <2> QED BY <2>3, <2>7, <2>8 DEF ServerInv, Vocabulary
<1>7. CASE Load(c)
  <2> DEFINE s == Mapped(k, k.reply)
  <2>1. /\ k.pc = "load" /\ k.ask \in Questions /\ k.reply \in k.since
        /\ k.via = "runtime" => k.reply \in offered
    BY <1>0, <1>7 DEF Load, Sound
  <2>2. k.reply \in MayUse(k, offered) /\ Vocabulary(k.reply)
    BY <1>0, <2>1 DEF MayUse, Fresh, Sound
  <2>3. Sound(s, offered) /\ s.pc # "idle" /\ s.since = k.since
    BY <1>0, <2>1, <2>2, MappedIsSound
  <2>4. /\ task' = [task EXCEPT ![c] = s] /\ UNCHANGED <<file, served, offered>>
        /\ known' # Nothing => known' \in offered
    BY <1>7, <2>1 DEF Load, Fresh, ServerInv
  <2> HIDE DEF s
  <2>5. Aware(s) /\ Offer' = Offer
    BY <1>0, <2>1, <2>3, <2>4 DEF Aware, Offer, LoadProperties
  <2>6. CallsInv'
    BY <2>3, <2>4, <2>5, CallStep
  <2> QED BY <2>4, <2>5, <2>6 DEF ServerInv, Vocabulary
<1>8. CASE RequestFails(c)
  BY <1>3, <1>8 DEF RequestFails
<1>9. CASE Query(c)
  <2>1. PICK page : task' = [task EXCEPT ![c] =
          Stopped(task[c], IF page = {} THEN "not_found" ELSE "found")]
    BY <1>9 DEF Query
  <2> QED BY <1>3, <1>9, <2>1 DEF Query
<1>10. CASE Return(c)
  <2>1. Sound(NoTask, offered) /\ Aware(NoTask)
    BY NoTaskIsSound DEF Aware
  <2> QED BY <1>2, <1>10, <2>1 DEF Return
<1> QED BY <1>4, <1>5, <1>6, <1>7, <1>8, <1>9, <1>10

\* The server and its runtimes.
LEMMA ServerStep ==
  ASSUME ToolsInv, ToolsAssumption, ServerNext
  PROVE  ToolsInv'
<1>1. ASSUME NEW f \in Files \cup {Nothing}, Deploy(f) PROVE ToolsInv'
  BY <1>1, WitnessStep DEF Deploy, ToolsInv, ServerInv
<1>2. CASE ServerRestarts
  <2> DEFINE died == {c \in Callers : task[c].pc # "idle" /\ Fresh(task[c])}
  <2>1. Witness(died) /\ UNCHANGED known /\ file' = file /\ served' = Nothing
    BY <1>2 DEF ServerRestarts
  <2>2. died \in SUBSET Callers /\ \A c \in died : task[c].pc # "idle"
    OBVIOUS
  <2> HIDE DEF died
  <2> QED BY <2>1, <2>2, WitnessStep DEF ToolsInv, ServerInv
<1>3. CASE RuntimeEnds
  <2>1. /\ offered' = {Offer} /\ known' = Nothing /\ UNCHANGED <<file, served, task>>
        /\ \A c \in Callers : task[c].pc # "idle" => Fresh(task[c])
    BY <1>3 DEF RuntimeEnds
  <2>2. Offer' = Offer
    BY <2>1 DEF Offer, LoadProperties
  <2>3. ServerInv'
    BY <2>1, <2>2 DEF ToolsInv, ServerInv, Vocabulary
  <2>4. ASSUME NEW c \in Callers PROVE Sound(task[c], offered')
    <3>1. CASE task[c].pc = "idle"
      BY <3>1, NoTaskIsSound DEF ToolsInv, CallsInv
    <3>2. CASE Fresh(task[c])
      BY <3>2 DEF ToolsInv, CallsInv, Sound, Meant, MayUse, Fresh
    <3> QED BY <2>1, <3>1, <3>2
  <2>5. CallsInv'
    BY <2>1, <2>2, <2>4
       DEF ToolsInv, CallsInv, Aware, Sound, Meant, MayUse, Fresh, Vocabulary
  <2> QED BY <2>3, <2>5 DEF ToolsInv
<1> QED BY <1>1, <1>2, <1>3 DEF ServerNext

\* Every step keeps it.
LEMMA ToolsStep ==
  ASSUME ToolsInv, ToolsAssumption, [ToolsNext]_<<vars, toolVars>>
  PROVE  ToolsInv'
<1>1. CASE CallNext(Questions)
  BY <1>1, AskStep, GoOnStep DEF CallNext
<1>2. CASE ServerNext
  BY <1>2, ServerStep
<1>3. CASE UNCHANGED <<file, served, known, task, offered>>
  <2>1. Offer' = Offer
    BY <1>3 DEF Offer, LoadProperties
  <2>2. ServerInv'
    BY <1>3, <2>1 DEF ToolsInv, ServerInv, Vocabulary
  <2>3. CallsInv'
    BY <1>3, <2>1
       DEF ToolsInv, CallsInv, Aware, Sound, Meant, MayUse, Fresh, Vocabulary
  <2> QED BY <2>2, <2>3 DEF ToolsInv
<1> QED BY <1>1, <1>2, <1>3 DEF ToolsNext, Timeline, toolVars

\* Before any call.
LEMMA ToolsStart ==
  ASSUME ToolsInit, ToolsAssumption
  PROVE  ToolsInv
<1>1. Vocabulary(Offer)
  BY OfferIsVocabulary DEF ToolsInit
<1>2. ServerInv
  BY <1>1 DEF ToolsInit, ServerInv
<1>3. CallsInv
  BY NoTaskIsSound DEF ToolsInit, CallsInv, Aware
<1> QED BY <1>2, <1>3 DEF ToolsInv

LEMMA ToolsAreSound == ToolsSpec => []ToolsInv
<1>1. ToolsInit => ToolsInv
  BY ToolsStart, ToolsAssumption
<1>2. ToolsInv /\ [ToolsNext]_<<vars, toolVars>> => ToolsInv'
  BY ToolsStep, ToolsAssumption
<1> QED BY <1>1, <1>2, PTL DEF ToolsSpec

\* Whatever is deployed, restarted, fetched, refreshed or overtaken in between, a
\* call asks for the property that its text means in a vocabulary it may go by.
THEOREM CallsAskAsMeant == ToolsSpec => []AsksAsMeant
<1>1. ToolsInv => AsksAsMeant
  BY DEF ToolsInv, CallsInv, Sound, Meant, MayUse, AsksAsMeant
<1> QED BY <1>1, ToolsAreSound, PTL

-----------------------------------------------------------------------------
(* What is told of the present.                                            *)

\* Nobody was told of a present that is younger than the current state.
LatestInv ==
  /\ latest \in Times \cup {0}
  /\ latest # 0 => whole /\ current # 0 /\ latest <= state[current].from

\* The current state began when the one before it did, or later.
LEMMA ApplyAdvances ==
  ASSUME GraphInv, TimelineAssumption, current # 0,
         NEW v \in Values, NEW t \in Times, Apply(v, t)
  PROVE  current' # 0 /\ state[current].from <= state'[current'].from
<1> DEFINE n == made + 1
           s == [value |-> v, from |-> t, to |-> Forever]
<1>0. current \in Ids /\ state[current].from \in Times
  BY DEF GraphInv, Made
<1>1. CASE UNCHANGED <<state, current>>
  BY <1>0, <1>1 DEF Times
<1>2. CASE ~Late(t) /\ AddState(v, t, Closed(t))
  <2>1. n \in Ids /\ n # 0 /\ current' = n /\ state' = [Closed(t) EXCEPT ![n] = s]
    BY <1>2 DEF GraphInv, GraphTypes, AddState, Ids, TimelineAssumption
  <2>2. Closed(t) \in [Ids -> State] /\ s.from = t
    BY Closing DEF GraphInv
  <2> HIDE DEF n, s
  <2>3. state'[n] = s
    BY <2>1, <2>2
  <2> QED BY <1>0, <1>2, <2>1, <2>2, <2>3 DEF Late, Times
<1> QED BY <1>1, <1>2 DEF Apply, AddPending, Touched

\* Nothing but a purge takes that back.
LEMMA PresentAdvances ==
  ASSUME IInv, TimelineAssumption, Next, ~purging, current # 0
  PROVE  /\ whole' = whole /\ current' # 0
         /\ state[current].from <= state'[current'].from
<1> USE DEF IInv
<1>0. current \in Ids /\ state[current].from \in Times
  BY DEF GraphInv, Made
<1>1. ASSUME NEW v \in Values, NEW t \in Times, Update(v, t)
      PROVE  /\ whole' = whole /\ current' # 0
             /\ state[current].from <= state'[current'].from
  BY <1>1, ApplyAdvances DEF Update
<1>2. ASSUME NEW r \in Reviewers, ApplyApproved(r)
      PROVE  /\ whole' = whole /\ current' # 0
             /\ state[current].from <= state'[current'].from
  <2>1. review[r].value \in Values /\ review[r].from \in Times
    BY <1>2 DEF ApplyApproved, Reviewed
  <2> QED BY <1>0, <1>2, <2>1, ApplyAdvances DEF ApplyApproved, graph, Times
<1>3. CASE UNCHANGED <<state, current, whole>>
  BY <1>0, <1>3 DEF Times
<1>4. \/ \E v \in Values, t \in Times : Update(v, t)
      \/ \E r \in Reviewers : ApplyApproved(r)
      \/ UNCHANGED <<state, current, whole>>
  BY DEF Next, Hold, AddPending, Approve, MarkApproved, Abandon, Reject, BeginPurge,
         PurgeBatch, PurgeFails, graph
<1> QED BY <1>1, <1>2, <1>3, <1>4

\* An answer about the present is the beginning of the current state.
LEMMA PresentIsCurrent ==
  ASSUME GraphInv, TimelineAssumption, whole, NEW q \in Questions, AsksNow(q),
         NEW p, NEW page \in Answers(q, p), page # {}
  PROVE  /\ current # 0
         /\ state[CHOOSE i \in page : TRUE].from = state[current].from
<1>1. /\ q.tool \in {"entity_status", "state_time_since"}
      /\ q.start = 0 /\ q.end = 0
  BY QuestionsAssumption DEF AsksNow, Question, Tools
<1>2. page \in {CurrentState} \/ page \in StateChanges(0, 0, 1, "desc")
  BY <1>1 DEF Answers
<1>3. PICK i : i = CHOOSE x \in page : TRUE
  OBVIOUS
<1>4. i \in page
  BY <1>3
<1>5. CASE page = CurrentState
  BY <1>3, <1>4, <1>5 DEF CurrentState
<1>6. CASE page \in StateChanges(0, 0, 1, "desc")
  <2>1. current # 0
    BY <1>6, NowIsNewest DEF CurrentState
  <2>2. state[i].from = state[current].from
    BY <1>4, <1>6, <2>1, NowIsNewest DEF CurrentState
  <2> QED BY <1>3, <2>1, <2>2
<1> QED BY <1>2, <1>5, <1>6

\* Every step keeps it, and takes nobody back.
LEMMA LatestStep ==
  ASSUME IInv, ToolsInv, LatestInv, TimelineAssumption,
         [ToolsNext]_<<vars, toolVars>>
  PROVE  LatestInv' /\ (latest' # 0 => latest <= latest')
<1>0. latest \in Nat
  BY DEF LatestInv, Times
<1>1. CASE Timeline
  <2>1. CASE purging
    BY <1>1, <2>1 DEF Timeline, LatestInv
  <2>2. CASE ~purging /\ latest # 0
    <3>1. /\ latest' = latest /\ whole' /\ current' # 0
          /\ state[current].from <= state'[current'].from
      BY <1>1, <2>2, PresentAdvances DEF Timeline, LatestInv
    <3>2. IInv'
      BY <1>1, Step DEF Timeline
    <3>3. state[current].from \in Times /\ state'[current'].from \in Times
      BY <2>2, <3>1, <3>2 DEF LatestInv, IInv, GraphInv, Made
    <3> QED BY <1>0, <2>2, <3>1, <3>3 DEF LatestInv, Times
  <2>3. CASE ~purging /\ latest = 0
    BY <1>1, <2>3 DEF Timeline, LatestInv
  <2> QED BY <2>1, <2>2, <2>3
<1>2. ASSUME NEW c \in Callers, Query(c)
      PROVE  LatestInv' /\ (latest' # 0 => latest <= latest')
  <2>1. task[c].ask \in Questions /\ UNCHANGED vars
    BY <1>2 DEF Query, ToolsInv, CallsInv, Sound
  <2>2. UNCHANGED <<whole, state, current>>
    BY <2>1 DEF vars, graph
  <2>3. CASE latest' = latest
    BY <1>0, <2>2, <2>3 DEF LatestInv
  <2>4. CASE latest' # latest
    <3>1. PICK page \in Answers(task[c].ask, task[c].prop) \cup {{}} :
            /\ page # {} /\ whole /\ AsksNow(task[c].ask)
            /\ latest' = state[CHOOSE i \in page : TRUE].from
      BY <1>2, <2>4 DEF Query
    <3>2. current # 0 /\ latest' = state[current].from
      BY <2>1, <3>1, PresentIsCurrent DEF IInv
    <3>3. state[current].from \in Times
      BY <3>2 DEF IInv, GraphInv, Made
    <3> QED BY <1>0, <2>2, <3>1, <3>2, <3>3 DEF LatestInv, Times
  <2> QED BY <2>3, <2>4
<1>3. CASE UNCHANGED <<latest, whole, state, current>>
  BY <1>0, <1>3 DEF LatestInv
<1>4. \/ Timeline \/ \E c \in Callers : Query(c)
      \/ UNCHANGED <<latest, whole, state, current>>
  BY ZenonT(40) DEF ToolsNext, CallNext, ServerNext, Ask, NotRouted, Resolve, Serve, Load,
         RequestFails, Return, Deploy, ServerRestarts, RuntimeEnds, vars, graph, toolVars
<1> QED BY <1>1, <1>2, <1>3, <1>4

\* Who asks again for the present is never told of an older one, whatever is
\* written, reviewed or repeated in between, until the tenant is purged.
THEOREM NobodyGoesBack == ToolsSpec => AnswersAdvance
<1>1. ToolsInit => LatestInv
  BY DEF ToolsInit, LatestInv
<1>2. IInv /\ ToolsInv /\ LatestInv /\ [ToolsNext]_<<vars, toolVars>>
        => LatestInv' /\ (latest' # 0 => latest <= latest')
  BY LatestStep, TimelineAssumption
<1> QED
  BY <1>1, <1>2, Inductive, TimelineInside, ToolsAreSound, PTL
     DEF ToolsSpec, AnswersAdvance

\* Every variable of the tools is of its type.
THEOREM ToolsTypes == ToolsSpec => []ToolsTypeOK
<1>1. ToolsInit => LatestInv
  BY DEF ToolsInit, LatestInv
<1>2. IInv /\ ToolsInv /\ LatestInv /\ [ToolsNext]_<<vars, toolVars>> => LatestInv'
  BY LatestStep, TimelineAssumption
<1>3. ToolsInv /\ LatestInv => ToolsTypeOK
  BY DEF ToolsInv, ServerInv, CallsInv, Vocabulary, Call, LatestInv, ToolsTypeOK
<1> QED
  BY <1>1, <1>2, <1>3, Inductive, TimelineInside, ToolsAreSound, PTL DEF ToolsSpec

-----------------------------------------------------------------------------
(* Finite sets in a row.                                                   *)

Below(R, S, x) == {y \in S : <<y, x>> \in R}
StrictOrder(R, S) ==
  /\ \A x \in S : <<x, x>> \notin R
  /\ \A x, y, z \in S : <<x, y>> \in R /\ <<y, z>> \in R => <<x, z>> \in R
  /\ \A x, y \in S : x # y => <<x, y>> \in R \/ <<y, x>> \in R

\* How many of a finite set are below an element is its place.
LEMMA PlaceIsCount ==
  ASSUME NEW S, IsFiniteSet(S), NEW R, StrictOrder(R, S), NEW n, n = Cardinality(S),
         NEW r, r = [x \in S |-> Cardinality(Below(R, S, x)) + 1]
  PROVE  /\ n \in Nat /\ r \in [S -> 1 .. n]
         /\ \A x, y \in S : <<x, y>> \in R <=> r[x] < r[y]
         /\ \A x, y \in S : r[x] = r[y] => x = y
         /\ \A i \in 1 .. n : \E x \in S : r[x] = i
<1>1. n \in Nat
  BY FS_CardinalityType
<1>2. ASSUME NEW x \in S
      PROVE  IsFiniteSet(Below(R, S, x)) /\ Cardinality(Below(R, S, x)) \in 0 .. n - 1
  <2>1. Below(R, S, x) \subseteq S \ {x}
    BY DEF Below, StrictOrder
  <2>2. IsFiniteSet(S \ {x}) /\ Cardinality(S \ {x}) = n - 1
    BY FS_RemoveElement
  <2>3. IsFiniteSet(Below(R, S, x)) /\ Cardinality(Below(R, S, x)) <= n - 1
    BY <2>1, <2>2, FS_Subset
  <2>4. Cardinality(Below(R, S, x)) \in Nat
    BY <2>3, FS_CardinalityType
  <2> QED BY <1>1, <2>3, <2>4
<1>3. r \in [S -> 1 .. n]
  <2>1. \A x \in S : Cardinality(Below(R, S, x)) + 1 \in 1 .. n
    BY <1>1, <1>2
  <2> QED BY <2>1
<1>4. ASSUME NEW x \in S, NEW y \in S, <<x, y>> \in R
      PROVE  r[x] < r[y]
  <2>1. Below(R, S, x) \cup {x} \subseteq Below(R, S, y)
    BY <1>4 DEF Below, StrictOrder
  <2>2. x \notin Below(R, S, x)
    BY DEF Below, StrictOrder
  <2>3. /\ IsFiniteSet(Below(R, S, x) \cup {x})
        /\ Cardinality(Below(R, S, x) \cup {x}) = Cardinality(Below(R, S, x)) + 1
    BY <1>2, <2>2, FS_AddElement
  <2>4. Cardinality(Below(R, S, x)) + 1 <= Cardinality(Below(R, S, y))
    BY <1>2, <2>1, <2>3, FS_Subset
  <2>5. r[x] = Cardinality(Below(R, S, x)) + 1 /\ r[y] = Cardinality(Below(R, S, y)) + 1
    OBVIOUS
  <2>6. Cardinality(Below(R, S, x)) \in 0 .. n - 1 /\ Cardinality(Below(R, S, y)) \in 0 .. n - 1
    BY <1>2
  <2> QED BY <1>1, <2>4, <2>5, <2>6
<1>5. ASSUME NEW x \in S, NEW y \in S
      PROVE  /\ r[x] < r[y] => <<x, y>> \in R
             /\ r[x] = r[y] => x = y
  <2>1. r[x] \in 1 .. n /\ r[y] \in 1 .. n
    BY <1>3
  <2>2. CASE x = y
    BY <1>1, <2>1, <2>2
  <2>3. CASE <<x, y>> \in R
    BY <1>1, <1>4, <2>1, <2>3
  <2>4. CASE <<y, x>> \in R
    BY <1>1, <1>4, <2>1, <2>4
  <2> QED BY <2>2, <2>3, <2>4 DEF StrictOrder
<1>6. \A i \in 1 .. n : \E x \in S : r[x] = i
  <2> DEFINE N == 1 .. n
  <2>1. IsFiniteSet(N) /\ Cardinality(N) = n
    BY <1>1, FS_Interval
  <2>2. r \in [S -> N] /\ \A x, y \in S : r[x] = r[y] => x = y
    BY <1>3, <1>5
  <2> HIDE DEF N
  <2>3. r \in Injection(S, N)
    BY <2>2, Zenon DEF Injection, IsInjective
  <2>4. r \in Surjection(S, N)
    BY <2>1, <2>3, FS_Injection
  <2>5. \A i \in N : \E x \in S : r[x] = i
    BY <2>4 DEF Surjection
  <2> QED BY <2>5 DEF N
<1> QED BY <1>1, <1>3, <1>4, <1>5, <1>6

\* The row: at each place the element with as many below it.
Row(R, S) == [i \in 1 .. Cardinality(S) |-> CHOOSE x \in S : Cardinality(Below(R, S, x)) = i - 1]

LEMMA InARow ==
  ASSUME NEW S, IsFiniteSet(S), NEW R, StrictOrder(R, S), NEW n, n = Cardinality(S),
         NEW at, at = Row(R, S)
  PROVE  /\ n \in Nat /\ at \in [1 .. n -> S]
         /\ \A x \in S : \E i \in 1 .. n : at[i] = x
         /\ \A i, j \in 1 .. n : at[i] = at[j] => i = j
         /\ \A i, j \in 1 .. n : <<at[i], at[j]>> \in R <=> i < j
<1> DEFINE r == [x \in S |-> Cardinality(Below(R, S, x)) + 1]
<1>1. /\ n \in Nat /\ r \in [S -> 1 .. n]
      /\ \A x, y \in S : <<x, y>> \in R <=> r[x] < r[y]
      /\ \A x, y \in S : r[x] = r[y] => x = y
      /\ \A i \in 1 .. n : \E x \in S : r[x] = i
  <2> HIDE DEF r
  <2>1. r = [x \in S |-> Cardinality(Below(R, S, x)) + 1]
    BY DEF r
  <2> QED BY <2>1, PlaceIsCount
<1>2. \A x \in S : r[x] = Cardinality(Below(R, S, x)) + 1 /\ Cardinality(Below(R, S, x)) \in Nat
  <2>1. ASSUME NEW x \in S PROVE Cardinality(Below(R, S, x)) \in Nat
    <3>1. Below(R, S, x) \subseteq S
      BY DEF Below
    <3> QED BY <3>1, FS_Subset, FS_CardinalityType
  <2> QED BY <2>1
<1>3. ASSUME NEW i \in 1 .. n
      PROVE  at[i] \in S /\ r[at[i]] = i
  <2>1. PICK x \in S : r[x] = i
    BY <1>1
  <2>2. Cardinality(Below(R, S, x)) = i - 1
    BY <1>1, <1>2, <2>1
  <2>3. at[i] \in S /\ Cardinality(Below(R, S, at[i])) = i - 1
    <3>1. at[i] = CHOOSE z \in S : Cardinality(Below(R, S, z)) = i - 1
      BY DEF Row
    <3> HIDE DEF r
    <3> QED BY <2>2, <3>1
  <2> HIDE DEF r
  <2> QED BY <1>1, <1>2, <2>3
<1> HIDE DEF r
<1>4. at \in [1 .. n -> S]
  BY <1>3 DEF Row
<1>5. \A x \in S : \E i \in 1 .. n : at[i] = x
  <2> SUFFICES ASSUME NEW x \in S PROVE \E i \in 1 .. n : at[i] = x
    OBVIOUS
  <2>1. r[x] \in 1 .. n
    BY <1>1
  <2>2. at[r[x]] \in S /\ r[at[r[x]]] = r[x]
    BY <1>3, <2>1
  <2>3. at[r[x]] = x
    BY <1>1, <2>2
  <2> QED BY <2>1, <2>3
<1>6. \A i, j \in 1 .. n : at[i] = at[j] => i = j
  BY <1>3
<1>7. \A i, j \in 1 .. n : <<at[i], at[j]>> \in R <=> i < j
  BY <1>1, <1>3
<1> QED BY <1>1, <1>4, <1>5, <1>6, <1>7

LEMMA TwoAreFinite == \A x, y : IsFiniteSet({x, y})
<1> TAKE x, y
<1>1. IsFiniteSet({x}) /\ IsFiniteSet({x} \cup {y})
  BY FS_Singleton, FS_AddElement
<1>2. {x} \cup {y} = {x, y}
  OBVIOUS
<1> QED BY <1>1, <1>2

\* The least and the greatest of finitely many numbers.
LEMMA EndsOfASet ==
  ASSUME NEW S \in SUBSET Int, IsFiniteSet(S), S # {}
  PROVE  /\ Min(S) \in S /\ \A x \in S : Min(S) <= x
         /\ Max(S) \in S /\ \A x \in S : x <= Max(S)
<1> DEFINE R == {p \in S \X S : p[1] < p[2]}
           n == Cardinality(S)
           at == Row(R, S)
<1>1. StrictOrder(R, S)
  <2>1. \A x, y \in S : <<x, y>> \in R <=> x < y
    OBVIOUS
  <2> HIDE DEF R
  <2> QED BY <2>1 DEF StrictOrder
<1>2. /\ n \in Nat /\ at \in [1 .. n -> S]
      /\ \A x \in S : \E i \in 1 .. n : at[i] = x
      /\ \A i, j \in 1 .. n : <<at[i], at[j]>> \in R <=> i < j
  <2> HIDE DEF R
  <2> QED BY <1>1, InARow
<1>3. \A x, y \in S : <<x, y>> \in R <=> x < y
  OBVIOUS
<1> HIDE DEF R, n, at
<1>4. n # 0
  <2>1. PICK x \in S : TRUE
    OBVIOUS
  <2>2. PICK i \in 1 .. n : at[i] = x
    BY <1>2
  <2> QED BY <1>2, <2>2
<1>5. 1 \in 1 .. n /\ n \in 1 .. n /\ at[1] \in S /\ at[n] \in S
  BY <1>2, <1>4
<1>6. \A x \in S : at[1] <= x /\ x <= at[n]
  <2> SUFFICES ASSUME NEW x \in S PROVE at[1] <= x /\ x <= at[n]
    OBVIOUS
  <2>1. PICK i \in 1 .. n : at[i] = x
    BY <1>2
  <2>2. ~(i < 1) /\ ~(n < i)
    BY <1>2, <2>1
  <2>3. \A k, l \in 1 .. n : <<at[k], at[l]>> \in R <=> k < l
    BY <1>2
  <2>4. ~(x < at[1]) /\ ~(at[n] < x)
    <3>1. <<at[i], at[1]>> \notin R /\ <<at[n], at[i]>> \notin R
      BY <1>5, <2>2, <2>3
    <3>2. \A k \in 1 .. n : at[k] \in S
      BY <1>2
    <3> QED BY <1>3, <1>5, <2>1, <3>1, <3>2
  <2>5. at[1] \in Int /\ at[n] \in Int /\ x \in Int
    BY <1>5
  <2> QED BY <2>4, <2>5
<1>7. Min(S) \in S /\ \A x \in S : Min(S) <= x
  BY <1>5, <1>6 DEF Min
<1>8. Max(S) \in S /\ \A x \in S : Max(S) >= x
  BY <1>5, <1>6 DEF Max
<1> QED BY <1>7, <1>8

-----------------------------------------------------------------------------
(* What is known of a dialog between the steps of a call.                  *)

\* Numbered from 1 on, some of the numbers or all up to one.
Numbering(V) == UNION {[D -> V] : D \in SUBSET (Nat \ {0})}
Listing(V)   == UNION {[1 .. n -> V] : n \in Nat}

EventRecord == [about : SUBSET Posted, rests : SUBSET Posted]
FactRecord  == [about : SUBSET Posted, days : Nat \cup {Absent},
                policy : {"until_changed", "permanent", "temporary", Absent}]
CallRecord  == [over : BOOLEAN, marks : Markings \cup {Absent}, turns : Listing(Posted),
                events : Listing(EventRecord), facts : Listing(FactRecord)]
NodeRecord  == [about : SUBSET Posted, rests : SUBSET Posted, from : Int, to : Int]
EntryRecord == [turn : Posted, events : SUBSET Nat]
EdgeKinds   == {"event", "involves", "spoken", "next", "fact", "stated", "derived"}

Triples     == EdgeKinds \X Nat \X (Nat \cup Range(Speaker))
Dialogs     == [utterances : Numbering(Posted), events : Numbering(NodeRecord),
                facts : Numbering(FactRecord), edges : SUBSET Triples]
Indexes     == [utterances : Numbering(EntryRecord), facts : Numbering(FactRecord)]

DialogTypeOK ==
  /\ step \in {"idle", "extract", "upsert", "purge", "index"}
  /\ call \in CallRecord /\ last \in CallRecord \cup {Absent}
  /\ dialog \in Dialogs /\ index \in Indexes
  /\ marker \in [status : {"none", "completed", "failed"}, facts : SUBSET Nat]
  /\ calls \in Nat /\ faults \in Nat /\ fresh \in BOOLEAN /\ swallowed \in BOOLEAN

\* A call knows its turns, and then what was found in them.
Begun(c) == c.marks \in Markings /\ c.turns = Numbered(KeptTurns(c.marks))
Extracted(c) ==
  /\ Begun(c)
  /\ \A i \in DOMAIN c.events : c.events[i].rests # {} /\ c.events[i].rests \subseteq Range(c.turns)
  /\ \A j \in DOMAIN c.facts : /\ c.facts[j].about \subseteq Range(c.turns)
                               /\ c.facts[j] = Fact(c.turns, c.marks, c.facts[j].about)

Indexed(c) ==
  /\ \A u \in DOMAIN c.turns : index.utterances[u] = IndexEntries(c)[u]
  /\ \A j \in DOMAIN c.facts : index.facts[j] = c.facts[j]

DialogInv ==
  /\ DialogTypeOK
  /\ step = "extract" => Begun(call)
  /\ step \in {"upsert", "purge", "index"} => Extracted(call)
  /\ step \in {"extract", "upsert"} /\ fresh => dialog = Nowhere
  /\ step \in {"extract", "upsert"} => ~swallowed
  /\ step \in {"purge", "index"} /\ fresh /\ ~swallowed => dialog = Request(call)
  /\ step = "purge" => call.over
  /\ step = "purge" /\ ~swallowed => DOMAIN call.events \subseteq DOMAIN dialog.events
  /\ step = "index" /\ call.over /\ ~swallowed => DOMAIN dialog.events = DOMAIN call.events
  /\ Done => /\ Extracted(last) /\ Indexed(last)
             /\ fresh /\ ~swallowed => dialog = Request(last)
             /\ last.over /\ ~swallowed => DOMAIN dialog.events = DOMAIN last.events

-----------------------------------------------------------------------------
(* Turns, and where they are.                                              *)

LEMMA DialogConstants ==
  /\ TurnCount \in Nat \ {0} /\ SegmentTurns \in Nat \ {0} /\ SupportLimit \in Nat \ {0}
  /\ MaxEvents \in Nat /\ MaxFacts \in Nat /\ Now \in Nat
  /\ DOMAIN Speaker = Posted /\ Given \in [Posted -> Nat \cup {Absent}]
  /\ Markings \subseteq [Posted -> MarkKinds]
  /\ Blank \subseteq Posted /\ Absent \notin Nat
  /\ IsFiniteSet(Posted) /\ Posted \subseteq Nat \ {0} /\ 1 \in Posted
<1>1. TurnCount \in Nat \ {0}
  BY DialogAssumption
<1>2. IsFiniteSet(Posted)
  BY <1>1, FS_Interval DEF Posted
<1>3. Posted \subseteq Nat \ {0} /\ 1 \in Posted
  BY <1>1 DEF Posted
<1> QED BY <1>1, <1>2, <1>3, DialogAssumption

\* The turns of a set in order: each of them at one place.
LEMMA InPostedOrderIs ==
  ASSUME NEW S \in SUBSET Posted, NEW turns, turns = InPostedOrder(S)
  PROVE  \E n \in Nat :
           /\ turns \in [1 .. n -> S] /\ Range(turns) = S
           /\ \A u, v \in 1 .. n : turns[u] = turns[v] => u = v
<1> DEFINE R == {p \in S \X S : p[1] < p[2]}
           n == Cardinality(S)
<1>1. IsFiniteSet(S)
  BY DialogConstants, FS_Subset
<1>2. \A x, y \in S : <<x, y>> \in R <=> x < y
  OBVIOUS
<1>3. S \subseteq Nat
  BY DialogConstants
<1> HIDE DEF R
<1>4. StrictOrder(R, S)
  BY <1>2, <1>3 DEF StrictOrder
<1>5. turns = Row(R, S)
  <2>1. \A t \in S : Below(R, S, t) = {s \in S : s < t}
    BY <1>2 DEF Below
  <2>2. \A i \in 1 .. n : (CHOOSE x \in S : Cardinality(Below(R, S, x)) = i - 1)
                          = CHOOSE t \in S : Cardinality({s \in S : s < t}) = i - 1
    BY <2>1
  <2> QED BY <2>2 DEF Row, InPostedOrder
<1>6. /\ n \in Nat /\ turns \in [1 .. n -> S]
      /\ \A x \in S : \E i \in 1 .. n : turns[i] = x
      /\ \A i, j \in 1 .. n : turns[i] = turns[j] => i = j
  BY <1>1, <1>4, <1>5, InARow
<1>7. Range(turns) = S
  <2> HIDE DEF n
  <2> QED BY <1>6 DEF Range
<1> QED BY <1>6, <1>7

LEMMA TurnsOfACall ==
  ASSUME NEW c, Begun(c)
  PROVE  /\ \E n \in Nat : c.turns \in [1 .. n -> Posted] /\ DOMAIN c.turns = 1 .. n
         /\ Range(c.turns) = KeptTurns(c.marks) \ Blank
         /\ \A u, v \in DOMAIN c.turns : c.turns[u] = c.turns[v] => u = v
         /\ DOMAIN c.turns \subseteq Nat \ {0} /\ IsFiniteSet(DOMAIN c.turns)
         /\ \A u \in DOMAIN c.turns : c.turns[u] \in Posted
<1> DEFINE S == KeptTurns(c.marks) \ Blank
<1>1. S \in SUBSET Posted
  BY DEF KeptTurns
<1>2. c.turns = InPostedOrder(S)
  BY DEF Begun, Numbered
<1> HIDE DEF S
<1>3. PICK n \in Nat :
           /\ c.turns \in [1 .. n -> S] /\ Range(c.turns) = S
           /\ \A u, v \in 1 .. n : c.turns[u] = c.turns[v] => u = v
  BY <1>1, <1>2, InPostedOrderIs
<1>4. DOMAIN c.turns = 1 .. n /\ c.turns \in [1 .. n -> Posted]
  BY <1>1, <1>3
<1>5. IsFiniteSet(1 .. n)
  BY <1>3, FS_Interval
<1> QED BY <1>3, <1>4, <1>5 DEF S

\* A turn of the call has its place, and no other turn has it.
LEMMA PlaceOfATurn ==
  ASSUME NEW c, Begun(c)
  PROVE  /\ \A t \in Range(c.turns) : /\ Place(c.turns, t) \in DOMAIN c.turns
                                      /\ c.turns[Place(c.turns, t)] = t
         /\ \A u \in DOMAIN c.turns : Place(c.turns, c.turns[u]) = u
<1>1. ASSUME NEW t \in Range(c.turns)
      PROVE  Place(c.turns, t) \in DOMAIN c.turns /\ c.turns[Place(c.turns, t)] = t
  <2>1. Place(c.turns, t) = CHOOSE u \in DOMAIN c.turns : c.turns[u] = t
    BY DEF Place
  <2>2. \E u \in DOMAIN c.turns : c.turns[u] = t
    BY DEF Range
  <2> QED BY <2>1, <2>2
<1>2. \A u \in DOMAIN c.turns : c.turns[u] \in Range(c.turns)
  BY DEF Range
<1>3. \A u, v \in DOMAIN c.turns : c.turns[u] = c.turns[v] => u = v
  BY TurnsOfACall
<1> QED BY <1>1, <1>2, <1>3

LEMMA PlacesOfTurns ==
  ASSUME NEW c, Begun(c), NEW picked, picked \subseteq Range(c.turns)
  PROVE  /\ Places(c.turns, picked) \subseteq DOMAIN c.turns
         /\ IsFiniteSet(Places(c.turns, picked))
         /\ Places(c.turns, picked) \subseteq Nat \ {0}
         /\ picked # {} => Places(c.turns, picked) # {}
         /\ \A u \in DOMAIN c.turns : u \in Places(c.turns, picked) <=> c.turns[u] \in picked
         /\ {c.turns[u] : u \in Places(c.turns, picked)} = picked
<1>1. /\ DOMAIN c.turns \subseteq Nat \ {0} /\ IsFiniteSet(DOMAIN c.turns)
      /\ \A t \in Range(c.turns) : /\ Place(c.turns, t) \in DOMAIN c.turns
                                   /\ c.turns[Place(c.turns, t)] = t
      /\ \A u \in DOMAIN c.turns : Place(c.turns, c.turns[u]) = u
  BY TurnsOfACall, PlaceOfATurn
<1>2. \A u : u \in Places(c.turns, picked) <=> \E t \in picked : u = Place(c.turns, t)
  BY <1>1, DialogConstants DEF Places
<1>3. Places(c.turns, picked) \subseteq DOMAIN c.turns
  BY <1>1, <1>2
<1>4. \A u \in DOMAIN c.turns : u \in Places(c.turns, picked) <=> c.turns[u] \in picked
  BY <1>1, <1>2
<1>5. {c.turns[u] : u \in Places(c.turns, picked)} = picked
  BY <1>1, <1>2
<1>6. IsFiniteSet(Places(c.turns, picked))
  BY <1>1, <1>3, FS_Subset
<1>7. picked # {} => Places(c.turns, picked) # {}
  BY <1>2
<1> QED BY <1>1, <1>3, <1>4, <1>5, <1>6, <1>7

-----------------------------------------------------------------------------
(* What is extracted.                                                      *)

\* The days of some marks: none of them, for ever, or the fewest that end.
LEMMA MergedIs ==
  ASSUME NEW kinds \in SUBSET MarkKinds
  PROVE  /\ Merged(kinds) \in Nat \cup {Absent} /\ (Merged(kinds) = Absent <=> kinds = {})
         /\ Merged(kinds) = 0 => \A kind \in kinds : Days(kind) = 0
         /\ Merged(kinds) \notin {0, Absent} => \E kind \in kinds : Days(kind) = Merged(kinds)
         /\ \A kind \in kinds : Days(kind) = 0 \/ Merged(kinds) \in 1 .. Days(kind)
<1> DEFINE ending == {Days(kind) : kind \in kinds} \ {0}
<1>1. \A kind \in kinds : Days(kind) \in {0, 30, 180}
  BY DEF Days
<1>2. ending \subseteq {30, 180}
  BY <1>1
<1>3. IsFiniteSet(ending)
  <2>1. IsFiniteSet({30, 180})
    BY TwoAreFinite
  <2> QED BY <1>2, <2>1, FS_Subset
<1>4. Merged(kinds) = IF kinds = {} THEN Absent ELSE IF ending = {} THEN 0 ELSE Min(ending)
  BY Zenon DEF Merged
<1>5. \A kind \in kinds : Days(kind) # 0 => Days(kind) \in ending
  OBVIOUS
<1>6. \A x \in ending : \E kind \in kinds : Days(kind) = x
  OBVIOUS
<1> HIDE DEF ending
<1>7. ending # {} => Min(ending) \in ending /\ \A x \in ending : Min(ending) <= x
  <2>1. ending \in SUBSET Int
    BY <1>2
  <2> QED BY <1>3, <2>1, EndsOfASet
<1>8. Absent \notin Nat
  BY DialogConstants
<1>9. CASE kinds = {}
  BY <1>4, <1>8, <1>9
<1>10. CASE kinds # {} /\ ending = {}
  BY <1>4, <1>5, <1>8, <1>10
<1>11. CASE kinds # {} /\ ending # {}
  <2>1. Merged(kinds) = Min(ending) /\ Merged(kinds) \in ending
    BY <1>4, <1>7, <1>11
  <2>2. Merged(kinds) \in {30, 180}
    BY <1>2, <2>1
  <2>3. Merged(kinds) \in Nat /\ Merged(kinds) > 0 /\ Merged(kinds) # Absent
    BY <1>8, <2>2
  <2>4. \A kind \in kinds : Days(kind) = 0 \/ Merged(kinds) \in 1 .. Days(kind)
    <3> SUFFICES ASSUME NEW kind \in kinds, Days(kind) # 0 PROVE Merged(kinds) \in 1 .. Days(kind)
      OBVIOUS
    <3>1. Merged(kinds) <= Days(kind)
      BY <1>5, <1>7, <2>1
    <3>2. Days(kind) \in Nat
      BY <1>1
    <3> QED BY <2>3, <3>1, <3>2
  <2>5. \E kind \in kinds : Days(kind) = Merged(kinds)
    BY <1>6, <2>1
  <2> QED BY <1>11, <2>3, <2>4, <2>5
<1> QED BY <1>9, <1>10, <1>11

LEMMA MarksOfTurns ==
  ASSUME NEW c, Begun(c), NEW about
  PROVE  MarksOf(c.turns, c.marks, about) \in SUBSET MarkKinds
<1>1. c.marks \in [Posted -> MarkKinds]
  BY DialogConstants DEF Begun
<1>2. \A u \in DOMAIN c.turns : c.turns[u] \in Posted
  BY TurnsOfACall
<1>3. \A u \in DOMAIN c.turns : c.marks[c.turns[u]] \in MarkKinds
  BY <1>1, <1>2
<1> QED BY <1>3 DEF MarksOf

LEMMA FactIs ==
  ASSUME NEW c, Begun(c), NEW about \in SUBSET Posted
  PROVE  /\ Fact(c.turns, c.marks, about) \in FactRecord
         /\ Fact(c.turns, c.marks, about).about = about
         /\ Fact(c.turns, c.marks, about).days = Merged(MarksOf(c.turns, c.marks, about))
<1> DEFINE kinds == MarksOf(c.turns, c.marks, about)
<1>1. kinds \in SUBSET MarkKinds
  BY MarksOfTurns
<1>2. Fact(c.turns, c.marks, about) =
        [about |-> about, days |-> Merged(kinds), policy |-> MergedPolicy(kinds)]
  BY DEF Fact
<1>3. MergedPolicy(kinds) \in {"until_changed", "permanent", "temporary", Absent}
  BY DEF MergedPolicy
<1> HIDE DEF kinds
<1>4. Merged(kinds) \in Nat \cup {Absent}
  BY <1>1, MergedIs
<1>5. [about |-> about, days |-> Merged(kinds), policy |-> MergedPolicy(kinds)] \in FactRecord
  BY <1>3, <1>4 DEF FactRecord
<1> QED BY <1>2, <1>5 DEF kinds

\* What the user asked to save is kept.
LEMMA SavedIsKept ==
  ASSUME NEW c, Begun(c)
  PROVE  Saved(c.marks) \subseteq Range(c.turns)
<1>1. \A t \in Saved(c.marks) : t \in Posted /\ c.marks[t] = "save"
  BY DEF Saved
<1>2. \A t \in Blank : c.marks[t] \in {"none", "note"}
  BY DialogAssumption DEF Begun
<1>3. \A t \in Saved(c.marks) : t \in KeptTurns(c.marks)
  BY <1>1 DEF KeptTurns, Kept
<1>4. \A t \in Saved(c.marks) : t \notin Blank
  BY <1>1, <1>2
<1> QED BY <1>3, <1>4, TurnsOfACall

\* An event rests on some of the turns it was found in.
LEMMA EventsAreOfTurns ==
  ASSUME NEW c, Begun(c), NEW ev \in EventsIn(c.turns)
  PROVE  /\ ev \in EventRecord
         /\ ev.rests # {} /\ ev.rests \subseteq Range(c.turns) /\ ev.about \subseteq Range(c.turns)
<1>1. Range(c.turns) \subseteq Posted /\ IsFiniteSet(Range(c.turns))
  <2>1. Range(c.turns) \subseteq Posted
    BY TurnsOfACall DEF Range
  <2> QED BY <2>1, DialogConstants, FS_Subset
<1>2. PICK picked \in Picks(c.turns) : ev \in
        {[about |-> picked, rests |-> rests] : rests \in
            {sub \in SUBSET picked : Cardinality(sub) = Min({SupportLimit, Cardinality(picked)})}}
  BY DEF EventsIn
<1>3. PICK rests \in SUBSET picked :
        /\ Cardinality(rests) = Min({SupportLimit, Cardinality(picked)})
        /\ ev = [about |-> picked, rests |-> rests]
  BY <1>2
<1>4. picked \subseteq Range(c.turns) /\ picked # {}
  BY DEF Picks
<1>5. Cardinality(picked) \in Nat \ {0}
  BY <1>1, <1>4, FS_Subset, FS_CardinalityType, FS_EmptySet
<1>6. SupportLimit \in Nat \ {0}
  BY DialogConstants
<1>7. Min({SupportLimit, Cardinality(picked)}) # 0
  <2> DEFINE T == {SupportLimit, Cardinality(picked)}
  <2>1. T \in SUBSET Int /\ T # {} /\ 0 \notin T
    BY <1>5, <1>6
  <2>2. IsFiniteSet(T)
    BY TwoAreFinite
  <2> HIDE DEF T
  <2>3. Min(T) \in T
    BY <2>1, <2>2, EndsOfASet
  <2> QED BY <2>1, <2>3 DEF T
<1>8. rests # {}
  BY <1>3, <1>7, FS_EmptySet
<1>9. ev.about = picked /\ ev.rests = rests
  BY <1>3
<1>10. ev \in EventRecord
  BY <1>1, <1>3, <1>4 DEF EventRecord
<1> QED BY <1>3, <1>4, <1>8, <1>9, <1>10

FactsOf(c, facts) == [j \in DOMAIN facts |-> Fact(c.turns, c.marks, facts[j])]

LEMMA Extraction ==
  ASSUME NEW c, c \in CallRecord, Begun(c),
         NEW events \in EventLists(c.turns), NEW found \in FactLists(c.turns),
         NEW facts, facts = found \o Pinned(c.marks),
         NEW drawn, drawn = FactsOf(c, facts),
         NEW d, d = [c EXCEPT !.events = events, !.facts = drawn]
  PROVE  d \in CallRecord /\ Extracted(d)
<1>1. Range(c.turns) \subseteq Posted
  BY TurnsOfACall DEF Range
<1>2. PICK n \in 0 .. MaxEvents : events \in [1 .. n -> EventsIn(c.turns)]
  BY DEF EventLists, ListsOf
<1>3. PICK m \in 0 .. MaxFacts : found \in [1 .. m -> Picks(c.turns)]
  BY DEF FactLists, ListsOf
<1>4. \A i \in 1 .. n : /\ events[i] \in EventRecord /\ events[i].rests # {}
                        /\ events[i].rests \subseteq Range(c.turns)
  BY <1>2, EventsAreOfTurns
<1>5. \A j \in 1 .. m : found[j] \subseteq Range(c.turns)
  BY <1>3 DEF Picks
<1>6. \E k \in Nat : DOMAIN facts = 1 .. k /\ \A j \in 1 .. k : facts[j] \subseteq Range(c.turns)
  <2> DEFINE T == SUBSET Range(c.turns)
  <2>4. m \in Nat /\ found \in [1 .. m -> T]
    BY <1>3, <1>5, DialogConstants
  <2> HIDE DEF T
  <2>1. found \in Seq(T)
    BY <2>4
  <2>2. Pinned(c.marks) \in Seq(T)
    <3>1. Saved(c.marks) \in T
      BY SavedIsKept DEF T
    <3> QED BY <3>1 DEF Pinned
  <2>3. facts \in Seq(T)
    BY <2>1, <2>2
  <2>5. Len(facts) \in Nat /\ DOMAIN facts = 1 .. Len(facts)
    BY <2>3
  <2>7. \A j \in 1 .. Len(facts) : facts[j] \in T
    BY <2>3
  <2>6. \A j \in 1 .. Len(facts) : facts[j] \subseteq Range(c.turns)
    BY <2>7 DEF T
  <2> QED BY <2>5, <2>6
<1>7. PICK k \in Nat : DOMAIN facts = 1 .. k /\ \A j \in 1 .. k : facts[j] \subseteq Range(c.turns)
  BY <1>6
<1>8. \A j \in 1 .. k : /\ drawn[j] \in FactRecord /\ drawn[j].about = facts[j]
                        /\ drawn[j] = Fact(c.turns, c.marks, facts[j])
  BY <1>1, <1>7, FactIs DEF FactsOf
<1>9. drawn \in [1 .. k -> FactRecord] /\ DOMAIN drawn = 1 .. k
  BY <1>7, <1>8 DEF FactsOf
<1>10. events \in [1 .. n -> EventRecord]
  BY <1>2, <1>4
<1>12. /\ d.events = events /\ d.facts = drawn /\ d.turns = c.turns /\ d.marks = c.marks
       /\ d.over = c.over /\ d = [over |-> c.over, marks |-> c.marks, turns |-> c.turns,
                                  events |-> events, facts |-> drawn]
  BY DEF CallRecord
<1>13. n \in Nat /\ events \in Listing(EventRecord) /\ drawn \in Listing(FactRecord)
  <2>1. n \in Nat
    BY <1>2, DialogConstants
  <2> QED BY <1>7, <1>9, <1>10, <2>1 DEF Listing
<1>14. d \in CallRecord
  BY <1>12, <1>13 DEF CallRecord
<1>15. Begun(d)
  BY <1>12 DEF Begun
<1>16. \A i \in DOMAIN d.events :
         d.events[i].rests # {} /\ d.events[i].rests \subseteq Range(d.turns)
  BY <1>2, <1>4, <1>12
<1>17. \A j \in DOMAIN d.facts :
         /\ d.facts[j].about \subseteq Range(d.turns)
         /\ d.facts[j] = Fact(d.turns, d.marks, d.facts[j].about)
  <2> SUFFICES ASSUME NEW j \in 1 .. k
               PROVE  /\ drawn[j].about \subseteq Range(c.turns)
                      /\ drawn[j] = Fact(c.turns, c.marks, drawn[j].about)
    BY <1>9, <1>12
  <2>1. drawn[j].about = facts[j] /\ drawn[j] = Fact(c.turns, c.marks, facts[j])
    BY <1>8
  <2>2. facts[j] \subseteq Range(c.turns)
    BY <1>7
  <2> QED BY <2>1, <2>2
<1> QED BY <1>14, <1>15, <1>16, <1>17 DEF Extracted

-----------------------------------------------------------------------------
(* What is written.                                                        *)

LEMMA NumberingIs ==
  ASSUME NEW V
  PROVE  /\ \A f \in Numbering(V) : DOMAIN f \subseteq Nat \ {0} /\ f \in [DOMAIN f -> V]
         /\ \A D \in SUBSET (Nat \ {0}) : \A f \in [D -> V] : f \in Numbering(V)
         /\ Listing(V) \subseteq Numbering(V)
<1>1. \A f \in Numbering(V) : DOMAIN f \subseteq Nat \ {0} /\ f \in [DOMAIN f -> V]
  BY DEF Numbering
<1>2. \A D \in SUBSET (Nat \ {0}) : \A f \in [D -> V] : f \in Numbering(V)
  BY DEF Numbering
<1>3. \A n \in Nat : 1 .. n \in SUBSET (Nat \ {0})
  OBVIOUS
<1>4. Listing(V) \subseteq Numbering(V)
  BY <1>2, <1>3 DEF Listing
<1> QED BY <1>1, <1>2, <1>4

LEMMA OntoIs ==
  ASSUME NEW V, NEW new \in Numbering(V), NEW old \in Numbering(V)
  PROVE  /\ Onto(new, old) \in Numbering(V)
         /\ DOMAIN Onto(new, old) = DOMAIN new \cup DOMAIN old
         /\ \A x \in DOMAIN new : Onto(new, old)[x] = new[x]
         /\ old = <<>> => Onto(new, old) = new
<1> DEFINE D == DOMAIN new \cup DOMAIN old
<1>1. /\ DOMAIN new \subseteq Nat \ {0} /\ new \in [DOMAIN new -> V]
      /\ DOMAIN old \subseteq Nat \ {0} /\ old \in [DOMAIN old -> V]
  BY NumberingIs
<1>2. D \in SUBSET (Nat \ {0}) /\ Onto(new, old) \in [D -> V]
  BY <1>1 DEF Onto
<1>3. \A x \in DOMAIN new : Onto(new, old)[x] = new[x]
  BY DEF Onto
<1>4. ASSUME old = <<>> PROVE Onto(new, old) = new
  <2>1. D = DOMAIN new
    BY <1>4
  <2> QED BY <1>1, <1>2, <1>3, <2>1
<1> HIDE DEF D
<1>5. Onto(new, old) \in Numbering(V)
  BY <1>2, NumberingIs
<1> QED BY <1>2, <1>3, <1>4, <1>5 DEF D

LEMMA RestrictIs ==
  ASSUME NEW V, NEW f \in Numbering(V), NEW S \in SUBSET DOMAIN f
  PROVE  Restrict(f, S) \in Numbering(V) /\ DOMAIN Restrict(f, S) = S
<1>1. DOMAIN f \subseteq Nat \ {0} /\ f \in [DOMAIN f -> V]
  BY NumberingIs
<1>2. S \in SUBSET (Nat \ {0}) /\ Restrict(f, S) \in [S -> V]
  BY <1>1 DEF Restrict
<1> QED BY <1>2, NumberingIs

LEMMA RangeIsFinite ==
  ASSUME NEW S, IsFiniteSet(S), NEW f, DOMAIN f = S
  PROVE  IsFiniteSet({f[x] : x \in S})
<1> DEFINE T == {f[x] : x \in S}
           g == [x \in S |-> f[x]]
<1>1. g \in [S -> T] /\ \A y \in T : \E x \in S : g[x] = y
  OBVIOUS
<1> HIDE DEF T, g
<1>2. g \in Surjection(S, T)
  BY <1>1 DEF Surjection
<1>3. IsFiniteSet(T)
  BY <1>2, FS_Surjection
<1> QED BY <1>3 DEF T

\* Every turn has a time, so some of them have a first and a last one.
LEMMA TimesOfTurns ==
  ASSUME NEW c, Begun(c), NEW picked, picked \subseteq Range(c.turns), picked # {},
         NEW times, times = {TimeAt(c.turns, u) : u \in Places(c.turns, picked)}
  PROVE  /\ times \in SUBSET Int /\ IsFiniteSet(times) /\ times # {}
         /\ Min(times) \in Int /\ Max(times) \in Int
<1> DEFINE turns == c.turns
           timed == {u \in DOMAIN turns : Given[turns[u]] # Absent}
           S == Places(turns, picked)
           f == [u \in S |-> TimeAt(turns, u)]
<1>1. S \subseteq DOMAIN turns /\ IsFiniteSet(S) /\ S # {}
  BY PlacesOfTurns
<1>2. \A u \in DOMAIN turns : turns[u] \in Posted /\ u \in Nat
  BY TurnsOfACall
<1>3. Given \in [Posted -> Nat \cup {Absent}] /\ Now \in Nat
  BY DialogConstants
<1>4. Reference(turns) \in Int
  <2>1. Reference(turns) =
          IF timed = {} THEN Now ELSE Given[turns[Min(timed)]] - (Min(timed) - 1)
    BY DEF Reference
  <2>2. CASE timed = {}
    BY <1>3, <2>1, <2>2
  <2>3. CASE timed # {}
    <3>1. timed \in SUBSET Int /\ timed \subseteq DOMAIN turns
      BY <1>2
    <3>2. IsFiniteSet(timed)
      BY <3>1, TurnsOfACall, FS_Subset
    <3>3. Min(timed) \in timed
      <4> HIDE DEF timed
      <4> QED BY <2>3, <3>1, <3>2, EndsOfASet
    <3>4. Min(timed) \in DOMAIN turns /\ Given[turns[Min(timed)]] # Absent
      BY <3>3
    <3>5. Given[turns[Min(timed)]] \in Nat /\ Min(timed) \in Nat
      BY <1>2, <1>3, <3>4
    <3> HIDE DEF timed
    <3> QED BY <2>1, <2>3, <3>5
  <2> QED BY <2>2, <2>3
<1>5. \A u \in DOMAIN turns : TimeAt(turns, u) \in Int
  BY <1>2, <1>3, <1>4 DEF TimeAt
<1>6. times = {f[u] : u \in S}
  OBVIOUS
<1> HIDE DEF S
<1>7. IsFiniteSet(times)
  <2>1. DOMAIN f = S
    OBVIOUS
  <2> HIDE DEF f
  <2> QED BY <1>1, <1>6, <2>1, RangeIsFinite
<1>8. times \in SUBSET Int /\ times # {}
  BY <1>1, <1>5, <1>6
<1>9. Min(times) \in Int /\ Max(times) \in Int
  BY <1>7, <1>8, EndsOfASet
<1> QED BY <1>7, <1>8, <1>9

\* What is asked for an extraction.
LEMMA RequestIs ==
  ASSUME NEW c, c \in CallRecord, Extracted(c)
  PROVE  /\ Request(c) \in Dialogs
         /\ Request(c).utterances = c.turns /\ Request(c).facts = c.facts
         /\ DOMAIN Request(c).events = DOMAIN c.events
         /\ \A i \in DOMAIN c.events : Request(c).events[i] = EventNode(c.turns, c.events[i])
<1> DEFINE nodes == [i \in DOMAIN c.events |-> EventNode(c.turns, c.events[i])]
           edges == SupportedBy(c) \cup Involves(c) \cup SpokenBy(c) \cup NextEvent(c)
                    \cup FactEdges(c) \cup DerivedFrom(c)
<1>1. Begun(c)
  BY DEF Extracted
<1>2. /\ c.turns \in Numbering(Posted) /\ c.events \in Numbering(EventRecord)
      /\ c.facts \in Numbering(FactRecord)
  BY NumberingIs DEF CallRecord
<1>3. /\ DOMAIN c.turns \subseteq Nat \ {0} /\ c.turns \in [DOMAIN c.turns -> Posted]
      /\ DOMAIN c.events \subseteq Nat \ {0} /\ c.events \in [DOMAIN c.events -> EventRecord]
      /\ DOMAIN c.facts \subseteq Nat \ {0}
  BY <1>2, NumberingIs
<1>4. \A i \in DOMAIN c.events : EventNode(c.turns, c.events[i]) \in NodeRecord
  <2> SUFFICES ASSUME NEW i \in DOMAIN c.events
               PROVE  EventNode(c.turns, c.events[i]) \in NodeRecord
    OBVIOUS
  <2> DEFINE picked == c.events[i].rests
             times == {TimeAt(c.turns, u) : u \in Places(c.turns, picked)}
  <2>1. picked # {} /\ picked \subseteq Range(c.turns)
    BY DEF Extracted
  <2>2. EventNode(c.turns, c.events[i]) =
          [about |-> c.events[i].about, rests |-> c.events[i].rests,
           from |-> Min(times), to |-> Max(times)]
    BY DEF EventNode
  <2> HIDE DEF picked
  <2>5. times = {TimeAt(c.turns, u) : u \in Places(c.turns, picked)}
    OBVIOUS
  <2> HIDE DEF times
  <2>3. Min(times) \in Int /\ Max(times) \in Int
    BY <1>1, <2>1, <2>5, TimesOfTurns
  <2>4. c.events[i].about \in SUBSET Posted /\ c.events[i].rests \in SUBSET Posted
    BY <1>3 DEF EventRecord
  <2> QED BY <2>2, <2>3, <2>4 DEF NodeRecord
<1>5. nodes \in Numbering(NodeRecord)
  <2>1. nodes \in [DOMAIN c.events -> NodeRecord]
    BY <1>4
  <2> QED BY <1>3, <2>1, NumberingIs
<1>6. \A i \in DOMAIN c.events : \A u \in Places(c.turns, c.events[i].rests) :
        u \in Nat /\ Speaker[c.turns[u]] \in Range(Speaker)
  <2> SUFFICES ASSUME NEW i \in DOMAIN c.events, NEW u \in Places(c.turns, c.events[i].rests)
               PROVE  u \in Nat /\ Speaker[c.turns[u]] \in Range(Speaker)
    OBVIOUS
  <2> DEFINE picked == c.events[i].rests
  <2>1. picked \subseteq Range(c.turns) /\ u \in Places(c.turns, picked)
    BY DEF Extracted
  <2> HIDE DEF picked
  <2>2. u \in DOMAIN c.turns
    BY <1>1, <2>1, PlacesOfTurns
  <2>3. c.turns[u] \in DOMAIN Speaker
    BY <1>3, <2>2, DialogConstants
  <2> QED BY <1>3, <2>2, <2>3 DEF Range
<1>7. \A j \in DOMAIN c.facts : \A u \in Places(c.turns, c.facts[j].about) :
        u \in Nat /\ Speaker[c.turns[u]] \in Range(Speaker)
  <2> SUFFICES ASSUME NEW j \in DOMAIN c.facts, NEW u \in Places(c.turns, c.facts[j].about)
               PROVE  u \in Nat /\ Speaker[c.turns[u]] \in Range(Speaker)
    OBVIOUS
  <2> DEFINE picked == c.facts[j].about
  <2>1. picked \subseteq Range(c.turns) /\ u \in Places(c.turns, picked)
    BY DEF Extracted
  <2> HIDE DEF picked
  <2>2. u \in DOMAIN c.turns
    BY <1>1, <2>1, PlacesOfTurns
  <2>3. c.turns[u] \in DOMAIN Speaker
    BY <1>3, <2>2, DialogConstants
  <2> QED BY <1>3, <2>2, <2>3 DEF Range
<1>8. SupportedBy(c) \subseteq Triples /\ Involves(c) \subseteq Triples
  BY <1>3, <1>6 DEF SupportedBy, Involves, Triples, EdgeKinds
<1>9. SpokenBy(c) \subseteq Triples
  <2>1. \A u \in DOMAIN c.turns : u \in Nat /\ Speaker[c.turns[u]] \in Range(Speaker)
    BY <1>3, DialogConstants DEF Range
  <2> QED BY <2>1 DEF SpokenBy, Triples, EdgeKinds
<1>10. NextEvent(c) \subseteq Triples /\ DerivedFrom(c) \subseteq Triples
  BY <1>3 DEF NextEvent, DerivedFrom, Triples, EdgeKinds
<1>11. FactEdges(c) \subseteq Triples
  BY <1>3, <1>7 DEF FactEdges, FactPlaces, Triples, EdgeKinds
<1>12. edges \subseteq Triples
  BY <1>8, <1>9, <1>10, <1>11
<1>13. Request(c) = [utterances |-> c.turns, events |-> nodes, facts |-> c.facts, edges |-> edges]
  BY DEF Request
<1>14. DOMAIN nodes = DOMAIN c.events
       /\ \A i \in DOMAIN c.events : nodes[i] = EventNode(c.turns, c.events[i])
  OBVIOUS
<1> HIDE DEF nodes, edges
<1>15. Request(c) \in Dialogs
  BY <1>2, <1>5, <1>12, <1>13 DEF Dialogs
<1> QED BY <1>13, <1>14, <1>15

-----------------------------------------------------------------------------
(* A call.                                                                 *)

LEMMA NothingIs ==
  /\ \A V : <<>> \in Numbering(V) /\ <<>> \in Listing(V)
  /\ NoCall \in CallRecord /\ Nowhere \in Dialogs
<1>1. ASSUME NEW V PROVE <<>> \in Listing(V)
  <2>1. <<>> \in [1 .. 0 -> V]
    OBVIOUS
  <2> QED BY <2>1 DEF Listing
<1>2. \A V : <<>> \in Numbering(V)
  BY <1>1, NumberingIs
<1>3. NoCall \in CallRecord
  BY <1>1 DEF NoCall, CallRecord
<1>4. Nowhere \in Dialogs
  BY <1>2 DEF Nowhere, Dialogs
<1> QED BY <1>1, <1>2, <1>3, <1>4

LEMMA DialogStart == DialogInit => DialogInv
<1> SUFFICES ASSUME DialogInit PROVE DialogInv
  OBVIOUS
<1>1. step = "idle" /\ ~Done
  BY DEF DialogInit, Done
<1>2. DialogTypeOK
  BY NothingIs DEF DialogInit, DialogTypeOK, Indexes
<1> QED BY <1>1, <1>2 DEF DialogInv

LEMMA BeginKeeps ==
  ASSUME DialogInv, NEW over \in BOOLEAN, NEW marks \in Markings, Begin(over, marks)
  PROVE  DialogInv'
<1>1. DialogTypeOK
  BY DEF DialogInv
<1>2. /\ step' = "extract" /\ calls' = calls + 1 /\ fresh' = (dialog = Nowhere)
      /\ swallowed' = FALSE
      /\ call' = [over |-> over, marks |-> marks, turns |-> Numbered(KeptTurns(marks)),
                  events |-> <<>>, facts |-> <<>>]
      /\ UNCHANGED <<dialog, index, marker, faults, last>>
  BY Zenon DEF Begin, NoCall
<1>3. Begun(call')
  BY <1>2 DEF Begun
<1>4. call' \in CallRecord
  <2>1. call'.turns \in Listing(Posted)
    BY <1>3, TurnsOfACall DEF Listing
  <2> QED BY <1>2, <2>1, NothingIs DEF CallRecord
<1>5. DialogTypeOK'
  <2>1. fresh' \in BOOLEAN /\ swallowed' \in BOOLEAN
    BY <1>2, Zenon
  <2> QED BY <1>1, <1>2, <1>4, <2>1 DEF DialogTypeOK
<1>6. (fresh' => dialog' = Nowhere) /\ ~swallowed'
  BY <1>2
<1>7. ~Done'
  BY <1>2 DEF Done
<1> QED BY <1>2, <1>3, <1>5, <1>6, <1>7 DEF DialogInv

LEMMA ExtractKeeps ==
  ASSUME DialogInv, Extract
  PROVE  DialogInv'
<1>1. DialogTypeOK /\ Begun(call) /\ (fresh => dialog = Nowhere) /\ ~swallowed
  BY DEF DialogInv, Extract
<1>2. /\ step' = "upsert"
      /\ UNCHANGED <<dialog, index, marker, calls, faults, fresh, swallowed, last>>
  BY DEF Extract
<1>3. PICK events \in EventLists(call.turns), found \in FactLists(call.turns) :
        LET facts == found \o Pinned(call.marks)
        IN  call' = [call EXCEPT
              !.events = events,
              !.facts  = [j \in DOMAIN facts |-> Fact(call.turns, call.marks, facts[j])]]
  BY DEF Extract
<1>4. call' \in CallRecord /\ Extracted(call')
  <2> DEFINE facts == found \o Pinned(call.marks)
  <2>1. call \in CallRecord
    BY <1>1 DEF DialogTypeOK
  <2>2. call' = [call EXCEPT !.events = events, !.facts  = FactsOf(call, facts)]
    BY <1>3 DEF FactsOf
  <2>3. facts = found \o Pinned(call.marks)
    OBVIOUS
  <2> HIDE DEF facts
  <2> QED BY <1>1, <2>1, <2>2, <2>3, Extraction
<1>5. DialogTypeOK'
  BY <1>1, <1>2, <1>4 DEF DialogTypeOK
<1>6. ~Done'
  BY <1>2 DEF Done
<1> QED BY <1>1, <1>2, <1>4, <1>5, <1>6 DEF DialogInv

\* What MERGE leaves: of the nodes and edges of the request and those that were
\* there.
LEMMA MergeIs ==
  ASSUME dialog \in Dialogs, NEW req \in Dialogs
  PROVE  /\ Merge(req) \in Dialogs
         /\ DOMAIN Merge(req).events = DOMAIN req.events \cup DOMAIN dialog.events
         /\ dialog = Nowhere => Merge(req) = req
<1>1. /\ req.utterances \in Numbering(Posted) /\ dialog.utterances \in Numbering(Posted)
      /\ req.events \in Numbering(NodeRecord) /\ dialog.events \in Numbering(NodeRecord)
      /\ req.facts \in Numbering(FactRecord) /\ dialog.facts \in Numbering(FactRecord)
      /\ req.edges \subseteq Triples /\ dialog.edges \subseteq Triples
  BY DEF Dialogs
<1>2. /\ Onto(req.utterances, dialog.utterances) \in Numbering(Posted)
      /\ dialog.utterances = <<>> => Onto(req.utterances, dialog.utterances) = req.utterances
  BY <1>1, OntoIs
<1>3. /\ Onto(req.events, dialog.events) \in Numbering(NodeRecord)
      /\ dialog.events = <<>> => Onto(req.events, dialog.events) = req.events
  BY <1>1, OntoIs
<1>4. DOMAIN Onto(req.events, dialog.events) = DOMAIN req.events \cup DOMAIN dialog.events
  BY DEF Onto
<1>5. /\ Onto(req.facts, dialog.facts) \in Numbering(FactRecord)
      /\ dialog.facts = <<>> => Onto(req.facts, dialog.facts) = req.facts
  BY <1>1, OntoIs
<1>6. Merge(req) \in Dialogs
  BY <1>1, <1>2, <1>3, <1>5 DEF Dialogs, Merge
<1>7. DOMAIN Merge(req).events = DOMAIN req.events \cup DOMAIN dialog.events
  BY <1>4 DEF Merge
<1>8. dialog = Nowhere => Merge(req) = req
  <2> SUFFICES ASSUME dialog = Nowhere PROVE Merge(req) = req
    OBVIOUS
  <2>1. /\ dialog.utterances = <<>> /\ dialog.events = <<>> /\ dialog.facts = <<>>
        /\ dialog.edges = {}
    BY DEF Nowhere
  <2>2. Merge(req) = [utterances |-> req.utterances, events |-> req.events,
                      facts |-> req.facts, edges |-> req.edges]
    BY <1>2, <1>3, <1>5, <2>1 DEF Merge
  <2> QED BY <2>2 DEF Dialogs
<1> QED BY <1>6, <1>7, <1>8

LEMMA UpsertKeeps ==
  ASSUME DialogInv, Upsert
  PROVE  DialogInv'
<1> DEFINE req == Request(call)
           nodes == [req EXCEPT !.edges = {}]
<1>1. DialogTypeOK /\ Extracted(call) /\ (fresh => dialog = Nowhere) /\ ~swallowed
  BY DEF DialogInv, Upsert
<1>2. /\ step' = IF call.over THEN "purge" ELSE "index"
      /\ UNCHANGED <<call, index, marker, calls, fresh, last>>
      /\ \/ dialog' = Merge(req) /\ Works
         \/ dialog' \in {dialog, Merge(nodes)} /\ Swallowed
  BY Zenon DEF Upsert
<1>3. call \in CallRecord /\ dialog \in Dialogs
  BY <1>1 DEF DialogTypeOK
<1>4. req \in Dialogs /\ DOMAIN req.events = DOMAIN call.events
  BY <1>1, <1>3, RequestIs
<1>5. nodes \in Dialogs
  BY <1>4 DEF Dialogs
<1> HIDE DEF req, nodes
<1>6. /\ Merge(req) \in Dialogs /\ Merge(nodes) \in Dialogs
      /\ DOMAIN call.events \subseteq DOMAIN Merge(req).events
      /\ dialog = Nowhere => Merge(req) = req
  BY <1>3, <1>4, <1>5, MergeIs
<1>7. \/ step' = "purge" /\ call'.over
      \/ step' = "index" /\ ~call'.over
  <2>1. call.over \in BOOLEAN
    BY <1>3 DEF CallRecord
  <2> QED BY <1>2, <2>1
<1>8. /\ dialog' \in Dialogs /\ faults' \in Nat /\ swallowed' \in BOOLEAN
      /\ ~swallowed' => dialog' = Merge(req)
  <2>1. faults \in Nat /\ swallowed \in BOOLEAN
    BY <1>1 DEF DialogTypeOK
  <2>2. CASE dialog' = Merge(req) /\ Works
    BY <1>6, <2>1, <2>2 DEF Works
  <2>3. CASE dialog' \in {dialog, Merge(nodes)} /\ Swallowed
    BY <1>3, <1>6, <2>1, <2>3 DEF Swallowed
  <2> QED BY <1>2, <2>2, <2>3
<1>9. DialogTypeOK'
  BY <1>1, <1>2, <1>7, <1>8 DEF DialogTypeOK
<1>10. fresh' /\ ~swallowed' => dialog' = Request(call')
  BY <1>1, <1>2, <1>6, <1>8 DEF req
<1>11. ~swallowed' => DOMAIN call'.events \subseteq DOMAIN dialog'.events
  BY <1>2, <1>6, <1>8
<1>12. ~Done' /\ Extracted(call')
  BY <1>1, <1>2, <1>7 DEF Done
<1> QED BY <1>7, <1>9, <1>10, <1>11, <1>12 DEF DialogInv

\* What a purge leaves.
LEMMA WithoutIs ==
  ASSUME dialog \in Dialogs, NEW events, NEW facts
  PROVE  /\ Without(events, facts) \in Dialogs
         /\ DOMAIN Without(events, facts).events = DOMAIN dialog.events \ events
         /\ events = {} /\ facts = {} => Without(events, facts) = dialog
<1> DEFINE E == DOMAIN dialog.events \ events
           F == DOMAIN dialog.facts \ facts
           kept == {edge \in dialog.edges : ~Touches(edge, events, facts)}
<1>1. Without(events, facts) = [utterances |-> dialog.utterances,
                                events |-> Restrict(dialog.events, E),
                                facts |-> Restrict(dialog.facts, F), edges |-> kept]
  <2>1. dialog = [utterances |-> dialog.utterances, events |-> dialog.events,
                  facts |-> dialog.facts, edges |-> dialog.edges]
    BY DEF Dialogs
  <2>2. DOMAIN dialog = {"utterances", "events", "facts", "edges"}
    BY <2>1
  <2>3. Without(events, facts) =
          [dialog EXCEPT !.events = Restrict(dialog.events, E),
                         !.facts = Restrict(dialog.facts, F), !.edges = kept]
    BY Zenon DEF Without
  <2> HIDE DEF E, F, kept
  <2> QED BY <2>1, <2>3
<1>2. /\ dialog.events \in Numbering(NodeRecord) /\ dialog.facts \in Numbering(FactRecord)
      /\ dialog.utterances \in Numbering(Posted) /\ dialog.edges \subseteq Triples
  BY DEF Dialogs
<1>3. E \in SUBSET DOMAIN dialog.events /\ F \in SUBSET DOMAIN dialog.facts
  OBVIOUS
<1>4. kept \subseteq Triples
  BY <1>2
<1>5. ASSUME events = {}, facts = {} PROVE Without(events, facts) = dialog
  <2>1. E = DOMAIN dialog.events /\ F = DOMAIN dialog.facts
    BY <1>5
  <2>2. kept = dialog.edges
    BY <1>5 DEF Touches
  <2>3. /\ Restrict(dialog.events, DOMAIN dialog.events) = dialog.events
        /\ Restrict(dialog.facts, DOMAIN dialog.facts) = dialog.facts
    <3>1. /\ dialog.events \in [DOMAIN dialog.events -> NodeRecord]
          /\ dialog.facts \in [DOMAIN dialog.facts -> FactRecord]
      BY <1>2, NumberingIs
    <3> QED BY <3>1 DEF Restrict
  <2> HIDE DEF E, F, kept
  <2>4. Without(events, facts) = [utterances |-> dialog.utterances, events |-> dialog.events,
                                  facts |-> dialog.facts, edges |-> dialog.edges]
    BY <1>1, <2>1, <2>2, <2>3
  <2> QED BY <2>4 DEF Dialogs
<1> HIDE DEF kept
<1>6. /\ Restrict(dialog.events, E) \in Numbering(NodeRecord)
      /\ Restrict(dialog.facts, F) \in Numbering(FactRecord)
  <2> HIDE DEF E, F
  <2> QED BY <1>2, <1>3, RestrictIs
<1>7. DOMAIN Restrict(dialog.events, E) = E
  BY DEF Restrict
<1>8. Without(events, facts) \in Dialogs
  BY <1>1, <1>2, <1>4, <1>6 DEF Dialogs
<1>9. DOMAIN Without(events, facts).events = E
  BY <1>1, <1>7
<1> QED BY <1>5, <1>8, <1>9

LEMMA PurgeKeeps ==
  ASSUME DialogInv, Purge
  PROVE  DialogInv'
<1> DEFINE events == Dropped(DOMAIN call.events)
           facts  == {edge[2] : edge \in {edge \in dialog.edges :
                                            edge[1] = "derived" /\ edge[3] \in events}}
<1>1. /\ DialogTypeOK /\ Extracted(call) /\ call.over
      /\ fresh /\ ~swallowed => dialog = Request(call)
      /\ ~swallowed => DOMAIN call.events \subseteq DOMAIN dialog.events
  BY DEF DialogInv, Purge
<1>2. /\ step' = "index" /\ UNCHANGED <<call, index, marker, calls, fresh, last>>
      /\ \/ dialog' = Without(events, facts) /\ Works
         \/ dialog' \in {dialog, Without({}, facts)} /\ Swallowed
  BY DEF Purge
<1>3. dialog \in Dialogs /\ call \in CallRecord
  BY <1>1 DEF DialogTypeOK
<1>4. events = DOMAIN dialog.events \ DOMAIN call.events
  BY DEF Dropped
<1>5. events = {} => facts = {}
  OBVIOUS
<1> HIDE DEF events, facts
<1>6. /\ Without(events, facts) \in Dialogs /\ Without({}, facts) \in Dialogs
      /\ DOMAIN Without(events, facts).events = DOMAIN dialog.events \ events
      /\ events = {} => Without(events, facts) = dialog
  BY <1>3, <1>5, WithoutIs
<1>7. /\ dialog' \in Dialogs /\ faults' \in Nat /\ swallowed' \in BOOLEAN
      /\ ~swallowed' => ~swallowed /\ dialog' = Without(events, facts)
  <2>1. faults \in Nat /\ swallowed \in BOOLEAN
    BY <1>1 DEF DialogTypeOK
  <2>2. CASE dialog' = Without(events, facts) /\ Works
    BY <1>6, <2>1, <2>2 DEF Works
  <2>3. CASE dialog' \in {dialog, Without({}, facts)} /\ Swallowed
    BY <1>3, <1>6, <2>1, <2>3 DEF Swallowed
  <2> QED BY <1>2, <2>2, <2>3
<1>8. DialogTypeOK'
  BY <1>1, <1>2, <1>7 DEF DialogTypeOK
<1>9. ~swallowed' => DOMAIN dialog'.events = DOMAIN call'.events
  BY <1>1, <1>2, <1>4, <1>6, <1>7
<1>10. ASSUME fresh', ~swallowed' PROVE dialog' = Request(call')
  <2>1. dialog = Request(call)
    BY <1>1, <1>2, <1>7, <1>10
  <2>2. DOMAIN dialog.events = DOMAIN call.events
    BY <1>1, <1>3, <2>1, RequestIs
  <2>3. events = {}
    BY <1>4, <2>2
  <2> QED BY <1>2, <1>6, <1>7, <1>10, <2>1, <2>3
<1>11. ~Done'
  BY <1>2 DEF Done
<1> QED BY <1>1, <1>2, <1>8, <1>9, <1>10, <1>11 DEF DialogInv

LEMMA IndexKeeps ==
  ASSUME DialogInv, Index
  PROVE  DialogInv'
<1> DEFINE stale == IF call.over THEN marker.facts \ DOMAIN call.facts ELSE {}
           D == (DOMAIN call.facts \cup DOMAIN index.facts) \ stale
           entries == Onto(IndexEntries(call), index.utterances)
           facts == Onto(call.facts, index.facts)
<1>1. /\ DialogTypeOK /\ Extracted(call)
      /\ fresh /\ ~swallowed => dialog = Request(call)
      /\ call.over /\ ~swallowed => DOMAIN dialog.events = DOMAIN call.events
  BY DEF DialogInv, Index
<1>2. /\ step' = "idle" /\ index' = [utterances |-> entries, facts |-> Restrict(facts, D)]
      /\ marker' = [status |-> "completed", facts |-> DOMAIN call.facts]
      /\ last' = call /\ call' = NoCall
      /\ UNCHANGED <<dialog, calls, faults, fresh, swallowed>>
  BY DEF Index
<1>3. DOMAIN call.facts \cap stale = {}
  OBVIOUS
<1> HIDE DEF stale
<1>4. call \in CallRecord /\ index \in Indexes
  BY <1>1 DEF DialogTypeOK
<1>5. /\ call.facts \in Numbering(FactRecord) /\ index.facts \in Numbering(FactRecord)
      /\ index.utterances \in Numbering(EntryRecord)
      /\ call.turns \in Numbering(Posted) /\ call.events \in Numbering(EventRecord)
  BY <1>4, NumberingIs DEF CallRecord, Indexes
<1>6. /\ DOMAIN call.facts \subseteq Nat /\ DOMAIN call.events \subseteq Nat
      /\ DOMAIN call.turns \in SUBSET (Nat \ {0}) /\ call.turns \in [DOMAIN call.turns -> Posted]
  BY <1>5, NumberingIs
<1>7. IndexEntries(call) \in Numbering(EntryRecord)
  <2>1. \A u \in DOMAIN call.turns : IndexEntries(call)[u] \in EntryRecord
    <3> SUFFICES ASSUME NEW u \in DOMAIN call.turns PROVE IndexEntries(call)[u] \in EntryRecord
      OBVIOUS
    <3> DEFINE names == {i \in DOMAIN call.events : <<"event", i, u>> \in SupportedBy(call)}
    <3>1. names \in SUBSET Nat
      BY <1>6
    <3>2. IndexEntries(call)[u] = [turn |-> call.turns[u], events |-> names]
      BY DEF IndexEntries
    <3>3. call.turns[u] \in Posted
      BY <1>6
    <3> HIDE DEF names
    <3> QED BY <3>1, <3>2, <3>3 DEF EntryRecord
  <2>2. IndexEntries(call) \in [DOMAIN call.turns -> EntryRecord]
    BY <2>1 DEF IndexEntries
  <2> QED BY <1>6, <2>2, NumberingIs
<1>8. DOMAIN IndexEntries(call) = DOMAIN call.turns
  BY DEF IndexEntries
<1>9. entries \in Numbering(EntryRecord)
      /\ \A u \in DOMAIN call.turns : entries[u] = IndexEntries(call)[u]
  BY <1>5, <1>7, <1>8, OntoIs
<1>10. /\ facts \in Numbering(FactRecord)
       /\ DOMAIN facts = DOMAIN call.facts \cup DOMAIN index.facts
       /\ \A j \in DOMAIN call.facts : facts[j] = call.facts[j]
  <2>1. facts \in Numbering(FactRecord)
    BY <1>5, OntoIs
  <2> QED BY <2>1 DEF Onto
<1> HIDE DEF facts, entries
<1>11. D \in SUBSET DOMAIN facts /\ DOMAIN call.facts \subseteq D
  BY <1>3, <1>10
<1> HIDE DEF D
<1>12. Restrict(facts, D) \in Numbering(FactRecord)
       /\ \A j \in DOMAIN call.facts : Restrict(facts, D)[j] = call.facts[j]
  <2>1. Restrict(facts, D) \in Numbering(FactRecord)
    BY <1>10, <1>11, RestrictIs
  <2>2. \A j \in DOMAIN call.facts : Restrict(facts, D)[j] = call.facts[j]
    BY <1>10, <1>11 DEF Restrict
  <2> QED BY <2>1, <2>2
<1>13. index' \in Indexes /\ index'.utterances = entries /\ index'.facts = Restrict(facts, D)
  BY <1>2, <1>9, <1>12 DEF Indexes
<1>14. Indexed(last)'
  BY <1>2, <1>9, <1>12, <1>13 DEF Indexed
<1>15. DialogTypeOK'
  BY <1>1, <1>2, <1>4, <1>6, <1>13, NothingIs DEF DialogTypeOK
<1> QED BY <1>1, <1>2, <1>14, <1>15 DEF DialogInv

LEMMA FailKeeps ==
  ASSUME DialogInv, Fail
  PROVE  DialogInv'
<1>1. /\ step' = "idle" /\ call' = NoCall /\ last' = Absent /\ faults' = faults + 1
      /\ marker' = [status |-> "failed", facts |-> {}]
      /\ UNCHANGED <<dialog, index, calls, fresh, swallowed>>
  BY DEF Fail
<1>2. DialogTypeOK'
  BY <1>1, NothingIs DEF DialogInv, DialogTypeOK
<1>3. ~Done'
  BY <1>1 DEF Done
<1> QED BY <1>1, <1>2, <1>3 DEF DialogInv

LEMMA DialogKeeps == DialogInv /\ [DialogNext]_dialogVars => DialogInv'
<1> SUFFICES ASSUME DialogInv, [DialogNext]_dialogVars PROVE DialogInv'
  OBVIOUS
<1>1. CASE UNCHANGED dialogVars
  BY <1>1 DEF dialogVars, DialogInv, DialogTypeOK, Done, Indexed
<1>2. CASE DialogNext
  <2>1. CASE \E over \in BOOLEAN, marks \in Markings : Begin(over, marks)
    BY <2>1, BeginKeeps
  <2>2. CASE Extract
    BY <2>2, ExtractKeeps
  <2>3. CASE Upsert
    BY <2>3, UpsertKeeps
  <2>4. CASE Purge
    BY <2>4, PurgeKeeps
  <2>5. CASE Index
    BY <2>5, IndexKeeps
  <2>6. CASE Fail
    BY <2>6, FailKeeps
  <2> QED BY <1>2, <2>1, <2>2, <2>3, <2>4, <2>5, <2>6 DEF DialogNext
<1> QED BY <1>1, <1>2

LEMMA DialogIsSound == DialogSpec => []DialogInv
BY DialogStart, DialogKeeps, PTL DEF DialogSpec

\* What the variables of a session hold, between all the steps of its calls.
THEOREM DialogTypes == DialogSpec => []DialogTypeOK
<1>1. DialogInv => DialogTypeOK
  BY DEF DialogInv
<1> QED BY <1>1, DialogIsSound, PTL

\* After an overwrite that ended well and that the graph carried out, it has the
\* events of the overwrite's own extraction and no others, whatever calls left
\* before it that failed or were not carried out (purge_source_except_events).
THEOREM AnOverwriteReplaces == DialogSpec => []OverwriteReplaces
<1>1. DialogInv => OverwriteReplaces
  BY DEF DialogInv, OverwriteReplaces, Stored
<1> QED BY <1>1, DialogIsSound, PTL

-----------------------------------------------------------------------------
(* What can be read back.                                                  *)

\* Nothing is between them.
Neighbours(c, i, k) ==
  /\ i \in DOMAIN c.events /\ k \in DOMAIN c.events /\ Precedes(c, i, k)
  /\ ~\E j \in DOMAIN c.events : Precedes(c, i, j) /\ Precedes(c, j, k)

\* The edges of a request, kind by kind.
LEMMA EdgesOfARequest ==
  ASSUME NEW c, c \in CallRecord, Extracted(c), NEW edges, edges = Request(c).edges
  PROVE  /\ \A edge \in edges : edge = <<edge[1], edge[2], edge[3]>>
         /\ \A i, u : <<"event", i, u>> \in edges
              <=> i \in DOMAIN c.events /\ u \in Places(c.turns, c.events[i].rests)
         /\ \A j, u : <<"fact", j, u>> \in edges
              <=> j \in DOMAIN c.facts /\ u \in Places(c.turns, c.facts[j].about)
         /\ \A j, i : <<"derived", j, i>> \in edges
              <=> j \in DOMAIN c.facts /\ i \in DOMAIN c.events /\ Derived(c, j, i)
         /\ \A i, k : <<"next", i, k>> \in edges <=> Neighbours(c, i, k)
<1>1. edges \subseteq Triples
  BY RequestIs DEF Dialogs
<1>2. edges = SupportedBy(c) \cup Involves(c) \cup SpokenBy(c) \cup NextEvent(c)
              \cup FactEdges(c) \cup DerivedFrom(c)
  BY DEF Request
<1>3. \A edge \in edges : edge = <<edge[1], edge[2], edge[3]>>
  BY <1>1 DEF Triples
<1>4. \A i, u : <<"event", i, u>> \in SupportedBy(c)
        <=> i \in DOMAIN c.events /\ u \in Places(c.turns, c.events[i].rests)
  BY DEF SupportedBy
<1>5. \A edge \in SupportedBy(c) : edge[1] = "event"
  BY DEF SupportedBy
<1>6. \A edge \in Involves(c) : edge[1] = "involves"
  BY DEF Involves
<1>7. \A edge \in SpokenBy(c) : edge[1] = "spoken"
  BY DEF SpokenBy
<1>8. \A edge \in NextEvent(c) : edge[1] = "next"
  BY DEF NextEvent
<1>9. \A edge \in FactEdges(c) : edge[1] \in {"fact", "stated"}
  BY DEF FactEdges
<1>10. \A edge \in DerivedFrom(c) : edge[1] = "derived"
  BY DEF DerivedFrom
<1>11. \A j, u : <<"fact", j, u>> \in FactEdges(c)
         <=> j \in DOMAIN c.facts /\ u \in Places(c.turns, c.facts[j].about)
  BY DEF FactEdges, FactPlaces
<1>12. \A j, i : <<"derived", j, i>> \in DerivedFrom(c)
         <=> j \in DOMAIN c.facts /\ i \in DOMAIN c.events /\ Derived(c, j, i)
  <2> TAKE j, i
  <2> DEFINE links == {pair \in (DOMAIN c.facts) \X (DOMAIN c.events) :
                         Derived(c, pair[1], pair[2])}
  <2>1. DerivedFrom(c) = {<<"derived", link[1], link[2]>> : link \in links}
    BY DEF DerivedFrom
  <2>2. <<j, i>> \in links
          <=> j \in DOMAIN c.facts /\ i \in DOMAIN c.events /\ Derived(c, j, i)
    OBVIOUS
  <2>3. \A link \in links : link = <<link[1], link[2]>>
    OBVIOUS
  <2> HIDE DEF links
  <2>4. <<"derived", j, i>> \in DerivedFrom(c) => <<j, i>> \in links
    BY <2>1, <2>3
  <2>5. <<j, i>> \in links => <<"derived", <<j, i>>[1], <<j, i>>[2]>> \in DerivedFrom(c)
    BY <2>1
  <2> QED BY <2>2, <2>4, <2>5
<1>13. \A i, k : <<"next", i, k>> \in NextEvent(c) <=> Neighbours(c, i, k)
  <2> TAKE i, k
  <2> DEFINE links == {pair \in (DOMAIN c.events) \X (DOMAIN c.events) :
               /\ Precedes(c, pair[1], pair[2])
               /\ ~\E j \in DOMAIN c.events : Precedes(c, pair[1], j) /\ Precedes(c, j, pair[2])}
  <2>1. NextEvent(c) = {<<"next", link[1], link[2]>> : link \in links}
    BY DEF NextEvent
  <2>2. <<i, k>> \in links <=> Neighbours(c, i, k)
    BY DEF Neighbours
  <2>3. \A link \in links : link = <<link[1], link[2]>>
    OBVIOUS
  <2> HIDE DEF links
  <2>4. <<"next", i, k>> \in NextEvent(c) => <<i, k>> \in links
    BY <2>1, <2>3
  <2>5. <<i, k>> \in links => <<"next", <<i, k>>[1], <<i, k>>[2]>> \in NextEvent(c)
    BY <2>1
  <2> QED BY <2>2, <2>4, <2>5
<1>14. \A i, u : <<"event", i, u>> \in edges <=> <<"event", i, u>> \in SupportedBy(c)
  BY <1>2, <1>6, <1>7, <1>8, <1>9, <1>10
<1>15. \A i, u : <<"fact", i, u>> \in edges <=> <<"fact", i, u>> \in FactEdges(c)
  BY <1>2, <1>5, <1>6, <1>7, <1>8, <1>10
<1>16. \A i, u : <<"derived", i, u>> \in edges <=> <<"derived", i, u>> \in DerivedFrom(c)
  BY <1>2, <1>5, <1>6, <1>7, <1>8, <1>9
<1>17. \A i, u : <<"next", i, u>> \in edges <=> <<"next", i, u>> \in NextEvent(c)
  BY <1>2, <1>5, <1>6, <1>7, <1>9, <1>10
<1>18. \A i, u : <<"event", i, u>> \in edges
         <=> i \in DOMAIN c.events /\ u \in Places(c.turns, c.events[i].rests)
  BY <1>4, <1>14
<1>19. \A i, u : <<"fact", i, u>> \in edges
         <=> i \in DOMAIN c.facts /\ u \in Places(c.turns, c.facts[i].about)
  BY <1>11, <1>15
<1>20. \A j, i : <<"derived", j, i>> \in edges
         <=> j \in DOMAIN c.facts /\ i \in DOMAIN c.events /\ Derived(c, j, i)
  BY <1>12, <1>16
<1>21. \A i, k : <<"next", i, k>> \in edges <=> Neighbours(c, i, k)
  BY <1>13, <1>17
<1> QED BY <1>3, <1>18, <1>19, <1>20, <1>21

\* What edges of a kind lead to, when they lead to the places of some turns.
LeadTo(edges, kind, n, places) ==
  /\ \A edge \in edges : edge = <<edge[1], edge[2], edge[3]>>
  /\ \A u : <<kind, n, u>> \in edges <=> u \in places

LEMMA SaidByPlaces ==
  ASSUME NEW c, Begun(c), dialog.utterances = c.turns,
         NEW edges, NEW kind, NEW n, NEW picked, picked \subseteq Range(c.turns),
         LeadTo(edges, kind, n, Places(c.turns, picked))
  PROVE  Said(edges, kind, n) = picked
<1>1. \A edge \in edges : edge[1] = kind /\ edge[2] = n => edge[3] \in Places(c.turns, picked)
  BY DEF LeadTo
<1>2. Said(edges, kind, n) = {c.turns[u] : u \in Places(c.turns, picked)}
  <2>1. \A t \in Said(edges, kind, n) : \E u \in Places(c.turns, picked) : t = c.turns[u]
    BY <1>1 DEF Said
  <2>2. \A u \in Places(c.turns, picked) : c.turns[u] \in Said(edges, kind, n)
    <3> SUFFICES ASSUME NEW u \in Places(c.turns, picked)
                 PROVE  c.turns[u] \in Said(edges, kind, n)
      OBVIOUS
    <3> DEFINE edge == <<kind, n, u>>
    <3>1. edge \in edges /\ edge[1] = kind /\ edge[2] = n /\ edge[3] = u
      BY DEF LeadTo
    <3> HIDE DEF edge
    <3> QED BY <3>1 DEF Said
  <2> QED BY <2>1, <2>2
<1> QED BY <1>2, PlacesOfTurns

LEMMA EventsAreRead ==
  ASSUME last \in CallRecord, Extracted(last), dialog = Request(last)
  PROVE  EventsRest
<1> SUFFICES ASSUME NEW i \in DOMAIN last.events
             PROVE  /\ i \in DOMAIN dialog.events
                    /\ Said(dialog.edges, "event", i) = last.events[i].rests
  BY DEF EventsRest
<1>1. i \in DOMAIN dialog.events /\ dialog.utterances = last.turns
  BY RequestIs
<1> DEFINE picked == last.events[i].rests
           edges == dialog.edges
<1>2. picked \subseteq Range(last.turns) /\ Begun(last)
  BY DEF Extracted
<1>3. LeadTo(edges, "event", i, Places(last.turns, picked))
  BY EdgesOfARequest DEF LeadTo
<1> HIDE DEF picked, edges
<1>4. Said(edges, "event", i) = picked
  BY <1>1, <1>2, <1>3, SaidByPlaces
<1> QED BY <1>1, <1>4 DEF picked, edges

LEMMA FactsAreRead ==
  ASSUME last \in CallRecord, Extracted(last), dialog = Request(last)
  PROVE  FactsRest
<1> SUFFICES ASSUME NEW j \in DOMAIN last.facts
             PROVE  /\ j \in DOMAIN dialog.facts
                    /\ Said(dialog.edges, "fact", j) = last.facts[j].about
                    /\ \A i \in DOMAIN last.events :
                         <<"derived", j, i>> \in dialog.edges
                           <=> last.facts[j].about \cap last.events[i].rests # {}
  BY DEF FactsRest
<1>1. j \in DOMAIN dialog.facts /\ dialog.utterances = last.turns
  BY RequestIs
<1> DEFINE picked == last.facts[j].about
           edges == dialog.edges
<1>2. picked \subseteq Range(last.turns) /\ Begun(last)
  BY DEF Extracted
<1>3. /\ LeadTo(edges, "fact", j, Places(last.turns, picked))
      /\ \A i \in DOMAIN last.events : <<"derived", j, i>> \in edges <=> Derived(last, j, i)
  BY EdgesOfARequest DEF LeadTo
<1>4. ASSUME NEW i \in DOMAIN last.events
      PROVE  Derived(last, j, i) <=> picked \cap last.events[i].rests # {}
  <2> DEFINE rests == last.events[i].rests
  <2>1. rests \subseteq Range(last.turns)
    BY DEF Extracted
  <2>2. Derived(last, j, i) <=> Places(last.turns, picked) \cap Places(last.turns, rests) # {}
    BY DEF Derived, FactPlaces
  <2> HIDE DEF rests, picked
  <2>3. /\ Places(last.turns, picked) \subseteq DOMAIN last.turns
        /\ \A u \in DOMAIN last.turns :
             u \in Places(last.turns, picked) <=> last.turns[u] \in picked
        /\ \A u \in DOMAIN last.turns : u \in Places(last.turns, rests) <=> last.turns[u] \in rests
    BY <1>2, <2>1, PlacesOfTurns
  <2>4. \A t \in picked : \E u \in DOMAIN last.turns : last.turns[u] = t
    BY <1>2 DEF Range
  <2>5. Places(last.turns, picked) \cap Places(last.turns, rests) # {} <=> picked \cap rests # {}
    BY <2>3, <2>4
  <2> QED BY <2>2, <2>5 DEF rests
<1> HIDE DEF picked, edges
<1>5. Said(edges, "fact", j) = picked
  <2>1. LeadTo(edges, "fact", j, Places(last.turns, picked))
    BY <1>3
  <2> QED BY <1>1, <1>2, <2>1, SaidByPlaces
<1>6. \A i \in DOMAIN last.events :
        <<"derived", j, i>> \in edges <=> picked \cap last.events[i].rests # {}
  BY <1>3, <1>4
<1> QED BY <1>1, <1>5, <1>6 DEF picked, edges

LEMMA IndexIsRead ==
  ASSUME last \in CallRecord, Extracted(last), dialog = Request(last), Indexed(last)
  PROVE  IndexAgrees
<1> SUFFICES ASSUME NEW u \in DOMAIN last.turns
             PROVE  LET entry == index.utterances[u]
                    IN  /\ entry.turn = dialog.utterances[u]
                        /\ entry.events = {i \in DOMAIN last.events :
                                             entry.turn \in last.events[i].rests}
  BY DEF IndexAgrees
<1>1. index.utterances[u] =
        [turn   |-> last.turns[u],
         events |-> {i \in DOMAIN last.events : <<"event", i, u>> \in SupportedBy(last)}]
  BY DEF Indexed, IndexEntries
<1>2. dialog.utterances[u] = last.turns[u]
  BY RequestIs
<1>3. \A i \in DOMAIN last.events :
        <<"event", i, u>> \in SupportedBy(last) <=> last.turns[u] \in last.events[i].rests
  <2> SUFFICES ASSUME NEW i \in DOMAIN last.events
               PROVE  <<"event", i, u>> \in SupportedBy(last)
                        <=> last.turns[u] \in last.events[i].rests
    OBVIOUS
  <2> DEFINE rests == last.events[i].rests
  <2>1. rests \subseteq Range(last.turns) /\ Begun(last)
    BY DEF Extracted
  <2>2. <<"event", i, u>> \in SupportedBy(last) <=> u \in Places(last.turns, rests)
    BY DEF SupportedBy
  <2> HIDE DEF rests
  <2>3. u \in Places(last.turns, rests) <=> last.turns[u] \in rests
    BY <2>1, PlacesOfTurns
  <2> QED BY <2>2, <2>3 DEF rests
<1> QED BY <1>1, <1>2, <1>3

\* The order of the chain has no ties and no circles.
LEMMA PrecedesIsStrict ==
  ASSUME NEW c, Extracted(c), NEW E, E = DOMAIN c.events, E \subseteq Nat
  PROVE  /\ \A i \in E : ~Precedes(c, i, i)
         /\ \A i, j, k \in E : Precedes(c, i, j) /\ Precedes(c, j, k) => Precedes(c, i, k)
         /\ \A i, k \in E : i # k => Precedes(c, i, k) \/ Precedes(c, k, i)
         /\ \A i, k \in E : Precedes(c, i, k)
              => StartsAt(c.turns, c.events[i].rests) <= StartsAt(c.turns, c.events[k].rests)
<1> DEFINE start(e) == StartsAt(c.turns, c.events[e].rests)
           first(e) == Min(Places(c.turns, c.events[e].rests))
<1>1. ASSUME NEW i \in E
      PROVE  start(i) \in Int /\ first(i) \in Int
  <2> DEFINE rests == c.events[i].rests
  <2>1. rests # {} /\ rests \subseteq Range(c.turns) /\ Begun(c)
    BY DEF Extracted
  <2> HIDE DEF rests
  <2> DEFINE times == {TimeAt(c.turns, u) : u \in Places(c.turns, rests)}
  <2>2. times = {TimeAt(c.turns, u) : u \in Places(c.turns, rests)}
    OBVIOUS
  <2>3. StartsAt(c.turns, rests) = Min(times)
    BY DEF StartsAt
  <2> HIDE DEF times
  <2>4. Min(times) \in Int
    BY <2>1, <2>2, TimesOfTurns
  <2> DEFINE S == Places(c.turns, rests)
  <2>5. S \subseteq Nat \ {0} /\ IsFiniteSet(S) /\ S # {}
    BY <2>1, PlacesOfTurns
  <2> HIDE DEF S
  <2>6. S \in SUBSET Int
    BY <2>5
  <2>7. Min(S) \in Int
    BY <2>5, <2>6, EndsOfASet
  <2> QED BY <2>3, <2>4, <2>7 DEF rests, S
<1>2. \A i, k \in E : Precedes(c, i, k) <=>
        \/ start(i) < start(k)
        \/ start(i) = start(k) /\ first(i) < first(k)
        \/ start(i) = start(k) /\ first(i) = first(k) /\ i < k
  BY DEF Precedes
<1> HIDE DEF start, first
<1>3. \A i \in E : ~Precedes(c, i, i)
  BY <1>1, <1>2
<1>4. \A i, j, k \in E : Precedes(c, i, j) /\ Precedes(c, j, k) => Precedes(c, i, k)
  <2> SUFFICES ASSUME NEW i \in E, NEW j \in E, NEW k \in E,
                      Precedes(c, i, j), Precedes(c, j, k)
               PROVE  Precedes(c, i, k)
    OBVIOUS
  <2>1. i \in Nat /\ j \in Nat /\ k \in Nat
    OBVIOUS
  <2>2. /\ start(i) \in Int /\ start(j) \in Int /\ start(k) \in Int
        /\ first(i) \in Int /\ first(j) \in Int /\ first(k) \in Int
    BY <1>1
  <2> QED BY <1>2, <2>1, <2>2
<1>5. \A i, k \in E : i # k => Precedes(c, i, k) \/ Precedes(c, k, i)
  <2> SUFFICES ASSUME NEW i \in E, NEW k \in E, i # k
               PROVE  Precedes(c, i, k) \/ Precedes(c, k, i)
    OBVIOUS
  <2>1. i \in Nat /\ k \in Nat
    OBVIOUS
  <2>2. start(i) \in Int /\ start(k) \in Int /\ first(i) \in Int /\ first(k) \in Int
    BY <1>1
  <2> QED BY <1>2, <2>1, <2>2
<1>6. \A i, k \in E : Precedes(c, i, k) => start(i) <= start(k)
  BY <1>1, <1>2
<1> QED BY <1>3, <1>4, <1>5, <1>6 DEF start

\* The links of a row: one from each element to the next.
Successive(links, R, E) ==
  /\ \A link \in links : link = <<"next", link[2], link[3]>>
  /\ \A i, k : <<"next", i, k>> \in links
       <=> /\ i \in E /\ k \in E /\ <<i, k>> \in R
           /\ ~\E j \in E : <<i, j>> \in R /\ <<j, k>> \in R

LEMMA LinksOfARow ==
  ASSUME NEW E, IsFiniteSet(E), NEW R, StrictOrder(R, E), NEW n, n = Cardinality(E),
         NEW links, Successive(links, R, E)
  PROVE  /\ n \in Nat /\ Cardinality(links) = Max({0, n - 1})
         /\ \A one, two \in links : (one[2] = two[2]) = (one[3] = two[3])
<1> USE DEF Successive
<1> DEFINE at == Row(R, E)
<1>1. /\ n \in Nat /\ at \in [1 .. n -> E]
      /\ \A x \in E : \E i \in 1 .. n : at[i] = x
      /\ \A i, j \in 1 .. n : at[i] = at[j] => i = j
      /\ \A i, j \in 1 .. n : <<at[i], at[j]>> \in R <=> i < j
  BY InARow
<1> HIDE DEF at
<1> DEFINE N == 1 .. (n - 1)
           f == [k \in N |-> <<"next", at[k], at[k + 1]>>]
<1>2. \A k \in N : k \in 1 .. n /\ k + 1 \in 1 .. n
  BY <1>1
<1>3. \A k \in N : f[k] \in links
  <2> SUFFICES ASSUME NEW k \in N PROVE <<"next", at[k], at[k + 1]>> \in links
    OBVIOUS
  <2>1. at[k] \in E /\ at[k + 1] \in E /\ <<at[k], at[k + 1]>> \in R
    BY <1>1, <1>2
  <2>2. ~\E j \in E : <<at[k], j>> \in R /\ <<j, at[k + 1]>> \in R
    <3> SUFFICES ASSUME NEW j \in E, <<at[k], j>> \in R, <<j, at[k + 1]>> \in R PROVE FALSE
      OBVIOUS
    <3>1. PICK i \in 1 .. n : at[i] = j
      BY <1>1
    <3>2. k < i /\ i < k + 1
      BY <1>1, <1>2, <3>1
    <3> QED BY <1>2, <3>2
  <2> QED BY <2>1, <2>2
<1>4. \A link \in links : \E k \in N : link = f[k]
  <2> SUFFICES ASSUME NEW link \in links
               PROVE  \E k \in N : link = <<"next", at[k], at[k + 1]>>
    OBVIOUS
  <2>1. link = <<"next", link[2], link[3]>>
    OBVIOUS
  <2>2. /\ link[2] \in E /\ link[3] \in E /\ <<link[2], link[3]>> \in R
        /\ ~\E j \in E : <<link[2], j>> \in R /\ <<j, link[3]>> \in R
    BY <2>1
  <2>3. PICK k \in 1 .. n : at[k] = link[2]
    BY <1>1, <2>2
  <2>4. PICK m \in 1 .. n : at[m] = link[3]
    BY <1>1, <2>2
  <2>5. k < m
    BY <1>1, <2>2, <2>3, <2>4
  <2>6. ~(k + 1 < m)
    <3> SUFFICES ASSUME k + 1 < m PROVE FALSE
      OBVIOUS
    <3>1. k + 1 \in 1 .. n
      BY <1>1, <2>5
    <3>2. at[k + 1] \in E /\ <<at[k], at[k + 1]>> \in R /\ <<at[k + 1], at[m]>> \in R
      BY <1>1, <3>1
    <3> QED BY <2>2, <2>3, <2>4, <3>2
  <2>7. m = k + 1 /\ k \in N
    BY <1>1, <2>5, <2>6
  <2> QED BY <2>1, <2>3, <2>4, <2>7
<1>5. \A k, m \in N : f[k] = f[m] => k = m
  <2> SUFFICES ASSUME NEW k \in N, NEW m \in N, f[k] = f[m] PROVE k = m
    OBVIOUS
  <2>1. at[k] = at[m]
    OBVIOUS
  <2> QED BY <1>1, <1>2, <2>1
<1>6. \A one, two \in links : (one[2] = two[2]) = (one[3] = two[3])
  <2> SUFFICES ASSUME NEW one \in links, NEW two \in links
               PROVE  (one[2] = two[2]) = (one[3] = two[3])
    OBVIOUS
  <2>1. PICK k \in N : one = <<"next", at[k], at[k + 1]>>
    BY <1>4
  <2>2. PICK m \in N : two = <<"next", at[m], at[m + 1]>>
    BY <1>4
  <2>3. at[k] = at[m] <=> k = m
    BY <1>1, <1>2
  <2>4. at[k + 1] = at[m + 1] <=> k + 1 = m + 1
    BY <1>1, <1>2
  <2>5. k \in Int /\ m \in Int
    BY <1>1
  <2> QED BY <2>1, <2>2, <2>3, <2>4, <2>5
<1>7. ExistsBijection(N, links)
  <2>1. f \in [N -> links]
    BY <1>3
  <2> HIDE DEF N, f
  <2>2. f \in Injection(N, links)
    BY <1>5, <2>1, Zenon DEF Injection, IsInjective
  <2>3. f \in Surjection(N, links)
    BY <1>4, <2>1, Zenon DEF Surjection
  <2> QED BY <2>2, <2>3, Zenon DEF ExistsBijection, Bijection
<1>8. IsFiniteSet(N) /\ Cardinality(N) = IF n = 0 THEN 0 ELSE n - 1
  <2>1. n - 1 \in Int /\ 1 \in Int
    BY <1>1
  <2>2. IsFiniteSet(N) /\ Cardinality(N) = IF 1 > n - 1 THEN 0 ELSE (n - 1) - 1 + 1
    BY <2>1, FS_Interval
  <2>3. n \in Nat
    BY <1>1
  <2> HIDE DEF N
  <2> QED BY <2>2, <2>3
<1>9. Cardinality(links) = Cardinality(N)
  <2> HIDE DEF N
  <2> QED BY <1>7, <1>8, FS_Bijection
<1>10. Max({0, n - 1}) = IF n = 0 THEN 0 ELSE n - 1
  <2> DEFINE T == {0, n - 1}
  <2>1. T \in SUBSET Int /\ T # {} /\ 0 \in T /\ n - 1 \in T /\ \A x \in T : x \in {0, n - 1}
    BY <1>1
  <2>2. IsFiniteSet(T)
    BY TwoAreFinite
  <2> HIDE DEF T
  <2>3. Max(T) \in T /\ \A x \in T : x <= Max(T)
    BY <2>1, <2>2, EndsOfASet
  <2>4. Max(T) \in {0, n - 1} /\ 0 <= Max(T) /\ n - 1 <= Max(T)
    BY <2>1, <2>3
  <2>5. Max(T) = IF n = 0 THEN 0 ELSE n - 1
    BY <1>1, <2>4
  <2> QED BY <2>5 DEF T
<1> QED BY <1>1, <1>6, <1>8, <1>9, <1>10

LEMMA ChainIsRead ==
  ASSUME last \in CallRecord, Extracted(last), dialog = Request(last)
  PROVE  ChainInOrder
<1> DEFINE links == {edge \in dialog.edges : edge[1] = "next"}
           E == DOMAIN last.events
           R == {p \in E \X E : Precedes(last, p[1], p[2])}
           start(e) == StartsAt(last.turns, last.events[e].rests)
<1>1. \E n \in Nat : E = 1 .. n
  BY DEF CallRecord, Listing
<1>2. E \subseteq Nat /\ IsFiniteSet(E)
  <2>1. PICK n \in Nat : E = 1 .. n
    BY <1>1
  <2> HIDE DEF E
  <2> QED BY <2>1, FS_Interval
<1>3. \A i, k : <<i, k>> \in R <=> i \in E /\ k \in E /\ Precedes(last, i, k)
  OBVIOUS
<1>4. \A link \in links : link = <<"next", link[2], link[3]>>
  BY EdgesOfARequest
<1>5. \A i, k : <<"next", i, k>> \in links
        <=> /\ i \in E /\ k \in E /\ Precedes(last, i, k)
            /\ ~\E j \in E : Precedes(last, i, j) /\ Precedes(last, j, k)
  <2> DEFINE edges == dialog.edges
  <2>1. \A i, k : <<"next", i, k>> \in links <=> <<"next", i, k>> \in edges
    OBVIOUS
  <2>2. edges = Request(last).edges
    OBVIOUS
  <2> HIDE DEF edges, links, R
  <2>3. \A i, k : <<"next", i, k>> \in edges <=> Neighbours(last, i, k)
    BY <2>2, EdgesOfARequest
  <2> QED BY <2>1, <2>3 DEF Neighbours
<1>6. \A i \in E : dialog.events[i].from = start(i)
  <2> SUFFICES ASSUME NEW i \in DOMAIN last.events PROVE dialog.events[i].from = start(i)
    OBVIOUS
  <2>1. dialog.events[i] = EventNode(last.turns, last.events[i])
    BY RequestIs
  <2>2. EventNode(last.turns, last.events[i]).from =
          Min({TimeAt(last.turns, u) : u \in Places(last.turns, last.events[i].rests)})
    BY DEF EventNode
  <2> QED BY <2>1, <2>2 DEF StartsAt
<1>7. E = DOMAIN last.events
  OBVIOUS
<1> HIDE DEF E, R, links
<1>8. /\ \A i \in E : ~Precedes(last, i, i)
      /\ \A i, j, k \in E : Precedes(last, i, j) /\ Precedes(last, j, k) => Precedes(last, i, k)
      /\ \A i, k \in E : i # k => Precedes(last, i, k) \/ Precedes(last, k, i)
      /\ \A i, k \in E : Precedes(last, i, k) => start(i) <= start(k)
  BY <1>2, <1>7, PrecedesIsStrict
<1> HIDE DEF start
<1>9. StrictOrder(R, E)
  BY <1>3, <1>8 DEF StrictOrder
<1>10. \A i, k : <<"next", i, k>> \in links
         <=> /\ i \in E /\ k \in E /\ <<i, k>> \in R
             /\ ~\E j \in E : <<i, j>> \in R /\ <<j, k>> \in R
  <2> TAKE i, k
  <2>1. CASE i \in E /\ k \in E
    <3>1. \A j \in E : /\ <<i, j>> \in R <=> Precedes(last, i, j)
                      /\ <<j, k>> \in R <=> Precedes(last, j, k)
      BY <1>3, <2>1
    <3> QED BY <1>3, <1>5, <2>1, <3>1
  <2>2. CASE ~(i \in E /\ k \in E)
    BY <1>5, <2>2
  <2> QED BY <2>1, <2>2
<1>11. /\ Cardinality(links) = Max({0, Cardinality(E) - 1})
       /\ \A one, two \in links : (one[2] = two[2]) = (one[3] = two[3])
  <2>1. Successive(links, R, E)
    BY <1>4, <1>10 DEF Successive
  <2> QED BY <1>2, <1>9, <2>1, LinksOfARow
<1>12. \A link \in links : /\ link[2] # link[3]
                           /\ dialog.events[link[2]].from <= dialog.events[link[3]].from
  <2> SUFFICES ASSUME NEW link \in links
               PROVE  /\ link[2] # link[3]
                      /\ dialog.events[link[2]].from <= dialog.events[link[3]].from
    OBVIOUS
  <2>1. link[2] \in E /\ link[3] \in E /\ Precedes(last, link[2], link[3])
    BY <1>4, <1>5
  <2> QED BY <1>6, <1>8, <2>1
<1> QED BY <1>11, <1>12 DEF ChainInOrder, links, E

\* A fact has the days of the marks of its own turns, when the turns have the
\* places their ids say.
LEMMA DaysAreOwn ==
  ASSUME last \in CallRecord, Extracted(last), Indexed(last), last # Absent
  PROVE  LifetimesAreOwn
<1> SUFFICES ASSUME NEW j \in DOMAIN last.facts, InPlace(last, last.facts[j].about)
             PROVE  LET own == {Days(last.marks[t]) :
                                  t \in {t \in last.facts[j].about : last.marks[t] # "none"}}
                    IN  /\ last.facts[j].days = 0 => own = {0}
                        /\ last.facts[j].days \notin {0, Absent} => last.facts[j].days \in own
                        /\ \A d \in own : d = 0 \/ last.facts[j].days \in 1..d
                        /\ last.facts[j].days = Absent => own = {}
                        /\ index.facts[j].days = last.facts[j].days
  BY DEF LifetimesAreOwn
<1> DEFINE about == last.facts[j].about
           kinds == MarksOf(last.turns, last.marks, about)
           own == {Days(last.marks[t]) : t \in {t \in about : last.marks[t] # "none"}}
<1>1. Begun(last) /\ about \subseteq Range(last.turns)
      /\ last.facts[j] = Fact(last.turns, last.marks, about)
  BY DEF Extracted
<1>2. about \in SUBSET Posted
  BY <1>1, TurnsOfACall DEF Range
<1>3. \A t \in about : t \in DOMAIN last.turns /\ last.turns[t] = t
  BY DEF InPlace
<1>4. index.facts[j] = last.facts[j]
  BY DEF Indexed
<1> HIDE DEF about
<1>5. last.facts[j].days = Merged(kinds)
  BY <1>1, <1>2, FactIs
<1>6. kinds \in SUBSET MarkKinds
  BY <1>1, MarksOfTurns
<1>7. \A kind \in kinds : \E t \in about : last.marks[t] = kind /\ kind # "none"
  BY <1>3 DEF MarksOf
<1>8. \A t \in about : last.marks[t] # "none" => last.marks[t] \in kinds
  BY <1>3 DEF MarksOf
<1> HIDE DEF kinds
<1>9. \A d \in own : \E kind \in kinds : d = Days(kind)
  BY <1>8
<1>10. \A kind \in kinds : Days(kind) \in own
  BY <1>7
<1> HIDE DEF own
<1>11. /\ (Merged(kinds) = Absent <=> kinds = {})
       /\ Merged(kinds) = 0 => \A kind \in kinds : Days(kind) = 0
       /\ Merged(kinds) \notin {0, Absent} => \E kind \in kinds : Days(kind) = Merged(kinds)
       /\ \A kind \in kinds : Days(kind) = 0 \/ Merged(kinds) \in 1 .. Days(kind)
  BY <1>6, MergedIs
<1>12. 0 # Absent
  BY DialogConstants
<1>13. Merged(kinds) = 0 => own = {0}
  <2>1. Merged(kinds) = 0 => kinds # {}
    BY <1>11, <1>12
  <2> QED BY <1>9, <1>10, <1>11, <2>1
<1>14. Merged(kinds) \notin {0, Absent} => Merged(kinds) \in own
  BY <1>10, <1>11
<1>15. \A d \in own : d = 0 \/ Merged(kinds) \in 1 .. d
  BY <1>9, <1>11
<1>16. Merged(kinds) = Absent => own = {}
  BY <1>9, <1>11
<1> QED BY <1>4, <1>5, <1>13, <1>14, <1>15, <1>16 DEF own, about

\* A session written for the first time can be read back whole: events from the
\* turns they rest on, facts from theirs and from the events that share one, one
\* chain of events in the order of time, vectors that name the events of their
\* turn (GraphIsFaithful); and each fact lives as long as its own turns say
\* (LifetimesAreOwn).
THEOREM ASessionIsFaithful == DialogSpec => []SessionIsFaithful
<1>1. DialogInv => SessionIsFaithful
  <2> SUFFICES ASSUME DialogInv PROVE SessionIsFaithful
    OBVIOUS
  <2>1. CASE ~Done
    BY <2>1 DEF SessionIsFaithful, GraphIsFaithful, LifetimesAreOwn, Stored
  <2>2. CASE Done
    <3>1. /\ last \in CallRecord /\ last # Absent /\ Extracted(last) /\ Indexed(last)
          /\ fresh /\ ~swallowed => dialog = Request(last)
      BY <2>2 DEF DialogInv, DialogTypeOK, Done
    <3>2. fresh /\ ~swallowed => EventsRest /\ FactsRest /\ ChainInOrder /\ IndexAgrees
      BY <3>1, EventsAreRead, FactsAreRead, ChainIsRead, IndexIsRead
    <3>3. LifetimesAreOwn
      BY <3>1, DaysAreOwn
    <3> QED BY <3>2, <3>3 DEF SessionIsFaithful, GraphIsFaithful, Stored
  <2> QED BY <2>1, <2>2
<1> QED BY <1>1, DialogIsSound, PTL

-----------------------------------------------------------------------------
(* The hits of a request, and the candidates they make.                    *)

RouteNames == {"T", "EN", "K_vec", "E_vec", "E_event_vec"}
IdsOf(e)   == {e} \cup TurnsOf[e]
AllHits    == UNION {HitsOf(r) : r \in Range(Routes)}

\* What a hit and a candidate have.
HitRecord  == [route : RouteNames, event : Events \cup {None}, turn : Turns \cup {None},
               raw : HitIds, score : 1 .. MaxScore]
Candidates == [sources : SUBSET RouteNames, scores : [RouteNames -> Nat],
               event : Events \cup {None}, turn : Turns \cup {None}, known : SUBSET Turns]

\* A hit is about event e.
About(h, e) ==
  /\ h.event \in {e, None} /\ h.turn \in TurnsOf[e] \cup {None}
  /\ ~(h.event = None /\ h.turn = None) /\ h.raw \in {h.event, h.turn} \ {None}

LEMMA RetrievalConstants ==
  /\ TurnsOf \in [Events -> SUBSET Turns] /\ \A e \in Events : First[e] \in TurnsOf[e]
  /\ \A d, e \in Events : d # e => TurnsOf[d] \cap TurnsOf[e] = {}
  /\ MaxScore \in Nat \ {0} /\ Unit \in Nat \ {0} /\ PoolSize \in Nat \ {0} /\ K \in Nat \ {0}
  /\ Seeds \in Nat \ {0} /\ TopK \in Nat \ {0} /\ TopK <= K
  /\ WeightBase \in Nat \ {0} /\ WeightRerank \in Nat \ {0}
  /\ SignalWeight \in Nat /\ MaxHits \in Nat
  /\ None \notin Events \cup Turns /\ Events \cap Turns = {}
  /\ \A docs \in SUBSET (Events \cup Turns) : None \notin [docs -> 0 .. MaxScore]
  /\ \A n \in 1 .. MaxScore : Unit % n = 0
BY RetrievalAssumption

LEMMA RoutesAre ==
  Len(Routes) = 5 /\ Range(Routes) = RouteNames /\ Routes \in [1 .. 5 -> RouteNames]
<1>1. Len(Routes) = 5 /\ DOMAIN Routes = 1 .. 5
  BY DEF Routes
<1>2. /\ Routes[1] = "T" /\ Routes[2] = "EN" /\ Routes[3] = "K_vec" /\ Routes[4] = "E_vec"
      /\ Routes[5] = "E_event_vec"
  BY DEF Routes
<1>3. 1 .. 5 = {1, 2, 3, 4, 5}
  OBVIOUS
<1>4. Routes = [i \in 1 .. 5 |-> Routes[i]]
  BY DEF Routes
<1>5. Range(Routes) = RouteNames
  BY <1>1, <1>2, <1>3 DEF Range, RouteNames
<1>6. Routes \in [1 .. 5 -> RouteNames]
  BY <1>2, <1>3, <1>4 DEF RouteNames
<1> QED BY <1>1, <1>5, <1>6

\* An id is of one event.
LEMMA OwnerIs ==
  ASSUME NEW e \in Events, NEW id \in IdsOf(e)
  PROVE  EventOfId(id) = e /\ id \in HitIds /\ id # None
<1>1. CASE id = e
  BY <1>1, RetrievalConstants DEF EventOfId, HitIds
<1>2. CASE id \in TurnsOf[e]
  <2>1. id \in Turns /\ id \notin Events
    BY <1>2, RetrievalConstants
  <2>2. \A d \in Events : id \in TurnsOf[d] => d = e
    BY <1>2, RetrievalConstants
  <2>3. (CHOOSE d \in Events : id \in TurnsOf[d]) = e
    BY <1>2, <2>2
  <2> QED BY <2>1, <2>3, RetrievalConstants DEF EventOfId, HitIds
<1> QED BY <1>1, <1>2 DEF IdsOf

LEMMA HitsAre ==
  ASSUME NEW r \in Range(Routes), NEW h \in HitsOf(r)
  PROVE  /\ h \in HitRecord /\ h.route = r
         /\ \E e \in Events : About(h, e) /\ EventOf(h) = e
<1> DEFINE names(x, e) == /\ x[1] \in {e, None} /\ x[2] \in TurnsOf[e] \cup {None}
                          /\ ~(x[1] = None /\ x[2] = None) /\ x[3] \in {x[1], x[2]} \ {None}
<1>1. PICK x \in Finds[r], s \in 1 .. MaxScore : h = Hit(r, x[1], x[2], x[3], s)
  BY DEF HitsOf
<1>2. r \in RouteNames
  BY RoutesAre
<1>3. x \in ByEvent \cup ByUtterance \cup ByFact \cup ByEntity \cup ByTime
  BY <1>1, <1>2 DEF Finds, RouteNames
<1>4. \A y \in Origins : y[1] \in Events /\ y[2] \in TurnsOf[y[1]]
  BY DEF Origins
<1>5. \E e \in Events : names(x, e)
  <2>1. CASE x \in ByEvent \cup ByEntity \cup ByTime
    BY <2>1, RetrievalConstants DEF ByEvent, ByEntity, ByTime
  <2>2. CASE x \in ByUtterance
    <3>1. PICK y \in Origins :
            x \in {<<y[1], y[2], y[2]>>, <<None, y[2], y[2]>>, <<y[1], None, y[1]>>}
      BY <2>2 DEF ByUtterance
    <3>2. y[1] \in Events /\ y[2] \in TurnsOf[y[1]] /\ y[1] # None /\ y[2] # None
      BY <1>4, RetrievalConstants
    <3>3. names(x, y[1])
      BY <3>1, <3>2
    <3> QED BY <3>2, <3>3
  <2>3. CASE x \in ByFact
    <3>1. PICK y \in Origins : x = <<None, y[2], y[2]>>
      BY <2>3 DEF ByFact
    <3>2. y[1] \in Events /\ y[2] \in TurnsOf[y[1]] /\ y[1] # None /\ y[2] # None
      BY <1>4, RetrievalConstants
    <3>3. names(x, y[1])
      BY <3>1, <3>2
    <3> QED BY <3>2, <3>3
  <2> QED BY <1>3, <2>1, <2>2, <2>3
<1>6. PICK e \in Events : names(x, e)
  BY <1>5
<1>7. h = [route |-> r, event |-> x[1], turn |-> x[2], raw |-> x[3], score |-> s]
  BY <1>1 DEF Hit
<1>8. About(h, e)
  BY <1>6, <1>7 DEF About
<1>9. h \in HitRecord
  <2>1. TurnsOf[e] \subseteq Turns
    BY RetrievalConstants
  <2>2. x[1] \in Events \cup {None} /\ x[2] \in Turns \cup {None} /\ x[3] \in HitIds
    BY <1>6, <2>1 DEF HitIds
  <2> QED BY <1>2, <1>7, <2>2 DEF HitRecord
<1>10. EventOf(h) = e
  <2>1. CASE h.event # None
    BY <1>8, <2>1 DEF About, EventOf
  <2>2. CASE h.event = None
    <3>1. h.turn \in TurnsOf[e]
      BY <1>8, <2>2 DEF About
    <3>2. \A d \in Events : h.turn \in TurnsOf[d] => d = e
      BY <3>1, RetrievalConstants
    <3>3. (CHOOSE d \in Events : h.turn \in TurnsOf[d]) = e
      BY <3>1, <3>2
    <3> QED BY <2>2, <3>3 DEF EventOf
  <2> QED BY <2>1, <2>2
<1> QED BY <1>7, <1>8, <1>9, <1>10

\* The greater of two numbers.
LEMMA MaxOfTwo ==
  ASSUME NEW a \in Nat, NEW b \in Nat
  PROVE  Max({a, b}) = IF a >= b THEN a ELSE b
<1> DEFINE T == {a, b}
<1>1. T \in SUBSET Int /\ T # {} /\ a \in T /\ b \in T /\ \A x \in T : x \in {a, b}
  OBVIOUS
<1>2. IsFiniteSet(T)
  BY TwoAreFinite
<1> HIDE DEF T
<1>3. Max(T) \in T /\ \A x \in T : x <= Max(T)
  BY <1>1, <1>2, EndsOfASet
<1>4. Max(T) \in {a, b} /\ a <= Max(T) /\ b <= Max(T)
  BY <1>1, <1>3
<1>5. Max(T) = IF a >= b THEN a ELSE b
  BY <1>4
<1> QED BY <1>5 DEF T

\* The scores of a candidate are those of hits of its event.
Support(c, e, hits) ==
  \A r \in RouteNames :
    IF r \in c.sources
    THEN \E h \in hits : h.route = r /\ EventOf(h) = e /\ h.score = c.scores[r]
    ELSE c.scores[r] = 0

\* One candidate has all that another has.
Covers(c, d) ==
  /\ d.sources \subseteq c.sources /\ d.known \subseteq c.known
  /\ \A r \in RouteNames : d.scores[r] <= c.scores[r]

LEMMA CoversFollows ==
  ASSUME NEW b \in Candidates, NEW c \in Candidates, NEW d \in Candidates,
         Covers(b, c), Covers(c, d)
  PROVE  Covers(b, d)
<1>1. /\ b.scores \in [RouteNames -> Nat] /\ c.scores \in [RouteNames -> Nat]
      /\ d.scores \in [RouteNames -> Nat]
  BY DEF Candidates
<1>2. \A r \in RouteNames : d.scores[r] <= b.scores[r]
  BY <1>1 DEF Covers
<1> QED BY <1>2 DEF Covers

LEMMA MergedIntoIs ==
  ASSUME NEW dst \in Candidates, NEW src \in Candidates, NEW e, NEW hits,
         Support(dst, e, hits), Support(src, e, hits),
         NEW m, m = MergedInto(dst, src)
  PROVE  m \in Candidates /\ Covers(m, dst) /\ Covers(m, src) /\ Support(m, e, hits)
<1>1. /\ dst.scores \in [RouteNames -> Nat] /\ src.scores \in [RouteNames -> Nat]
      /\ dst.sources \subseteq RouteNames /\ src.sources \subseteq RouteNames
      /\ dst.known \subseteq Turns /\ src.known \subseteq Turns
      /\ dst.event \in Events \cup {None} /\ src.event \in Events \cup {None}
      /\ dst.turn \in Turns \cup {None} /\ src.turn \in Turns \cup {None}
  BY DEF Candidates
<1> DEFINE scores == [r \in RouteNames |-> Max({dst.scores[r], src.scores[r]})]
<1>2. m = [sources |-> dst.sources \cup src.sources, scores |-> scores,
           event |-> IF dst.event = None THEN src.event ELSE dst.event,
           turn |-> IF dst.turn = None THEN src.turn ELSE dst.turn,
           known |-> dst.known \cup src.known]
  BY <1>1 DEF MergedInto, Candidates
<1>3. \A r \in RouteNames :
        scores[r] = IF dst.scores[r] >= src.scores[r] THEN dst.scores[r] ELSE src.scores[r]
  BY <1>1, MaxOfTwo
<1>4. scores \in [RouteNames -> Nat]
  BY <1>1, <1>3
<1> HIDE DEF scores
<1>5. m \in Candidates
  BY <1>1, <1>2, <1>4 DEF Candidates
<1>6. Covers(m, dst) /\ Covers(m, src)
  <2>1. \A r \in RouteNames : dst.scores[r] <= m.scores[r] /\ src.scores[r] <= m.scores[r]
    BY <1>1, <1>2, <1>3
  <2> QED BY <1>2, <2>1 DEF Covers
<1>7. Support(m, e, hits)
  <2> SUFFICES ASSUME NEW r \in RouteNames
               PROVE  IF r \in m.sources
                      THEN \E h \in hits : h.route = r /\ EventOf(h) = e /\ h.score = m.scores[r]
                      ELSE m.scores[r] = 0
    BY DEF Support
  <2>1. /\ IF r \in dst.sources
           THEN \E h \in hits : h.route = r /\ EventOf(h) = e /\ h.score = dst.scores[r]
           ELSE dst.scores[r] = 0
        /\ IF r \in src.sources
           THEN \E h \in hits : h.route = r /\ EventOf(h) = e /\ h.score = src.scores[r]
           ELSE src.scores[r] = 0
    BY DEF Support
  <2>2. dst.scores[r] \in Nat /\ src.scores[r] \in Nat
    BY <1>1
  <2>3. m.scores[r] = IF dst.scores[r] >= src.scores[r] THEN dst.scores[r] ELSE src.scores[r]
    BY <1>2, <1>3
  <2>4. r \in m.sources <=> r \in dst.sources \/ r \in src.sources
    BY <1>2
  <2>5. CASE r \in dst.sources /\ r \in src.sources
    BY <2>1, <2>3, <2>4, <2>5
  <2>6. CASE r \in dst.sources /\ r \notin src.sources
    <3>1. m.scores[r] = dst.scores[r]
      BY <2>1, <2>2, <2>3, <2>6
    <3> QED BY <2>1, <2>4, <2>6, <3>1
  <2>7. CASE r \notin dst.sources /\ r \in src.sources
    <3>1. m.scores[r] = src.scores[r]
      BY <2>1, <2>2, <2>3, <2>7
    <3> QED BY <2>1, <2>4, <2>7, <3>1
  <2>8. CASE r \notin dst.sources /\ r \notin src.sources
    BY <2>1, <2>3, <2>4, <2>8
  <2> QED BY <2>5, <2>6, <2>7, <2>8
<1> QED BY <1>5, <1>6, <1>7

\* What is in the pool under the other ids of a hit is of the hit's event.
Alike(h, e) == \A id \in Others(h) : pool[id] \in Candidates /\ Support(pool[id], e, seen)

LEMMA AbsorbedIs ==
  ASSUME NEW h, NEW e, Alike(h, e), NEW c \in Candidates, Support(c, e, seen), NEW id,
         NEW m, m = Absorbed(c, id, h)
  PROVE  /\ m \in Candidates /\ Support(m, e, seen) /\ Covers(m, c)
         /\ id \in Others(h) => Covers(m, pool[id])
<1>1. CASE id \in Others(h)
  <2>1. pool[id] \in Candidates /\ Support(pool[id], e, seen)
    BY <1>1 DEF Alike
  <2>2. m = MergedInto(c, pool[id])
    BY <1>1 DEF Absorbed
  <2> QED BY <2>1, <2>2, MergedIntoIs
<1>2. CASE id \notin Others(h)
  <2>1. m = c
    BY <1>2 DEF Absorbed
  <2>2. c.scores \in [RouteNames -> Nat]
    BY DEF Candidates
  <2>3. Covers(c, c)
    BY <2>2 DEF Covers
  <2> QED BY <1>2, <2>1, <2>3
<1> QED BY <1>1, <1>2

\* The candidate a hit adds to has what was there under all of its ids, and the
\* hit.
LEMMA SightedIs ==
  ASSUME NEW e \in Events, NEW h \in HitRecord, About(h, e), EventOf(h) = e, Alike(h, e),
         Canonical(h) \in DOMAIN pool =>
           pool[Canonical(h)] \in Candidates /\ Support(pool[Canonical(h)], e, seen),
         NEW s, s = Sighted(h)
  PROVE  /\ s \in Candidates /\ Support(s, e, seen \cup {h})
         /\ Canonical(h) \in DOMAIN pool => Covers(s, pool[Canonical(h)])
         /\ \A id \in Others(h) : Covers(s, pool[id])
         /\ h.route \in s.sources /\ h.score <= s.scores[h.route]
         /\ h.turn # None => h.turn \in s.known
<1> DEFINE m0 == Found(h)
           m1 == Absorbed(m0, h.event, h)
           m2 == Absorbed(m1, h.turn, h)
           m3 == Absorbed(m2, h.raw, h)
<1>1. m0 \in Candidates /\ Support(m0, e, seen)
      /\ (Canonical(h) \in DOMAIN pool => m0 = pool[Canonical(h)])
  <2>1. NewCandidate \in Candidates /\ Support(NewCandidate, e, seen)
    <3>1. NoScores = [r \in RouteNames |-> 0]
      BY RoutesAre DEF NoScores
    <3> QED BY <3>1 DEF NewCandidate, Candidates, Support
  <2> QED BY <2>1 DEF Found
<1> HIDE DEF m0
<1>2. /\ m1 \in Candidates /\ Support(m1, e, seen) /\ Covers(m1, m0)
      /\ h.event \in Others(h) => Covers(m1, pool[h.event])
  BY <1>1, AbsorbedIs
<1> HIDE DEF m1
<1>3. /\ m2 \in Candidates /\ Support(m2, e, seen) /\ Covers(m2, m1)
      /\ h.turn \in Others(h) => Covers(m2, pool[h.turn])
  BY <1>2, AbsorbedIs
<1> HIDE DEF m2
<1>4. m3 \in Candidates /\ Support(m3, e, seen) /\ Covers(m3, m2)
  BY <1>3, AbsorbedIs
<1> HIDE DEF m3
<1>5. Covers(m3, m1) /\ Covers(m3, m0)
  <2>1. Covers(m3, m1)
    BY <1>2, <1>3, <1>4, CoversFollows
  <2> QED BY <1>1, <1>2, <1>4, <2>1, CoversFollows
<1>6. s = [sources |-> m3.sources \cup {h.route},
           scores  |-> [m3.scores EXCEPT ![h.route] = Max({m3.scores[h.route], h.score})],
           event   |-> IF h.event # None THEN h.event ELSE m3.event,
           turn    |-> IF h.turn # None THEN h.turn ELSE m3.turn,
           known   |-> m3.known \cup ({h.turn} \ {None})]
  BY DEF Sighted, m3, m2, m1, m0
<1>7. /\ h.route \in RouteNames /\ h.score \in Nat /\ h.event \in Events \cup {None}
      /\ h.turn \in Turns \cup {None}
  BY RetrievalConstants DEF HitRecord
<1>8. /\ m3.scores \in [RouteNames -> Nat] /\ m3.sources \subseteq RouteNames
      /\ m3.known \subseteq Turns /\ m3.event \in Events \cup {None}
      /\ m3.turn \in Turns \cup {None}
  BY <1>4 DEF Candidates
<1> DEFINE top == Max({m3.scores[h.route], h.score})
<1>9. top = IF m3.scores[h.route] >= h.score THEN m3.scores[h.route] ELSE h.score
  BY <1>7, <1>8, MaxOfTwo
<1>10. s.scores = [m3.scores EXCEPT ![h.route] = top]
  BY <1>6
<1> HIDE DEF top
<1>11. s.scores \in [RouteNames -> Nat]
       /\ \A r \in RouteNames : s.scores[r] = IF r = h.route THEN top ELSE m3.scores[r]
  BY <1>7, <1>8, <1>9, <1>10
<1>12. s \in Candidates
  BY <1>6, <1>7, <1>8, <1>11 DEF Candidates
<1>13. Covers(s, m3)
  <2>1. \A r \in RouteNames : m3.scores[r] <= s.scores[r]
    BY <1>7, <1>8, <1>9, <1>11
  <2> QED BY <1>6, <2>1 DEF Covers
<1>14. Support(s, e, seen \cup {h})
  <2> SUFFICES ASSUME NEW r \in RouteNames
               PROVE  IF r \in s.sources
                      THEN \E k \in seen \cup {h} :
                             k.route = r /\ EventOf(k) = e /\ k.score = s.scores[r]
                      ELSE s.scores[r] = 0
    BY DEF Support
  <2>1. IF r \in m3.sources
        THEN \E k \in seen : k.route = r /\ EventOf(k) = e /\ k.score = m3.scores[r]
        ELSE m3.scores[r] = 0
    BY <1>4 DEF Support
  <2>2. CASE r # h.route
    <3>1. s.scores[r] = m3.scores[r] /\ (r \in s.sources <=> r \in m3.sources)
      BY <1>6, <1>11, <2>2
    <3> QED BY <2>1, <3>1
  <2>3. CASE r = h.route /\ top = h.score
    <3>1. r \in s.sources /\ s.scores[r] = h.score
      BY <1>6, <1>11, <2>3
    <3> QED BY <2>3, <3>1
  <2>4. CASE r = h.route /\ top # h.score
    <3>1. s.scores[r] = m3.scores[r] /\ m3.scores[r] # 0 /\ r \in s.sources
      BY <1>6, <1>7, <1>8, <1>9, <1>11, <2>4
    <3> QED BY <2>1, <3>1
  <2> QED BY <2>2, <2>3, <2>4
<1>15. Canonical(h) \in DOMAIN pool => Covers(s, pool[Canonical(h)])
  BY <1>1, <1>4, <1>5, <1>12, <1>13, CoversFollows
<1>16. ASSUME NEW id \in Others(h) PROVE Covers(s, pool[id])
  <2>1. id \in {h.event, h.turn}
    BY DEF Others, About
  <2>2. pool[id] \in Candidates
    BY DEF Alike
  <2>3. CASE id = h.event
    <3>1. Covers(m1, pool[id])
      BY <1>2, <2>3
    <3>2. Covers(m3, pool[id])
      BY <1>2, <1>4, <1>5, <2>2, <3>1, CoversFollows
    <3> QED BY <1>4, <1>12, <1>13, <2>2, <3>2, CoversFollows
  <2>4. CASE id = h.turn
    <3>1. Covers(m2, pool[id])
      BY <1>3, <2>4
    <3>2. Covers(m3, pool[id])
      BY <1>3, <1>4, <2>2, <3>1, CoversFollows
    <3> QED BY <1>4, <1>12, <1>13, <2>2, <3>2, CoversFollows
  <2> QED BY <2>1, <2>3, <2>4
<1>17. h.route \in s.sources /\ h.score <= s.scores[h.route]
  BY <1>6, <1>7, <1>8, <1>9, <1>11
<1>18. h.turn # None => h.turn \in s.known
  BY <1>6
<1> QED BY <1>12, <1>14, <1>15, <1>16, <1>17, <1>18

-----------------------------------------------------------------------------
(* The pool while it is filled.                                            *)

Maps(D, V) == UNION {[S -> V] : S \in SUBSET D}

PoolTypes ==
  /\ pool \in Maps(HitIds, Candidates) /\ seen \in SUBSET AllHits
  /\ byEvent \in Maps(Events, HitIds) /\ byTurn \in Maps(Turns, HitIds)

\* What is under an id is of the id's event, and has the scores of its hits.
Owned ==
  /\ IsFiniteSet(DOMAIN pool)
  /\ \A id \in DOMAIN pool : \E e \in Events : id \in IdsOf(e) /\ Support(pool[id], e, seen)
  /\ \A d \in DOMAIN byEvent : byEvent[d] \in IdsOf(d)
  /\ \A t \in DOMAIN byTurn : \A e \in Events : t \in TurnsOf[e] => byTurn[t] \in IdsOf(e)

\* A hit is in a candidate of its event.
In(c, h, id) ==
  /\ EventOfId(id) = EventOf(h) /\ h.route \in c.sources
  /\ c.scores[h.route] >= h.score
  /\ h.turn # None => h.turn \in c.known
Housed == \A h \in seen : \E id \in DOMAIN pool : In(pool[id], h, id)

PoolInv == PoolTypes /\ Owned /\ Housed

LEMMA MapsAre ==
  ASSUME NEW D, NEW V
  PROVE  /\ \A f \in Maps(D, V) : DOMAIN f \subseteq D /\ f \in [DOMAIN f -> V]
         /\ \A S \in SUBSET D : \A f \in [S -> V] : f \in Maps(D, V)
         /\ <<>> \in Maps(D, V)
<1>1. \A f \in Maps(D, V) : DOMAIN f \subseteq D /\ f \in [DOMAIN f -> V]
  BY DEF Maps
<1>2. \A S \in SUBSET D : \A f \in [S -> V] : f \in Maps(D, V)
  BY DEF Maps
<1>3. <<>> \in [{} -> V]
  OBVIOUS
<1> QED BY <1>1, <1>2, <1>3

LEMMA WithIs ==
  ASSUME NEW D, NEW V, NEW f \in Maps(D, V), NEW key \in D \cup {None}, NEW value \in V,
         None \notin D
  PROVE  With(f, key, value) \in Maps(D, V)
<1>1. DOMAIN f \subseteq D /\ f \in [DOMAIN f -> V]
  BY MapsAre
<1> DEFINE S == DOMAIN f \cup ({key} \ {None})
           g == With(f, key, value)
<1>2. S \in SUBSET D /\ g \in [S -> V]
  BY <1>1 DEF With
<1> HIDE DEF S, g
<1>3. g \in Maps(D, V)
  BY <1>2, MapsAre
<1> QED BY <1>3 DEF g

LEMMA SupportedPool == PoolInv => SupportIsKept
<1> SUFFICES ASSUME PoolInv PROVE SupportIsKept
  OBVIOUS
<1>1. \A h \in seen : \E id \in DOMAIN pool : In(pool[id], h, id)
  BY DEF PoolInv, Housed
<1>2. ASSUME NEW id \in DOMAIN pool, NEW r \in Range(Routes)
      PROVE  r \in pool[id].sources <=>
               \E h \in seen : /\ h.route = r /\ EventOf(h) = EventOfId(id)
                               /\ h.score = pool[id].scores[r]
  <2>1. PICK e \in Events : id \in IdsOf(e) /\ Support(pool[id], e, seen)
    BY DEF PoolInv, Owned
  <2>2. EventOfId(id) = e
    BY <2>1, OwnerIs
  <2>3. \A h \in seen : h.score # 0
    <3>1. \A h \in AllHits : h.score \in 1 .. MaxScore
      BY HitsAre DEF AllHits, HitRecord
    <3>2. 0 \notin 1 .. MaxScore
      OBVIOUS
    <3> QED BY <3>1, <3>2 DEF PoolInv, PoolTypes
  <2>4. IF r \in pool[id].sources
        THEN \E h \in seen : h.route = r /\ EventOf(h) = e /\ h.score = pool[id].scores[r]
        ELSE pool[id].scores[r] = 0
    BY <2>1, RoutesAre DEF Support
  <2> QED BY <2>2, <2>3, <2>4
<1> QED BY <1>1, <1>2 DEF SupportIsKept, In

LEMMA TouchFills ==
  ASSUME PoolInv, route \in 0 .. 5, NEW h, Touch(h)
  PROVE  PoolInv'
<1> DEFINE c == Canonical(h)
           s == Sighted(h)
           rest == Restrict(pool, DOMAIN pool \ Others(h))
<1>1. /\ route > 0 /\ h \in HitsOf(Routes[route])
      /\ pool' = With(rest, c, s)
      /\ byEvent' = With(byEvent, h.event, c) /\ byTurn' = With(byTurn, h.turn, c)
      /\ seen' = seen \cup {h}
  BY DEF Touch
<1>2. Routes[route] \in Range(Routes)
  BY <1>1, RoutesAre
<1>3. h \in HitRecord /\ h \in AllHits /\ \E e \in Events : About(h, e) /\ EventOf(h) = e
  BY <1>1, <1>2, HitsAre DEF AllHits
<1>4. PICK e \in Events : About(h, e) /\ EventOf(h) = e
  BY <1>3
<1>5. /\ pool \in Maps(HitIds, Candidates) /\ byEvent \in Maps(Events, HitIds)
      /\ byTurn \in Maps(Turns, HitIds) /\ seen \in SUBSET AllHits
  BY DEF PoolInv, PoolTypes
<1>6. /\ DOMAIN pool \subseteq HitIds /\ pool \in [DOMAIN pool -> Candidates]
      /\ DOMAIN byEvent \subseteq Events /\ DOMAIN byTurn \subseteq Turns
  BY <1>5, MapsAre
<1>7. /\ h.event \in {e, None} /\ h.turn \in TurnsOf[e] \cup {None}
      /\ ~(h.event = None /\ h.turn = None) /\ h.raw \in {h.event, h.turn} \ {None}
  BY <1>4 DEF About
<1>8. TurnsOf[e] \subseteq Turns /\ None \notin Turns /\ None \notin Events /\ None \notin HitIds
  BY RetrievalConstants DEF HitIds
<1>9. c \in IdsOf(e)
  <2>4. /\ \A d \in DOMAIN byEvent : byEvent[d] \in IdsOf(d)
        /\ \A t \in DOMAIN byTurn : t \in TurnsOf[e] => byTurn[t] \in IdsOf(e)
    BY DEF PoolInv, Owned
  <2>1. CASE h.turn # None /\ h.turn \in DOMAIN byTurn
    <3>1. c = byTurn[h.turn]
      BY <2>1 DEF Canonical
    <3> QED BY <1>7, <2>1, <2>4, <3>1
  <2>2. CASE ~(h.turn # None /\ h.turn \in DOMAIN byTurn)
             /\ h.event # None /\ h.event \in DOMAIN byEvent
    <3>1. c = byEvent[h.event]
      BY <2>2 DEF Canonical
    <3> QED BY <1>7, <2>2, <2>4, <3>1
  <2>3. CASE /\ ~(h.turn # None /\ h.turn \in DOMAIN byTurn)
             /\ ~(h.event # None /\ h.event \in DOMAIN byEvent)
    BY <1>7, <2>3 DEF Canonical, IdsOf
  <2> QED BY <2>1, <2>2, <2>3
<1>10. EventOfId(c) = e /\ c \in HitIds /\ c # None
  BY <1>9, OwnerIs
<1>11. ASSUME NEW id \in DOMAIN pool, id \in IdsOf(e)
       PROVE  pool[id] \in Candidates /\ Support(pool[id], e, seen)
  <2>1. PICK d \in Events : id \in IdsOf(d) /\ Support(pool[id], d, seen)
    BY DEF PoolInv, Owned
  <2>2. d = e
    BY <1>11, <2>1, OwnerIs
  <2> QED BY <1>6, <2>1, <2>2
<1>12. \A id \in Others(h) : id \in DOMAIN pool /\ id \in IdsOf(e)
  BY <1>7 DEF Others, IdsOf
<1>13. Alike(h, e)
  BY <1>11, <1>12 DEF Alike
<1>14. /\ s \in Candidates /\ Support(s, e, seen \cup {h})
       /\ c \in DOMAIN pool => Covers(s, pool[c])
       /\ \A id \in Others(h) : Covers(s, pool[id])
       /\ h.route \in s.sources /\ h.score <= s.scores[h.route]
       /\ h.turn # None => h.turn \in s.known
  BY <1>3, <1>4, <1>9, <1>11, <1>13, SightedIs
<1>15. c \notin Others(h)
  BY DEF Others
<1> HIDE DEF c, s
<1>16. rest \in Maps(HitIds, Candidates) /\ DOMAIN rest = DOMAIN pool \ Others(h)
       /\ \A id \in DOMAIN rest : rest[id] = pool[id]
  <2>1. DOMAIN pool \ Others(h) \in SUBSET HitIds
    BY <1>6
  <2>2. rest \in [DOMAIN pool \ Others(h) -> Candidates]
    BY <1>6 DEF Restrict
  <2>3. \A id \in DOMAIN pool \ Others(h) : rest[id] = pool[id]
    BY DEF Restrict
  <2>4. DOMAIN rest = DOMAIN pool \ Others(h)
    BY DEF Restrict
  <2> HIDE DEF rest
  <2>5. rest \in Maps(HitIds, Candidates)
    BY <2>1, <2>2, MapsAre
  <2> QED BY <2>3, <2>4, <2>5
<1> HIDE DEF rest
<1>17. /\ pool' \in Maps(HitIds, Candidates)
       /\ DOMAIN pool' = (DOMAIN pool \ Others(h)) \cup {c}
       /\ \A id \in DOMAIN pool' : pool'[id] = IF id = c THEN s ELSE pool[id]
  <2>1. pool' \in Maps(HitIds, Candidates)
    BY <1>1, <1>8, <1>10, <1>14, <1>16, WithIs
  <2>2. /\ DOMAIN pool' = DOMAIN rest \cup ({c} \ {None})
        /\ \A id \in DOMAIN pool' : pool'[id] = IF id = c THEN s ELSE rest[id]
    BY <1>1 DEF With
  <2> QED BY <1>10, <1>16, <2>1, <2>2
<1>18. /\ byEvent' \in Maps(Events, HitIds)
       /\ DOMAIN byEvent' = DOMAIN byEvent \cup ({h.event} \ {None})
       /\ \A d \in DOMAIN byEvent' : byEvent'[d] = IF d = h.event THEN c ELSE byEvent[d]
  <2>1. h.event \in Events \cup {None}
    BY <1>7
  <2>2. byEvent' \in Maps(Events, HitIds)
    BY <1>1, <1>5, <1>8, <1>10, <2>1, WithIs
  <2> QED BY <1>1, <2>2 DEF With
<1>19. /\ byTurn' \in Maps(Turns, HitIds) /\ DOMAIN byTurn' = DOMAIN byTurn \cup ({h.turn} \ {None})
       /\ \A t \in DOMAIN byTurn' : byTurn'[t] = IF t = h.turn THEN c ELSE byTurn[t]
  <2>1. h.turn \in Turns \cup {None}
    BY <1>7, <1>8
  <2>2. byTurn' \in Maps(Turns, HitIds)
    BY <1>1, <1>5, <1>8, <1>10, <2>1, WithIs
  <2> QED BY <1>1, <2>2 DEF With
<1>20. PoolTypes'
  BY <1>1, <1>3, <1>5, <1>17, <1>18, <1>19 DEF PoolTypes
<1>21. Owned'
  <2>1. IsFiniteSet(DOMAIN pool')
    <3>1. IsFiniteSet(DOMAIN pool)
      BY DEF PoolInv, Owned
    <3>2. IsFiniteSet(DOMAIN pool \ Others(h))
      BY <3>1, FS_Difference
    <3> QED BY <1>17, <3>2, FS_AddElement
  <2>2. ASSUME NEW id \in DOMAIN pool'
        PROVE  \E d \in Events : id \in IdsOf(d) /\ Support(pool'[id], d, seen')
    <3>1. CASE id = c
      BY <1>1, <1>9, <1>14, <1>17, <3>1
    <3>2. CASE id # c
      <4>1. pool'[id] = pool[id] /\ id \in DOMAIN pool
        BY <1>17, <3>2
      <4>2. PICK d \in Events : id \in IdsOf(d) /\ Support(pool[id], d, seen)
        BY <4>1 DEF PoolInv, Owned
      <4>3. Support(pool[id], d, seen')
        BY <1>1, <4>2 DEF Support
      <4> QED BY <4>1, <4>2, <4>3
    <3> QED BY <3>1, <3>2
  <2>3. \A d \in DOMAIN byEvent' : byEvent'[d] \in IdsOf(d)
    <3> SUFFICES ASSUME NEW d \in DOMAIN byEvent' PROVE byEvent'[d] \in IdsOf(d)
      OBVIOUS
    <3>1. CASE d = h.event
      <4>1. d = e
        BY <1>7, <1>18, <3>1, <1>6, <1>8
      <4> QED BY <1>9, <1>18, <3>1, <4>1
    <3>2. CASE d # h.event
      BY <1>18, <3>2 DEF PoolInv, Owned
    <3> QED BY <3>1, <3>2
  <2>4. \A t \in DOMAIN byTurn' : \A d \in Events : t \in TurnsOf[d] => byTurn'[t] \in IdsOf(d)
    <3> SUFFICES ASSUME NEW t \in DOMAIN byTurn', NEW d \in Events, t \in TurnsOf[d]
                 PROVE  byTurn'[t] \in IdsOf(d)
      OBVIOUS
    <3>1. CASE t = h.turn
      <4>1. t \in TurnsOf[e]
        BY <1>6, <1>7, <1>8, <1>19, <3>1
      <4>2. d = e
        BY <4>1, RetrievalConstants
      <4> QED BY <1>9, <1>19, <3>1, <4>2
    <3>2. CASE t # h.turn
      BY <1>19, <3>2 DEF PoolInv, Owned
    <3> QED BY <3>1, <3>2
  <2> QED BY <2>1, <2>2, <2>3, <2>4 DEF Owned
<1>22. Housed'
  <2> SUFFICES ASSUME NEW k \in seen' PROVE \E id \in DOMAIN pool' : In(pool'[id], k, id)
    BY DEF Housed
  <2>1. c \in DOMAIN pool' /\ pool'[c] = s
    BY <1>17
  <2>3. s.scores \in [RouteNames -> Nat]
    BY <1>14 DEF Candidates
  <2>4. CASE k = h
    <3>1. h.route \in RouteNames /\ h.score \in Nat
      BY <1>3, RetrievalConstants DEF HitRecord
    <3>2. s.scores[h.route] >= h.score
      BY <1>14, <2>3, <3>1
    <3>3. In(s, h, c)
      BY <1>4, <1>10, <1>14, <3>2 DEF In
    <3> QED BY <2>1, <2>4, <3>3
  <2>5. CASE k \in seen
    <3>1. PICK id \in DOMAIN pool : In(pool[id], k, id)
      BY <2>5 DEF PoolInv, Housed
    <3>2. CASE id \in DOMAIN pool' /\ id # c
      <4>1. pool'[id] = pool[id]
        BY <1>17, <3>2
      <4> QED BY <3>1, <3>2, <4>1
    <3>3. CASE id \in Others(h) \/ id = c
      <4>1. Covers(s, pool[id]) /\ id \in IdsOf(e)
        BY <1>9, <1>12, <1>14, <3>3
      <4>2. EventOfId(c) = EventOfId(id)
        BY <1>10, <4>1, OwnerIs
      <4>3. k.route \in RouteNames /\ k.score \in Nat
        <5>1. k \in AllHits
          BY <1>5, <2>5
        <5>2. k \in HitRecord
          BY <5>1, HitsAre DEF AllHits
        <5> QED BY <5>2, RetrievalConstants DEF HitRecord
      <4>4. pool[id].scores \in [RouteNames -> Nat]
        BY <1>6 DEF Candidates
      <4>5. s.scores[k.route] >= k.score
        BY <2>3, <3>1, <4>1, <4>3, <4>4 DEF Covers, In
      <4>6. In(s, k, c)
        BY <3>1, <4>1, <4>2, <4>5 DEF Covers, In
      <4> QED BY <2>1, <4>6
    <3> QED BY <1>17, <3>2, <3>3
  <2> QED BY <1>1, <2>4, <2>5
<1> QED BY <1>20, <1>21, <1>22 DEF PoolInv

-----------------------------------------------------------------------------
(* Rows of candidates.                                                     *)

ARow(s, n, D) == n \in Nat /\ s \in [1 .. n -> D] /\ \A i, j \in 1 .. n : s[i] = s[j] => i = j
IsARow(s, D)  == \E n \in Nat : ARow(s, n, D)

\* Where the one is, the other is before it.
InFront(s, d, a) == \A i \in DOMAIN s : s[i] = a => \E j \in 1 .. (i - 1) : s[j] = d

LEMMA FirstOfIs ==
  ASSUME NEW D, NEW m, NEW s, ARow(s, m, D), NEW n \in Nat, NEW t, t = FirstOf(s, n),
         NEW k, k = IF n <= m THEN n ELSE m
  PROVE  k \in 0 .. m /\ ARow(t, k, D) /\ \A i \in 1 .. k : t[i] = s[i]
<1>1. m \in Nat /\ s \in [1 .. m -> D] /\ \A i, j \in 1 .. m : s[i] = s[j] => i = j
  BY DEF ARow
<1>2. s \in Seq(D) /\ Len(s) = m
  BY <1>1
<1>3. Min({n, m}) = IF n <= m THEN n ELSE m
  <2> DEFINE T == {n, m}
  <2>1. T \in SUBSET Int /\ T # {} /\ n \in T /\ m \in T /\ \A x \in T : x \in {n, m}
    BY <1>1
  <2>2. IsFiniteSet(T)
    BY TwoAreFinite
  <2> HIDE DEF T
  <2>3. Min(T) \in T /\ \A x \in T : Min(T) <= x
    BY <2>1, <2>2, EndsOfASet
  <2>4. Min(T) \in {n, m} /\ Min(T) <= n /\ Min(T) <= m
    BY <2>1, <2>3
  <2>5. Min(T) = IF n <= m THEN n ELSE m
    BY <1>1, <2>4
  <2> QED BY <2>5 DEF T
<1>4. k \in 0 .. m
  BY <1>1
<1>5. t = SubSeq(s, 1, k)
  BY <1>2, <1>3 DEF FirstOf
<1>6. t \in [1 .. k -> D] /\ \A i \in 1 .. k : t[i] = s[i]
  <2>1. t = [i \in 1 .. k |-> s[i]]
    <3>1. k \in Int
      BY <1>1, <1>4
    <3>2. t = [i \in 1 .. (k - 1 + 1) |-> s[1 + i - 1]]
      BY <1>5, <3>1
    <3>3. k - 1 + 1 = k /\ \A i \in 1 .. k : 1 + i - 1 = i
      BY <3>1
    <3> QED BY <3>2, <3>3
  <2> QED BY <1>1, <1>4, <2>1
<1>7. ARow(t, k, D)
  BY <1>1, <1>4, <1>6 DEF ARow
<1> QED BY <1>4, <1>6, <1>7

\* The first of a row, and what is in front in it.
LEMMA FirstOfKeeps ==
  ASSUME NEW D, NEW s, IsARow(s, D), NEW n \in Nat
  PROVE  /\ IsARow(FirstOf(s, n), D)
         /\ \A d, a : InFront(s, d, a) => InFront(FirstOf(s, n), d, a)
<1>1. PICK m \in Nat : ARow(s, m, D)
  BY DEF IsARow
<1> DEFINE t == FirstOf(s, n)
<1> DEFINE k == IF n <= m THEN n ELSE m
<1>7. t = FirstOf(s, n) /\ k = IF n <= m THEN n ELSE m
  OBVIOUS
<1> HIDE DEF t, k
<1>2. k \in 0 .. m /\ ARow(t, k, D) /\ \A i \in 1 .. k : t[i] = s[i]
  BY <1>1, <1>7, FirstOfIs
<1>3. DOMAIN s = 1 .. m /\ DOMAIN t = 1 .. k
  BY <1>1, <1>2 DEF ARow
<1>4. ASSUME NEW d, NEW a, InFront(s, d, a), NEW i \in 1 .. k, t[i] = a
      PROVE  \E j \in 1 .. (i - 1) : t[j] = d
  <2>1. s[i] = a /\ i \in 1 .. m
    BY <1>2, <1>4
  <2>2. PICK j \in 1 .. (i - 1) : s[j] = d
    BY <1>3, <1>4, <2>1 DEF InFront
  <2>3. j \in 1 .. k
    BY <1>2
  <2> QED BY <1>2, <2>2, <2>3
<1>5. \A d, a : InFront(s, d, a) => InFront(t, d, a)
  BY <1>3, <1>4 DEF InFront
<1>6. k \in Nat
  BY <1>2
<1> QED BY <1>2, <1>5, <1>6 DEF IsARow, t

\* A sort puts what has more in front, and keeps what is there.
LEMMA SortedIs ==
  ASSUME NEW D, NEW n, NEW s, ARow(s, n, D), NEW f, \A x \in Range(s) : f[x] \in Int,
         NEW t, t = SortedBy(s, f)
  PROVE  /\ ARow(t, n, D) /\ Range(t) = Range(s)
         /\ \A d, a \in Range(s) : f[d] > f[a] => InFront(t, d, a)
<1>1. n \in Nat /\ s \in [1 .. n -> D] /\ \A i, j \in 1 .. n : s[i] = s[j] => i = j
  BY DEF ARow
<1> DEFINE before(i, j) == f[s[i]] > f[s[j]] \/ (f[s[i]] = f[s[j]] /\ i < j)
           S == 1 .. n
           R == {p \in S \X S : before(p[1], p[2])}
           at == Row(R, S)
<1>2. DOMAIN s = S /\ \A i \in S : s[i] \in Range(s) /\ i \in Nat
  BY <1>1 DEF Range
<1>3. \A i \in S : f[s[i]] \in Int
  BY <1>2
<1>4. \A i, j \in S : <<i, j>> \in R <=> before(i, j)
  OBVIOUS
<1>5. StrictOrder(R, S)
  <2> HIDE DEF R, S
  <2>1. \A i \in S : <<i, i>> \notin R
    BY <1>2, <1>3, <1>4
  <2>2. \A i, j, k \in S : <<i, j>> \in R /\ <<j, k>> \in R => <<i, k>> \in R
    <3> SUFFICES ASSUME NEW i \in S, NEW j \in S, NEW k \in S, before(i, j), before(j, k)
                 PROVE  before(i, k)
      BY <1>4
    <3>1. /\ f[s[i]] \in Int /\ f[s[j]] \in Int /\ f[s[k]] \in Int
          /\ i \in Nat /\ j \in Nat /\ k \in Nat
      BY <1>2, <1>3
    <3> QED BY <3>1
  <2>3. \A i, j \in S : i # j => <<i, j>> \in R \/ <<j, i>> \in R
    BY <1>2, <1>3, <1>4
  <2> QED BY <2>1, <2>2, <2>3 DEF StrictOrder
<1>6. IsFiniteSet(S) /\ Cardinality(S) = n
  <2>1. 1 \in Int /\ n \in Int
    BY <1>1
  <2>2. IsFiniteSet(S) /\ Cardinality(S) = IF 1 > n THEN 0 ELSE n - 1 + 1
    BY <2>1, FS_Interval
  <2>3. (IF 1 > n THEN 0 ELSE n - 1 + 1) = n
    BY <1>1
  <2> QED BY <2>2, <2>3
<1>7. t = [i \in S |-> s[at[i]]]
  <2>1. \A k \in S : Below(R, S, k) = {j \in S : before(j, k)}
    BY <1>4 DEF Below
  <2> DEFINE one(i) == CHOOSE k \in S : Cardinality({j \in S : before(j, k)}) = i - 1
             two(i) == CHOOSE k \in S : Cardinality(Below(R, S, k)) = i - 1
  <2>2. \A i \in S : one(i) = two(i)
    BY <2>1
  <2>3. t = [i \in S |-> s[one(i)]]
    BY <1>2 DEF SortedBy
  <2>4. \A i \in S : at[i] = two(i)
    <3> HIDE DEF R, S
    <3>1. 1 .. Cardinality(S) = S
      BY <1>6 DEF S
    <3> QED BY <3>1 DEF Row
  <2> HIDE DEF R, S, at, before, one, two
  <2> QED BY <2>2, <2>3, <2>4
<1> HIDE DEF R, at
<1>8. /\ at \in [1 .. n -> S] /\ \A x \in S : \E i \in 1 .. n : at[i] = x
      /\ \A i, j \in 1 .. n : at[i] = at[j] => i = j
      /\ \A i, j \in 1 .. n : <<at[i], at[j]>> \in R <=> i < j
  <2> HIDE DEF S
  <2> QED BY <1>5, <1>6, InARow DEF at
<1>9. \A i \in S : at[i] \in S /\ t[i] = s[at[i]]
  BY <1>7, <1>8
<1>10. ARow(t, n, D)
  <2>1. t \in [1 .. n -> D]
    BY <1>1, <1>7, <1>9
  <2>2. \A i, j \in 1 .. n : t[i] = t[j] => i = j
    BY <1>1, <1>8, <1>9
  <2> QED BY <1>1, <2>1, <2>2 DEF ARow
<1>11. Range(t) = Range(s)
  <2>1. DOMAIN t = S
    BY <1>7
  <2>2. \A x \in Range(t) : x \in Range(s)
    BY <1>2, <1>9, <2>1 DEF Range
  <2>3. \A x \in Range(s) : x \in Range(t)
    BY <1>2, <1>8, <1>9, <2>1 DEF Range
  <2> QED BY <2>2, <2>3
<1>12. ASSUME NEW d \in Range(s), NEW a \in Range(s), f[d] > f[a]
       PROVE  InFront(t, d, a)
  <2> SUFFICES ASSUME NEW i \in S, t[i] = a PROVE \E j \in 1 .. (i - 1) : t[j] = d
    BY <1>7 DEF InFront
  <2>1. PICK x \in S : s[x] = d
    BY <1>2 DEF Range
  <2>2. PICK j \in 1 .. n : at[j] = x
    BY <1>8, <2>1
  <2>3. s[at[i]] = a /\ s[at[j]] = d /\ t[j] = d /\ at[i] \in S /\ at[j] \in S
    BY <1>9, <2>1, <2>2
  <2>4. <<at[j], at[i]>> \in R
    BY <1>4, <1>12, <2>3
  <2>5. j < i
    BY <1>8, <2>4
  <2>6. j \in 1 .. (i - 1)
    BY <1>1, <2>5
  <2> QED BY <2>3, <2>6
<1> QED BY <1>10, <1>11, <1>12

\* A row with another order of its first elements.
Ahead(t, s, k, n) == t \o SubSeq(s, k + 1, n)

LEMMA TailKeeps ==
  ASSUME NEW D, NEW n, NEW s, ARow(s, n, D), NEW k \in 0 .. n, NEW t, ARow(t, k, D),
         \A x \in Range(t) : \E i \in 1 .. k : s[i] = x,
         NEW u, u = Ahead(t, s, k, n)
  PROVE  /\ ARow(u, n, D)
         /\ \A d : \A a \in Range(t) : InFront(t, d, a) => InFront(u, d, a)
<1>1. /\ n \in Nat /\ s \in [1 .. n -> D] /\ \A i, j \in 1 .. n : s[i] = s[j] => i = j
      /\ k \in Nat /\ k <= n /\ t \in [1 .. k -> D] /\ \A i, j \in 1 .. k : t[i] = t[j] => i = j
  BY DEF ARow
<1>2. s \in Seq(D) /\ Len(s) = n /\ t \in Seq(D) /\ Len(t) = k
  BY <1>1
<1> DEFINE r == SubSeq(s, k + 1, n)
<1>3. /\ r \in Seq(D) /\ Len(r) = n - k /\ \A i \in 1 .. (n - k) : r[i] = s[k + i]
  <2>1. r = [i \in 1 .. (n - (k + 1) + 1) |-> s[(k + 1) + i - 1]]
    BY <1>1, <1>2
  <2>2. n - (k + 1) + 1 = n - k /\ \A i \in 1 .. (n - k) : (k + 1) + i - 1 = k + i
    BY <1>1
  <2>3. r = [i \in 1 .. (n - k) |-> s[k + i]]
    BY <2>1, <2>2
  <2>4. n - k \in Nat /\ \A i \in 1 .. (n - k) : k + i \in 1 .. n
    BY <1>1
  <2> HIDE DEF r
  <2>5. r \in [1 .. (n - k) -> D]
    BY <1>1, <2>3, <2>4
  <2>6. r \in Seq(D) /\ Len(r) = n - k
    BY <2>4, <2>5
  <2> QED BY <2>3, <2>6
<1> HIDE DEF r
<1>4. /\ u \in [1 .. n -> D]
      /\ \A i \in 1 .. n : i <= k => u[i] = t[i]
      /\ \A i \in 1 .. n : ~(i <= k) => u[i] = s[i]
  <2>1. u = t \o r
    BY DEF r, Ahead
  <2>2. u \in Seq(D) /\ Len(u) = Len(t) + Len(r)
    BY <1>2, <1>3, <2>1
  <2>3. k + (n - k) = n
    BY <1>1
  <2>4. \A i \in 1 .. n : i <= k => u[i] = t[i]
    BY <1>1, <1>2, <1>3, <2>1
  <2>5. \A i \in 1 .. n : ~(i <= k) => u[i] = s[i]
    <3> SUFFICES ASSUME NEW i \in 1 .. n, ~(i <= k) PROVE u[i] = s[i]
      OBVIOUS
    <3>1. u[i] = r[i - k]
      BY <1>1, <1>2, <1>3, <2>1
    <3>2. i - k \in 1 .. (n - k) /\ k + (i - k) = i
      BY <1>1
    <3>3. r[i - k] = s[k + (i - k)]
      BY <1>3, <3>2
    <3>4. s[k + (i - k)] = s[i]
      BY <3>2
    <3> QED BY <3>1, <3>3, <3>4
  <2>7. Len(u) = n
    BY <1>2, <1>3, <2>2, <2>3
  <2>6. Len(u) = n /\ u \in [1 .. Len(u) -> D]
    <3>1. u \in Seq(D)
      BY <2>2
    <3>2. u \in [1 .. Len(u) -> D]
      BY <3>1, LenProperties
    <3> QED BY <2>7, <3>2
  <2> QED BY <2>4, <2>5, <2>6
<1>5. \A i \in 1 .. k : \E j \in 1 .. k : t[i] = s[j]
  BY <1>1 DEF Range
<1>6. ARow(u, n, D)
  <2>3. u \in [1 .. n -> D]
    BY <1>4
  <2>4. ASSUME NEW i \in 1 .. n, NEW j \in 1 .. n, u[i] = u[j], i < j
        PROVE  FALSE
    <3>4. i \in Nat /\ j \in Nat /\ i < j
      BY <1>1, <2>4
    <3>1. CASE j <= k
      <4>1. i \in 1 .. k /\ j \in 1 .. k /\ i <= k
        BY <1>1, <3>1, <3>4
      <4>2. u[i] = t[i] /\ u[j] = t[j]
        BY <1>4, <3>1, <4>1
      <4>3. t[i] = t[j]
        BY <2>4, <4>2
      <4>4. i = j
        BY <1>1, <4>1, <4>3
      <4> QED BY <3>4, <4>4
    <3>2. CASE ~(i <= k)
      <4>1. ~(j <= k)
        BY <1>1, <3>2, <3>4
      <4>2. u[i] = s[i] /\ u[j] = s[j]
        BY <1>4, <3>2, <4>1
      <4>3. s[i] = s[j]
        BY <2>4, <4>2
      <4>4. i = j
        BY <1>1, <4>3
      <4> QED BY <3>4, <4>4
    <3>3. CASE i <= k /\ ~(j <= k)
      <4>3. i \in 1 .. k
        BY <1>1, <3>3
      <4>1. PICK m \in 1 .. k : t[i] = s[m]
        BY <1>5, <4>3
      <4>2. s[m] = s[j] /\ m \in 1 .. n
        BY <1>1, <1>4, <2>4, <3>3, <4>1
      <4> QED BY <1>1, <3>3, <4>1, <4>2
    <3> QED BY <3>1, <3>2, <3>3
  <2>5. \A i, j \in 1 .. n : u[i] = u[j] => i = j
    <3>1. \A i, j \in 1 .. n : i = j \/ i < j \/ j < i
      BY <1>1
    <3> QED BY <2>4, <3>1
  <2> QED BY <1>1, <2>3, <2>5 DEF ARow
<1>7. ASSUME NEW d, NEW a \in Range(t), InFront(t, d, a)
      PROVE  InFront(u, d, a)
  <2> SUFFICES ASSUME NEW i \in 1 .. n, u[i] = a PROVE \E j \in 1 .. (i - 1) : u[j] = d
    BY <1>4 DEF InFront
  <2>1. i <= k
    <3> SUFFICES ASSUME ~(i <= k) PROVE FALSE
      OBVIOUS
    <3>1. PICK m \in 1 .. k : s[m] = a
      OBVIOUS
    <3>2. s[i] = a /\ m \in 1 .. n
      BY <1>1, <1>4
    <3> QED BY <1>1, <3>1, <3>2
  <2>2. i \in 1 .. k /\ t[i] = a /\ DOMAIN t = 1 .. k
    BY <1>1, <1>4, <2>1
  <2>3. PICK j \in 1 .. (i - 1) : t[j] = d
    BY <1>7, <2>2 DEF InFront
  <2>4. j \in 1 .. n /\ j <= k
    BY <1>1, <2>2
  <2> QED BY <1>4, <2>3, <2>4
<1> QED BY <1>6, <1>7

-----------------------------------------------------------------------------
(* Scores.                                                                 *)

\* Shares of a unit that a number of parts divides.
Share(q, u, n) == q \in Nat \ {0} /\ \A x \in Nat : (x * u) \div n = x * q

LEMMA SharesAre ==
  ASSUME NEW n \in Nat \ {0}, NEW u \in Nat \ {0}, u % n = 0, NEW q, q = u \div n
  PROVE  Share(q, u, n)
<1>1. q \in Nat /\ u = n * q
  <2>1. u = (n * (u \div n)) + (u % n)
    BY Z3
  <2>2. u \div n \in Int
    BY Z3
  <2>3. u \div n >= 0
    BY Z3
  <2> QED BY <2>1, <2>2, <2>3
<1>2. q # 0
  <2>1. q = 0 => n * q = 0
    BY <1>1
  <2> QED BY <1>1, <2>1
<1>3. ASSUME NEW x \in Nat
      PROVE  (x * u) \div n = x * q
  <2>1. x * u = n * (x * q)
    BY <1>1
  <2> DEFINE m == x * q
  <2>2. m \in Int
    BY <1>1
  <2> HIDE DEF m
  <2>3. (n * m) \div n = m
    BY <2>2
  <2> QED BY <2>1, <2>3 DEF m
<1> QED BY <1>1, <1>2, <1>3 DEF Share

\* More shares are more.
LEMMA TimesKeeps ==
  ASSUME NEW q \in Nat \ {0}, NEW x \in Nat, NEW y \in Nat
  PROVE  x * q \in Nat /\ (x > y => x * q > y * q)
<1>1. x * q \in Nat
  OBVIOUS
<1>2. ASSUME x > y PROVE x * q > y * q
  <2> DEFINE z == x - y
  <2>1. z \in Nat /\ z >= 1 /\ x = y + z
    BY <1>2
  <2> HIDE DEF z
  <2>2. x * q = y * q + z * q
    BY <2>1
  <2>3. z * q >= 1
    BY <2>1
  <2>4. y * q \in Nat /\ z * q \in Nat
    BY <2>1
  <2> QED BY <2>2, <2>3, <2>4
<1> QED BY <1>1, <1>2

\* Normalised scores are in the order of the scores.
LEMMA NormalizedIs ==
  ASSUME NEW S, IsFiniteSet(S), NEW f \in [S -> 0 .. MaxScore],
         NEW norm, norm = Normalized(f)
  PROVE  norm \in [S -> Nat] /\ \A d, a \in S : f[d] > f[a] => norm[d] > norm[a]
<1> DEFINE T == Range(f)
           lo == Min(T)
           hi == Max(T)
<1>1. /\ MaxScore \in Nat \ {0} /\ Unit \in Nat \ {0} /\ \A n \in 1 .. MaxScore : Unit % n = 0
  BY RetrievalConstants
<1>2. norm = [d \in S |-> IF lo = hi THEN Unit ELSE ((f[d] - lo) * Unit) \div (hi - lo)]
  BY DEF Normalized
<1>3. CASE S = {}
  BY <1>2, <1>3
<1>4. CASE S # {}
  <2>1. IsFiniteSet(T)
    <3>1. DOMAIN f = S
      OBVIOUS
    <3>2. T = {f[x] : x \in S}
      BY <3>1 DEF Range
    <3> QED BY <3>1, <3>2, RangeIsFinite
  <2>2. T \in SUBSET Int /\ T # {} /\ T \subseteq 0 .. MaxScore /\ \A x \in S : f[x] \in T
    BY <1>1, <1>4 DEF Range
  <2>3. /\ lo \in T /\ hi \in T /\ \A x \in T : lo <= x /\ x <= hi
    BY <2>1, <2>2, EndsOfASet
  <2> HIDE DEF T, lo, hi
  <2>4. lo \in 0 .. MaxScore /\ hi \in 0 .. MaxScore /\ lo \in Nat /\ hi \in Nat
    BY <1>1, <2>2, <2>3
  <2>5. \A x \in S : f[x] \in Nat /\ lo <= f[x] /\ f[x] <= hi
    BY <1>1, <2>2, <2>3
  <2>6. CASE lo = hi
    <3>1. \A x \in S : norm[x] = Unit /\ f[x] = lo
      BY <1>2, <2>4, <2>5, <2>6
    <3>2. norm \in [S -> Nat]
      BY <1>1, <1>2, <2>6
    <3> QED BY <2>4, <3>1, <3>2
  <2>7. CASE lo # hi
    <3> DEFINE n == hi - lo
    <3>1. n \in 1 .. MaxScore /\ n \in Nat \ {0}
      BY <1>1, <1>4, <2>4, <2>5, <2>7
    <3>2. Unit % n = 0
      BY <1>1, <3>1
    <3> HIDE DEF n
    <3> DEFINE q == Unit \div n
    <3>8. q = Unit \div n
      OBVIOUS
    <3> HIDE DEF q
    <3>9. Share(q, Unit, n)
      BY <1>1, <3>1, <3>2, <3>8, SharesAre
    <3>3. q \in Nat \ {0} /\ \A x \in Nat : (x * Unit) \div n = x * q
      BY <3>9 DEF Share
    <3>4. \A d \in S : f[d] - lo \in Nat /\ norm[d] = (f[d] - lo) * q
      <4>1. \A d \in S : f[d] - lo \in Nat
        BY <2>4, <2>5
      <4>2. norm = [d \in S |-> ((f[d] - lo) * Unit) \div n]
        BY <1>2, <2>7 DEF n
      <4>3. \A d \in S : norm[d] = ((f[d] - lo) * Unit) \div n
        BY <4>2
      <4> QED BY <3>3, <4>1, <4>3
    <3>5. \A d \in S : norm[d] \in Nat
      BY <3>3, <3>4, TimesKeeps
    <3>6. norm \in [S -> Nat]
      <4>1. DOMAIN norm = S /\ norm = [d \in S |-> norm[d]]
        BY <1>2
      <4> QED BY <3>5, <4>1
    <3>7. ASSUME NEW d \in S, NEW a \in S, f[d] > f[a] PROVE norm[d] > norm[a]
      <4> DEFINE x == f[d] - lo
                 y == f[a] - lo
      <4>1. x \in Nat /\ y \in Nat /\ x > y
        BY <2>4, <2>5, <3>7
      <4>2. norm[d] = x * q /\ norm[a] = y * q
        BY <3>4
      <4> HIDE DEF x, y
      <4> QED BY <3>3, <4>1, <4>2, TimesKeeps
    <3> QED BY <3>6, <3>7
  <2> QED BY <2>6, <2>7
<1> QED BY <1>3, <1>4

LEMMA RankScoreIs ==
  ASSUME NEW rank \in Int, NEW total \in Nat \ {0}
  PROVE  RankScore(rank, total) \in Int
<1>1. Unit \in Nat
  BY RetrievalConstants
<1>2. CASE total = 1
  BY <1>1, <1>2 DEF RankScore
<1>3. CASE total # 1
  <2> DEFINE x == (rank - 1) * Unit
             n == total - 1
  <2>1. x \in Int /\ n \in Nat \ {0}
    BY <1>1, <1>3
  <2>2. RankScore(rank, total) = Unit - (x \div n)
    BY <1>3 DEF RankScore
  <2> HIDE DEF x, n
  <2>3. x \div n \in Int
    BY <2>1
  <2> QED BY <1>1, <2>2, <2>3
<1> QED BY <1>2, <1>3

\* Where the reranker tells documents apart, its scores decide.
LEMMA RerankedIs ==
  ASSUME NEW n, NEW D, ARow(Asked, n, D), NEW docs \in SUBSET Range(Asked), IsFiniteSet(docs),
         NEW raw \in [docs -> 0 .. MaxScore], NEW rank, \A d \in docs : rank[d] \in Int,
         NEW scores, scores = Reranked(raw, rank)
  PROVE  /\ scores \in [Range(Asked) -> Int]
         /\ \A d, a \in docs : raw[d] > raw[a] => scores[d] > scores[a] /\ scores[a] >= 0
<1> DEFINE A == Range(Asked)
           norm == Normalized(raw)
           many == Cardinality(Range(raw)) > 1
<1>1. /\ n \in Nat /\ Asked \in [1 .. n -> D]
  BY DEF ARow
<1>2. Len(Asked) = n /\ DOMAIN Asked = 1 .. n
  BY <1>1
<1>3. norm \in [docs -> Nat] /\ \A d, a \in docs : raw[d] > raw[a] => norm[d] > norm[a]
  <2> HIDE DEF norm
  <2>1. norm = Normalized(raw)
    BY DEF norm
  <2> QED BY <2>1, NormalizedIs
<1> HIDE DEF norm, many
<1>4. /\ DOMAIN raw = docs
      /\ scores = [d \in A |-> IF many /\ d \in docs THEN norm[d]
                               ELSE RankScore(IF d \in docs THEN rank[d] ELSE n, n)]
  BY <1>2 DEF Reranked, norm, many
<1>5. \A d \in A : n # 0
  BY <1>1, <1>2 DEF Range
<1>6. ASSUME NEW d \in A PROVE scores[d] \in Int
  <2>1. CASE many /\ d \in docs
    <3>1. scores[d] = norm[d] /\ norm[d] \in Nat
      BY <1>3, <1>4, <2>1
    <3> QED BY <3>1
  <2>2. CASE ~(many /\ d \in docs)
    <3> DEFINE r == IF d \in docs THEN rank[d] ELSE n
    <3>1. r \in Int /\ n \in Nat \ {0}
      BY <1>1, <1>5
    <3>2. scores[d] = RankScore(r, n)
      BY <1>4, <2>2
    <3> HIDE DEF r
    <3> QED BY <3>1, <3>2, RankScoreIs
  <2> QED BY <2>1, <2>2
<1>7. scores \in [A -> Int]
  <2>1. scores = [d \in A |-> scores[d]]
    BY <1>4
  <2> QED BY <1>6, <2>1
<1>8. ASSUME NEW d \in docs, NEW a \in docs, raw[d] > raw[a]
      PROVE  scores[d] > scores[a] /\ scores[a] >= 0
  <2>1. many
    <3>1. IsFiniteSet(Range(raw))
      <4>1. Range(raw) = {raw[x] : x \in docs}
        BY <1>4 DEF Range
      <4> QED BY <1>4, <4>1, RangeIsFinite
    <3> DEFINE two == {raw[d], raw[a]}
    <3>2. IsFiniteSet(two) /\ Cardinality(two) = 2
      <4>1. raw[d] # raw[a]
        <5>1. raw[d] \in 0 .. MaxScore /\ raw[a] \in 0 .. MaxScore
          OBVIOUS
        <5> QED BY <1>8, <5>1
      <4>2. IsFiniteSet({raw[d]}) /\ Cardinality({raw[d]}) = 1
        BY FS_Singleton
      <4>3. raw[a] \notin {raw[d]}
        BY <4>1
      <4>4. IsFiniteSet({raw[d]} \cup {raw[a]}) /\ Cardinality({raw[d]} \cup {raw[a]}) = 1 + 1
        BY <4>2, <4>3, FS_AddElement
      <4>5. {raw[d]} \cup {raw[a]} = {raw[d], raw[a]}
        OBVIOUS
      <4> QED BY <4>4, <4>5
    <3>3. two \subseteq Range(raw)
      BY <1>4 DEF Range
    <3> HIDE DEF two
    <3>4. 2 <= Cardinality(Range(raw)) /\ Cardinality(Range(raw)) \in Nat
      BY <3>1, <3>2, <3>3, FS_Subset, FS_CardinalityType
    <3> QED BY <3>4 DEF many
  <2>2. d \in A /\ a \in A
    OBVIOUS
  <2>3. scores[d] = norm[d] /\ scores[a] = norm[a]
    BY <1>4, <2>1, <2>2
  <2>4. norm[d] \in Nat /\ norm[a] \in Nat /\ norm[d] > norm[a]
    BY <1>3, <1>8
  <2> QED BY <2>3, <2>4
<1> QED BY <1>7, <1>8

LEMMA SelectionIs ==
  ASSUME NEW B, NEW n, base \in [B -> 1 .. MaxScore], ARow(Asked, n, B),
         mode \in {"rerank_only", "base_only", "fused"},
         NEW scores \in [Range(Asked) -> Int], NEW sel, sel = Selection(scores)
  PROVE  /\ sel \in [B -> Int]
         /\ mode = "rerank_only" => \A d \in Range(Asked) : sel[d] = scores[d]
<1> DEFINE A == Range(Asked)
           own == Restrict(base, A)
           norm == Normalized(own)
<1>1. /\ n \in Nat /\ Asked \in [1 .. n -> B] /\ DOMAIN Asked = 1 .. n
  BY DEF ARow
<1>2. A \subseteq B
  BY <1>1 DEF Range
<1>3. IsFiniteSet(A)
  <2> DEFINE N == 1 .. n
  <2>1. IsFiniteSet(N) /\ DOMAIN Asked = N
    BY <1>1, FS_Interval
  <2>2. A = {Asked[i] : i \in N}
    BY <1>1 DEF Range
  <2> HIDE DEF N
  <2> QED BY <2>1, <2>2, RangeIsFinite
<1>4. MaxScore \in Nat /\ WeightBase \in Nat \ {0} /\ WeightRerank \in Nat \ {0}
  BY RetrievalConstants
<1>5. own \in [A -> 0 .. MaxScore]
  BY <1>2, <1>4 DEF Restrict
<1>6. norm \in [A -> Nat]
  <2> HIDE DEF norm, own, A
  <2>1. norm = Normalized(own)
    BY DEF norm
  <2> QED BY <1>3, <1>5, <2>1, NormalizedIs
<1> HIDE DEF own, norm
<1> DEFINE mixed(d) == (WeightBase * norm[d] + WeightRerank * scores[d])
                         \div (WeightBase + WeightRerank)
<1>7. sel = [d \in B |-> IF d \notin A THEN base[d]
                         ELSE CASE mode = "rerank_only" -> scores[d]
                                [] mode = "base_only" -> norm[d]
                                [] OTHER -> mixed(d)]
  BY DEF Selection, norm, own
<1>8. \A d \in A : mixed(d) \in Int
  <2> SUFFICES ASSUME NEW d \in A PROVE mixed(d) \in Int
    OBVIOUS
  <2> DEFINE x == WeightBase * norm[d] + WeightRerank * scores[d]
             y == WeightBase + WeightRerank
  <2>1. norm[d] \in Int /\ scores[d] \in Int
    BY <1>6
  <2>2. x \in Int /\ y \in Nat \ {0}
    BY <1>4, <2>1
  <2> HIDE DEF x, y
  <2>3. x \div y \in Int
    BY <2>2
  <2> QED BY <2>3 DEF x, y
<1> HIDE DEF mixed
<1>9. ASSUME NEW d \in B PROVE sel[d] \in Int
  <2>1. CASE d \notin A
    <3>1. sel[d] = base[d] /\ base[d] \in 1 .. MaxScore
      BY <1>7, <2>1
    <3> QED BY <1>4, <3>1
  <2>2. CASE d \in A
    <3>1. sel[d] \in {scores[d], norm[d], mixed(d)}
      BY <1>7, <2>2
    <3>2. scores[d] \in Int /\ norm[d] \in Int /\ mixed(d) \in Int
      BY <1>6, <1>8, <2>2
    <3> QED BY <3>1, <3>2
  <2> QED BY <2>1, <2>2
<1>10. sel \in [B -> Int]
  <2>1. sel = [d \in B |-> sel[d]]
    BY <1>7
  <2> QED BY <1>9, <2>1
<1>11. mode = "rerank_only" => \A d \in A : sel[d] = scores[d]
  BY <1>2, <1>7
<1> QED BY <1>10, <1>11

-----------------------------------------------------------------------------
(* The ranking.                                                            *)

RetrievalTypeOK ==
  /\ stage \in {"recall", "rank", "select", "explain", "order", "answered"}
  /\ route \in 0 .. 5 /\ mode \in {"rerank_only", "base_only", "fused"}
  /\ PoolTypes
  /\ base \in Maps(HitIds, 1 .. MaxScore) /\ choice \in [DOMAIN base -> Int]
  /\ said \in Maps(DOMAIN base, 0 .. MaxScore) \cup {None}
  /\ signal \in Maps(DOMAIN base, 0 .. 1)
  /\ IsARow(order, DOMAIN base) /\ IsARow(answer, DOMAIN base)

\* Who judged last puts the one above the other.
Preferred(d, a) ==
  IF said = None THEN base[d] > base[a]
  ELSE mode = "rerank_only" /\ {a, d} \subseteq DOMAIN said /\ said[d] > said[a]

\* The order follows whoever judged last, and so do the selection scores.
Judged ==
  /\ said = None => choice = base
  /\ \A d, a \in DOMAIN base :
       Preferred(d, a) => choice[d] > choice[a] /\ choice[a] >= 0 /\ InFront(order, d, a)

Stages ==
  /\ stage \in {"recall", "rank"} => said = None
  /\ stage # "answered" => answer = <<>>
  /\ stage = "order" => DOMAIN signal = DOMAIN base

RetrievalInv == RetrievalTypeOK /\ PoolInv /\ Judged /\ Stages /\ AnswerFollows

\* A sorted list of a finite set.
LEMMA OrdersAre ==
  ASSUME NEW S, IsFiniteSet(S), NEW s \in Orders(S), NEW f \in [S -> Int], Descending(s, f)
  PROVE  IsARow(s, S) /\ \A d, a \in S : f[d] > f[a] => InFront(s, d, a)
<1> DEFINE n == Cardinality(S)
           N == 1 .. n
<1>1. n \in Nat
  BY FS_CardinalityType
<1>2. s \in [N -> S] /\ \A x \in S : \E i \in N : s[i] = x
  BY DEF Orders, Range
<1>3. IsFiniteSet(N) /\ Cardinality(N) = Cardinality(S)
  <2>1. 1 \in Int /\ n \in Int
    BY <1>1
  <2>2. IsFiniteSet(N) /\ Cardinality(N) = IF 1 > n THEN 0 ELSE n - 1 + 1
    BY <2>1, FS_Interval
  <2>3. (IF 1 > n THEN 0 ELSE n - 1 + 1) = n
    BY <1>1
  <2> QED BY <2>2, <2>3
<1>4. \A i, j \in N : s[i] = s[j] => i = j
  <2> HIDE DEF N
  <2>1. s \in Surjection(N, S)
    BY <1>2 DEF Surjection
  <2>2. s \in Injection(N, S)
    BY <1>3, <2>1, FS_SurjSameCardinalityImpliesInj
  <2> QED BY <2>2 DEF Injection, IsInjective
<1>5. IsARow(s, S)
  BY <1>1, <1>2, <1>4 DEF IsARow, ARow
<1>6. ASSUME NEW d \in S, NEW a \in S, f[d] > f[a] PROVE InFront(s, d, a)
  <2> SUFFICES ASSUME NEW i \in N, s[i] = a PROVE \E j \in 1 .. (i - 1) : s[j] = d
    BY <1>2 DEF InFront
  <2>1. PICK j \in N : s[j] = d
    BY <1>2
  <2>2. i \in Nat /\ j \in Nat /\ f[d] \in Int /\ f[a] \in Int /\ j >= 1
    BY <1>1
  <2>3. i < j => f[a] >= f[d]
    BY <1>2, <2>1 DEF Descending
  <2>4. i # j
    BY <1>6, <2>1, <2>2
  <2>5. j \in 1 .. (i - 1)
    BY <1>6, <2>2, <2>3, <2>4
  <2> QED BY <2>1, <2>5
<1> QED BY <1>5, <1>6

LEMMA RetrievalStart == RetrievalInit => RetrievalInv
<1> SUFFICES ASSUME RetrievalInit PROVE RetrievalInv
  OBVIOUS
<1>1. /\ stage = "recall" /\ route = 5 /\ order = <<>> /\ seen = {} /\ pool = <<>>
      /\ byEvent = <<>> /\ byTurn = <<>> /\ answer = <<>> /\ base = <<>> /\ said = None
      /\ choice = <<>> /\ signal = <<>> /\ mode \in {"rerank_only", "base_only", "fused"}
  BY RoutesAre DEF RetrievalInit
<1>2. DOMAIN <<>> = {} /\ \A V : <<>> \in [{} -> V]
  OBVIOUS
<1>3. \A D : IsARow(<<>>, D)
  <2> SUFFICES ASSUME NEW D PROVE IsARow(<<>>, D)
    OBVIOUS
  <2>1. <<>> \in [1 .. 0 -> D] /\ 0 \in Nat /\ \A i \in 1 .. 0 : FALSE
    OBVIOUS
  <2>2. ARow(<<>>, 0, D)
    BY <2>1 DEF ARow
  <2> QED BY <2>1, <2>2 DEF IsARow
<1>4. \A D, V : <<>> \in Maps(D, V)
  BY MapsAre
<1>5. PoolInv
  <2>1. PoolTypes
    BY <1>1, <1>4 DEF PoolTypes
  <2>2. IsFiniteSet(DOMAIN pool)
    BY <1>1, <1>2, FS_EmptySet
  <2> QED BY <1>1, <1>2, <2>1, <2>2 DEF PoolInv, Owned, Housed
<1>6. RetrievalTypeOK
  BY <1>1, <1>2, <1>3, <1>4, <1>5 DEF RetrievalTypeOK, PoolInv
<1>7. Judged /\ Stages /\ AnswerFollows
  BY <1>1, <1>2 DEF Judged, Stages, AnswerFollows
<1> QED BY <1>5, <1>6, <1>7 DEF RetrievalInv

LEMMA TouchRanks ==
  ASSUME RetrievalInv, NEW h, Touch(h)
  PROVE  RetrievalInv'
<1>1. PoolInv'
  BY TouchFills DEF RetrievalInv, RetrievalTypeOK
<1>2. UNCHANGED <<stage, route, mode, order, ranking>>
  BY DEF Touch
<1>3. RetrievalTypeOK'
  BY <1>1, <1>2 DEF RetrievalInv, RetrievalTypeOK, PoolInv, ranking
<1>4. Judged' /\ Stages' /\ AnswerFollows'
  BY <1>2 DEF RetrievalInv, Judged, Preferred, Stages, AnswerFollows, ranking
<1> QED BY <1>1, <1>3, <1>4 DEF RetrievalInv

LEMMA PoolStays == ASSUME PoolInv, UNCHANGED <<pool, byEvent, byTurn, seen>> PROVE PoolInv'
BY DEF PoolInv, PoolTypes, Owned, Housed, In

LEMMA NextRouteRanks ==
  ASSUME RetrievalInv, NextRoute
  PROVE  RetrievalInv'
<1>1. PoolInv'
  BY PoolStays DEF RetrievalInv, NextRoute
<1>2. UNCHANGED <<stage, mode, order, ranking>> /\ route' \in 0 .. 5
  BY DEF NextRoute, RetrievalInv, RetrievalTypeOK
<1>3. RetrievalTypeOK'
  BY <1>1, <1>2 DEF RetrievalInv, RetrievalTypeOK, PoolInv, ranking
<1>4. Judged' /\ Stages' /\ AnswerFollows'
  BY <1>2 DEF RetrievalInv, Judged, Preferred, Stages, AnswerFollows, ranking
<1> QED BY <1>1, <1>3, <1>4 DEF RetrievalInv

LEMMA NoRerankRanks ==
  ASSUME RetrievalInv, NoRerank
  PROVE  RetrievalInv'
<1>1. PoolInv'
  BY PoolStays DEF RetrievalInv, NoRerank, merging
<1>2. UNCHANGED <<route, mode, order, ranking>> /\ stage = "rank" /\ stage' = "select"
  BY DEF NoRerank, merging
<1>3. RetrievalTypeOK'
  BY <1>1, <1>2 DEF RetrievalInv, RetrievalTypeOK, PoolInv, ranking
<1>4. Judged' /\ Stages' /\ AnswerFollows'
  BY <1>2 DEF RetrievalInv, Judged, Preferred, Stages, AnswerFollows, ranking
<1> QED BY <1>1, <1>3, <1>4 DEF RetrievalInv

LEMMA SelectRanks ==
  ASSUME RetrievalInv, Select
  PROVE  RetrievalInv'
<1>1. PoolInv'
  BY PoolStays DEF RetrievalInv, Select, merging
<1>2. /\ UNCHANGED <<route, mode, ranking>> /\ stage = "select" /\ stage' = "explain"
      /\ order' = FirstOf(order, K)
  BY DEF Select, merging
<1>3. IsARow(order', DOMAIN base) /\ \A d, a : InFront(order, d, a) => InFront(order', d, a)
  <2>1. K \in Nat /\ IsARow(order, DOMAIN base)
    BY RetrievalConstants DEF RetrievalInv, RetrievalTypeOK
  <2> QED BY <1>2, <2>1, FirstOfKeeps
<1>4. RetrievalTypeOK'
  BY <1>1, <1>2, <1>3 DEF RetrievalInv, RetrievalTypeOK, PoolInv, ranking
<1>5. Judged'
  <2>1. UNCHANGED <<base, said, choice, mode>>
    BY <1>2 DEF ranking
  <2>2. ASSUME NEW d \in DOMAIN base', NEW a \in DOMAIN base', Preferred(d, a)'
        PROVE  choice'[d] > choice'[a] /\ choice'[a] >= 0 /\ InFront(order', d, a)
    <3>1. Preferred(d, a) /\ d \in DOMAIN base /\ a \in DOMAIN base
      BY <2>1, <2>2 DEF Preferred
    <3> QED BY <1>3, <2>1, <3>1 DEF RetrievalInv, Judged
  <2> QED BY <2>1, <2>2 DEF RetrievalInv, Judged
<1>6. Stages' /\ AnswerFollows'
  BY <1>2 DEF RetrievalInv, Stages, AnswerFollows, ranking
<1> QED BY <1>1, <1>4, <1>5, <1>6 DEF RetrievalInv

LEMMA ExplainRanks ==
  ASSUME RetrievalInv, Explain
  PROVE  RetrievalInv'
<1>1. PoolInv'
  BY PoolStays DEF RetrievalInv, Explain, merging
<1> DEFINE seeds == Range(FirstOf(SortedBy(order, [d \in Range(order) |-> Value(d)]), Seeds))
<1>2. /\ UNCHANGED <<route, mode, order, base, said, choice, answer>>
      /\ stage = "explain" /\ stage' = "order"
  BY DEF Explain, merging
<1>3. signal' \in [DOMAIN base -> 0 .. 1]
  <2>1. PICK found \in [seeds \cap DOMAIN signal -> 0 .. 1] :
          signal' = [d \in DOMAIN base |-> IF d \in DOMAIN found THEN found[d] ELSE 0]
    BY DEF Explain
  <2> HIDE DEF seeds
  <2> QED BY <2>1
<1>4. signal' \in Maps(DOMAIN base, 0 .. 1) /\ DOMAIN signal' = DOMAIN base
  <2>1. DOMAIN base \in SUBSET DOMAIN base
    OBVIOUS
  <2> QED BY <1>3, <2>1, MapsAre
<1>5. RetrievalTypeOK'
  BY <1>1, <1>2, <1>4 DEF RetrievalInv, RetrievalTypeOK, PoolInv
<1>6. Judged' /\ Stages' /\ AnswerFollows'
  BY <1>2, <1>4 DEF RetrievalInv, Judged, Preferred, Stages, AnswerFollows
<1> QED BY <1>1, <1>5, <1>6 DEF RetrievalInv

LEMMA ScoreRanks ==
  ASSUME RetrievalInv, Score
  PROVE  RetrievalInv'
<1>1. /\ stage = "recall" /\ stage' = (IF pool = <<>> THEN "answered" ELSE "rank")
      /\ pool' = <<>> /\ byEvent' = <<>> /\ byTurn' = <<>> /\ seen' = {}
      /\ UNCHANGED <<route, mode, said, answer>>
      /\ signal' = [id \in {c \in DOMAIN pool : pool[c].event # None} |-> 0]
  BY DEF Score
<1>2. PICK seq \in Orders(DOMAIN pool), scores \in [DOMAIN pool -> 1 .. MaxScore] :
        Descending(seq, scores) /\ base' = scores /\ choice' = scores /\ order' = seq
  BY DEF Score
<1>3. said = None /\ answer = <<>> /\ stage' \in {"rank", "answered"}
  BY <1>1 DEF RetrievalInv, Stages
<1>4. DOMAIN pool \subseteq HitIds /\ IsFiniteSet(DOMAIN pool) /\ MaxScore \in Nat
  <2>1. pool \in Maps(HitIds, Candidates) /\ IsFiniteSet(DOMAIN pool)
    BY DEF RetrievalInv, PoolInv, PoolTypes, Owned
  <2> QED BY <2>1, MapsAre, RetrievalConstants
<1>5. scores \in [DOMAIN pool -> Int] /\ DOMAIN scores = DOMAIN pool
  BY <1>4
<1>6. IsARow(seq, DOMAIN pool)
      /\ \A d, a \in DOMAIN pool : scores[d] > scores[a] => InFront(seq, d, a)
  BY <1>2, <1>4, <1>5, OrdersAre
<1>7. DOMAIN <<>> = {} /\ \A V : <<>> \in [{} -> V]
  OBVIOUS
<1>8. \A D : IsARow(<<>>, D)
  <2> SUFFICES ASSUME NEW D PROVE IsARow(<<>>, D)
    OBVIOUS
  <2>1. <<>> \in [1 .. 0 -> D] /\ 0 \in Nat /\ \A i \in 1 .. 0 : FALSE
    OBVIOUS
  <2>2. ARow(<<>>, 0, D)
    BY <2>1 DEF ARow
  <2> QED BY <2>1, <2>2 DEF IsARow
<1>9. PoolInv'
  <2>1. PoolTypes'
    BY <1>1, MapsAre DEF PoolTypes
  <2>2. IsFiniteSet(DOMAIN pool')
    BY <1>1, <1>7, FS_EmptySet
  <2> QED BY <1>1, <1>7, <2>1, <2>2 DEF PoolInv, Owned, Housed
<1>10. RetrievalTypeOK'
  <2>1. base' \in Maps(HitIds, 1 .. MaxScore)
    BY <1>2, <1>4, MapsAre
  <2>2. signal' \in Maps(DOMAIN base', 0 .. 1)
    <3> DEFINE S == {c \in DOMAIN pool : pool[c].event # None}
    <3>1. S \in SUBSET DOMAIN base' /\ signal' \in [S -> 0 .. 1]
      BY <1>1, <1>2, <1>5
    <3> HIDE DEF S
    <3> QED BY <3>1, MapsAre
  <2>3. choice' \in [DOMAIN base' -> Int] /\ IsARow(order', DOMAIN base')
    BY <1>2, <1>5, <1>6
  <2>4. IsARow(answer', DOMAIN base') /\ said' = None
    BY <1>1, <1>3, <1>8
  <2> QED BY <1>1, <1>3, <1>9, <2>1, <2>2, <2>3, <2>4 DEF RetrievalInv, RetrievalTypeOK, PoolInv
<1>11. Judged'
  <2>1. said' = None /\ choice' = base' /\ DOMAIN base' = DOMAIN pool
    BY <1>1, <1>2, <1>3, <1>5
  <2>2. ASSUME NEW d \in DOMAIN pool, NEW a \in DOMAIN pool, scores[d] > scores[a]
        PROVE  scores[a] >= 0 /\ InFront(seq, d, a)
    <3>1. scores[a] \in 1 .. MaxScore
      OBVIOUS
    <3> QED BY <1>4, <1>6, <2>2, <3>1
  <2> QED BY <1>2, <2>1, <2>2 DEF Judged, Preferred
<1>12. Stages' /\ AnswerFollows'
  BY <1>1, <1>3, <1>7 DEF Stages, AnswerFollows
<1> QED BY <1>9, <1>10, <1>11, <1>12 DEF RetrievalInv

\* The order after a rerank: the asked ones sorted, and the rest as it was.
LEMMA AskedAre ==
  ASSUME RetrievalInv
  PROVE  \E n, k \in Nat : /\ ARow(order, n, DOMAIN base) /\ Len(order) = n /\ k \in 0 .. n
                           /\ ARow(Asked, k, DOMAIN base) /\ Len(Asked) = k
                           /\ \A i \in 1 .. k : Asked[i] = order[i]
<1>1. PICK n \in Nat : ARow(order, n, DOMAIN base)
  BY DEF RetrievalInv, RetrievalTypeOK, IsARow
<1> DEFINE k == IF PoolSize <= n THEN PoolSize ELSE n
<1>2. PoolSize \in Nat
  BY RetrievalConstants
<1>3. k = (IF PoolSize <= n THEN PoolSize ELSE n) /\ k \in Nat
  BY <1>2
<1> HIDE DEF k
<1>4. k \in 0 .. n /\ ARow(Asked, k, DOMAIN base) /\ \A i \in 1 .. k : Asked[i] = order[i]
  BY <1>1, <1>2, <1>3, FirstOfIs DEF Asked
<1>5. Len(order) = n
  BY <1>1 DEF ARow
<1>6. Len(Asked) = k
  BY <1>3, <1>4 DEF ARow
<1> QED BY <1>1, <1>3, <1>4, <1>5, <1>6

LEMMA RerankRanks ==
  ASSUME RetrievalInv, Rerank
  PROVE  RetrievalInv'
<1> DEFINE A == Range(Asked)
           D == DOMAIN base
<1>1. PICK n \in Nat, k \in Nat :
        /\ ARow(order, n, D) /\ Len(order) = n /\ k \in 0 .. n
        /\ ARow(Asked, k, D) /\ Len(Asked) = k /\ \A i \in 1 .. k : Asked[i] = order[i]
  BY AskedAre
<1>19. PICK docs \in SUBSET A :
         \E seq \in Orders(docs), raw \in [docs -> 0 .. MaxScore] :
           /\ Descending(seq, raw)
           /\ said' = raw
           /\ choice' = Selection(Reranked(raw,
                                   [d \in docs |-> CHOOSE i \in DOMAIN seq : seq[i] = d]))
           /\ order' = SortedBy(Asked, choice') \o SubSeq(order, Len(Asked) + 1, Len(order))
  BY ZenonT(60) DEF Rerank
<1>2. PICK seq \in Orders(docs), raw \in [docs -> 0 .. MaxScore] :
        /\ said' = raw
        /\ choice' = Selection(Reranked(raw, [d \in docs |-> CHOOSE i \in DOMAIN seq : seq[i] = d]))
        /\ order' = SortedBy(Asked, choice') \o SubSeq(order, Len(Asked) + 1, Len(order))
  BY <1>19
<1>3. /\ UNCHANGED <<mode, merging, base, signal, answer>>
      /\ stage = "rank" /\ stage' = "select"
  BY DEF Rerank
<1>4. /\ mode \in {"rerank_only", "base_only", "fused"} /\ D \subseteq HitIds
      /\ base \in [D -> 1 .. MaxScore] /\ MaxScore \in Nat
  <2>1. base \in Maps(HitIds, 1 .. MaxScore) /\ mode \in {"rerank_only", "base_only", "fused"}
    BY DEF RetrievalInv, RetrievalTypeOK
  <2> QED BY <2>1, MapsAre, RetrievalConstants
<1>5. Asked \in [1 .. k -> D] /\ DOMAIN Asked = 1 .. k /\ A \subseteq D
  BY <1>1 DEF ARow, Range
<1>6. IsFiniteSet(A) /\ IsFiniteSet(docs) /\ docs \in SUBSET D
  <2> DEFINE N == 1 .. k
  <2>1. IsFiniteSet(N) /\ DOMAIN Asked = N
    BY <1>5, FS_Interval
  <2>2. A = {Asked[i] : i \in N}
    BY <1>5 DEF Range
  <2> HIDE DEF N
  <2>3. IsFiniteSet(A)
    BY <2>1, <2>2, RangeIsFinite
  <2> QED BY <1>5, <2>3, FS_Subset
<1> DEFINE rank == [d \in docs |-> CHOOSE i \in DOMAIN seq : seq[i] = d]
           scores == Reranked(raw, rank)
<1>7. \A d \in docs : rank[d] \in Int
  <2>1. DOMAIN seq = 1 .. Cardinality(docs) /\ \A d \in docs : \E i \in DOMAIN seq : seq[i] = d
    BY DEF Orders, Range
  <2>2. \A d \in docs : rank[d] \in DOMAIN seq
    BY <2>1
  <2> HIDE DEF rank
  <2>3. 1 .. Cardinality(docs) \subseteq Int
    OBVIOUS
  <2> QED BY <2>1, <2>2, <2>3
<1>8. choice' = Selection(scores)
  BY <1>2
<1> HIDE DEF rank
<1>9. /\ scores \in [A -> Int]
      /\ \A d, a \in docs : raw[d] > raw[a] => scores[d] > scores[a] /\ scores[a] >= 0
  <2> HIDE DEF scores
  <2>1. scores = Reranked(raw, rank)
    BY DEF scores
  <2> QED BY <1>1, <1>6, <1>7, <2>1, RerankedIs
<1> HIDE DEF scores
<1>10. /\ choice' \in [D -> Int]
       /\ mode = "rerank_only" => \A d \in A : choice'[d] = scores[d]
  BY <1>1, <1>4, <1>8, <1>9, SelectionIs
<1> DEFINE t == SortedBy(Asked, choice')
<1>11. /\ ARow(t, k, D) /\ Range(t) = A
       /\ \A d, a \in A : choice'[d] > choice'[a] => InFront(t, d, a)
  <2> HIDE DEF t
  <2>1. \A x \in Range(Asked) : choice'[x] \in Int
    BY <1>5, <1>10
  <2>2. t = SortedBy(Asked, choice')
    BY DEF t
  <2> QED BY <1>1, <2>1, <2>2, SortedIs
<1>12. order' = Ahead(t, order, k, n)
  BY <1>1, <1>2 DEF Ahead
<1> HIDE DEF t
<1>13. ARow(order', n, D) /\ \A d : \A a \in Range(t) : InFront(t, d, a) => InFront(order', d, a)
  <2>1. \A x \in Range(t) : \E i \in 1 .. k : order[i] = x
    BY <1>1, <1>5, <1>11 DEF Range
  <2> HIDE DEF D
  <2> QED BY <1>1, <1>11, <1>12, <2>1, TailKeeps
<1>14. PoolInv'
  BY <1>3, PoolStays DEF RetrievalInv, merging
<1>15. said' \in Maps(D, 0 .. MaxScore) /\ said' # None /\ DOMAIN said' = docs
  <2>1. said' \in Maps(D, 0 .. MaxScore)
    BY <1>2, <1>6, MapsAre
  <2>2. docs \in SUBSET (Events \cup Turns)
    BY <1>4, <1>6 DEF HitIds
  <2>3. said' # None
    BY <1>2, <2>2, RetrievalConstants
  <2> QED BY <1>2, <2>1, <2>3
<1>16. RetrievalTypeOK'
  <2>1. base' = base /\ signal' = signal /\ answer' = answer /\ mode' = mode /\ route' = route
    BY <1>3 DEF merging
  <2>2. IsARow(order', D)
    BY <1>13 DEF IsARow
  <2> QED BY <1>3, <1>10, <1>14, <1>15, <2>1, <2>2 DEF RetrievalInv, RetrievalTypeOK, PoolInv
<1>17. Judged'
  <2>1. base' = base /\ mode' = mode
    BY <1>3
  <2>2. ASSUME NEW d \in D, NEW a \in D, Preferred(d, a)'
        PROVE  choice'[d] > choice'[a] /\ choice'[a] >= 0 /\ InFront(order', d, a)
    <3>1. mode = "rerank_only" /\ d \in docs /\ a \in docs /\ raw[d] > raw[a]
      BY <1>2, <1>15, <2>1, <2>2 DEF Preferred
    <3>2. d \in A /\ a \in A
      BY <3>1
    <3>3. choice'[d] = scores[d] /\ choice'[a] = scores[a]
      BY <1>10, <3>1, <3>2
    <3>4. choice'[d] > choice'[a] /\ choice'[a] >= 0
      BY <1>9, <3>1, <3>3
    <3>5. InFront(order', d, a)
      BY <1>11, <1>13, <3>2, <3>4
    <3> QED BY <3>4, <3>5
  <2> QED BY <1>15, <2>1, <2>2 DEF Judged
<1>18. Stages' /\ AnswerFollows'
  BY <1>3 DEF RetrievalInv, Stages, AnswerFollows
<1> QED BY <1>14, <1>16, <1>17, <1>18 DEF RetrievalInv

LEMMA AnswerRanks ==
  ASSUME RetrievalInv, Answer
  PROVE  RetrievalInv'
<1> DEFINE D == DOMAIN base
           f == [d \in Range(order) |-> Final(d)]
           t == SortedBy(order, f)
<1>1. /\ UNCHANGED <<route, mode, order, base, said, choice, signal>>
      /\ stage = "order" /\ stage' = "answered" /\ answer' = FirstOf(t, TopK)
  BY DEF Answer, merging
<1>2. PoolInv'
  BY PoolStays DEF RetrievalInv, Answer, merging
<1>3. /\ base \in [D -> 1 .. MaxScore] /\ choice \in [D -> Int] /\ signal \in [D -> 0 .. 1]
      /\ MaxScore \in Nat /\ SignalWeight \in Nat /\ TopK \in Nat
  <2>1. /\ base \in Maps(HitIds, 1 .. MaxScore) /\ choice \in [D -> Int]
        /\ signal \in Maps(D, 0 .. 1) /\ DOMAIN signal = D
    BY <1>1 DEF RetrievalInv, RetrievalTypeOK, Stages
  <2> QED BY <2>1, MapsAre, RetrievalConstants
<1>4. PICK n \in Nat : ARow(order, n, D)
  BY DEF RetrievalInv, RetrievalTypeOK, IsARow
<1>5. Range(order) \subseteq D /\ DOMAIN order = 1 .. n
  BY <1>4 DEF ARow, Range
<1>6. \A d \in D : /\ Value(d) \in Int /\ SignalWeight * signal[d] \in {0, SignalWeight}
                   /\ Final(d) \in Int
  <2> SUFFICES ASSUME NEW d \in D
               PROVE  /\ Value(d) \in Int /\ SignalWeight * signal[d] \in {0, SignalWeight}
                      /\ Final(d) \in Int
    OBVIOUS
  <2>1. base[d] \in 1 .. MaxScore /\ choice[d] \in Int /\ (signal[d] = 0 \/ signal[d] = 1)
    BY <1>3
  <2>2. Value(d) \in Int
    BY <1>3, <2>1 DEF Value
  <2>3. SignalWeight * 0 = 0 /\ SignalWeight * 1 = SignalWeight
    BY <1>3
  <2>4. SignalWeight * signal[d] \in {0, SignalWeight}
    BY <2>1, <2>3
  <2>5. Final(d) \in Int
    BY <1>3, <2>2, <2>4 DEF Final
  <2> QED BY <2>2, <2>4, <2>5
<1>7. \A x \in Range(order) : f[x] = Final(x) /\ f[x] \in Int
  BY <1>5, <1>6
<1> HIDE DEF f
<1>8. /\ ARow(t, n, D) /\ Range(t) = Range(order)
      /\ \A d, a \in Range(order) : f[d] > f[a] => InFront(t, d, a)
  <2> HIDE DEF t, D
  <2>1. t = SortedBy(order, f)
    BY DEF t
  <2> QED BY <1>4, <1>7, <2>1, SortedIs
<1> HIDE DEF t
<1>9. IsARow(answer', D) /\ \A d, a : InFront(t, d, a) => InFront(answer', d, a)
  <2>1. IsARow(t, D)
    BY <1>8 DEF IsARow
  <2> QED BY <1>1, <1>3, <2>1, FirstOfKeeps
<1>10. Range(answer') \subseteq Range(order)
  <2> DEFINE k == IF TopK <= n THEN TopK ELSE n
             u == FirstOf(t, TopK)
  <2>1. k = (IF TopK <= n THEN TopK ELSE n) /\ u = FirstOf(t, TopK)
    OBVIOUS
  <2>2. answer' = u
    BY <1>1
  <2> HIDE DEF k, u
  <2>3. k \in 0 .. n /\ ARow(u, k, D) /\ \A i \in 1 .. k : u[i] = t[i]
    BY <1>3, <1>8, <2>1, FirstOfIs
  <2>4. DOMAIN u = 1 .. k /\ DOMAIN t = 1 .. n /\ 1 .. k \subseteq 1 .. n
    BY <1>8, <2>3 DEF ARow
  <2>5. \A i \in DOMAIN u : u[i] \in Range(t)
    BY <2>3, <2>4 DEF Range
  <2> QED BY <1>8, <2>2, <2>5 DEF Range
<1>11. RetrievalTypeOK'
  BY <1>1, <1>2, <1>9 DEF RetrievalInv, RetrievalTypeOK, PoolInv
<1>12. Judged' /\ Stages'
  BY <1>1 DEF RetrievalInv, Judged, Preferred, Stages
<1>13. AnswerFollows'
  <2> SUFFICES ASSUME NEW i \in DOMAIN answer', NEW d \in D,
                      IF said = None THEN base[d] > base[answer'[i]]
                      ELSE /\ mode = "rerank_only" /\ {answer'[i], d} \subseteq DOMAIN said
                           /\ said[d] > said[answer'[i]] /\ choice[answer'[i]] # 0,
                      \/ SignalWeight = 0
                      \/ /\ {answer'[i], d} \subseteq DOMAIN signal
                         /\ signal[d] >= signal[answer'[i]]
               PROVE  \E j \in 1 .. (i - 1) : answer'[j] = d
    BY <1>1 DEF AnswerFollows
  <2> DEFINE a == answer'[i]
  <2>1. a \in Range(order) /\ a \in D
    BY <1>5, <1>10 DEF Range
  <2>2. Preferred(d, a)
    BY DEF Preferred
  <2>3. choice[d] > choice[a] /\ choice[a] >= 0 /\ InFront(order, d, a)
    BY <2>1, <2>2 DEF RetrievalInv, Judged
  <2>4. d \in Range(order)
    <3>1. PICK x \in 1 .. n : order[x] = a
      BY <1>5, <2>1 DEF Range
    <3>2. PICK y \in 1 .. (x - 1) : order[y] = d
      BY <1>5, <2>3, <3>1 DEF InFront
    <3>3. y \in 1 .. n
      OBVIOUS
    <3> QED BY <1>5, <3>2, <3>3 DEF Range
  <2>5. choice[a] # 0 /\ choice[d] # 0
    <3>1. said = None => choice = base
      BY DEF RetrievalInv, Judged
    <3>2. choice[a] \in Int /\ choice[d] \in Int /\ base[a] \in 1 .. MaxScore
      BY <1>3, <2>1
    <3>3. base[a] # 0
      BY <1>3, <3>2
    <3> QED BY <2>3, <3>1, <3>2, <3>3
  <2>6. Value(d) = choice[d] /\ Value(a) = choice[a]
    BY <2>5 DEF Value
  <2>7. SignalWeight * signal[d] >= SignalWeight * signal[a]
    <3>1. signal[d] \in {0, 1} /\ signal[a] \in {0, 1}
      <4>1. signal[d] \in 0 .. 1 /\ signal[a] \in 0 .. 1
        BY <1>3, <2>1
      <4> QED BY <4>1
    <3>2. SignalWeight * 0 = 0 /\ SignalWeight * 1 = SignalWeight /\ SignalWeight >= 0
      BY <1>3
    <3> QED BY <1>3, <3>1, <3>2
  <2>8. Final(d) > Final(a)
    <3> DEFINE x == SignalWeight * signal[d]
               y == SignalWeight * signal[a]
    <3>1. x \in Int /\ y \in Int /\ x >= y
      BY <1>3, <1>6, <2>1, <2>7
    <3>2. Final(d) = choice[d] + x /\ Final(a) = choice[a] + y
      BY <2>6 DEF Final
    <3>3. choice[d] \in Int /\ choice[a] \in Int
      BY <1>3, <2>1
    <3> HIDE DEF x, y, a
    <3> QED BY <2>3, <3>1, <3>2, <3>3
  <2>9. InFront(answer', d, a)
    <3>1. f[d] = Final(d) /\ f[a] = Final(a)
      BY <1>7, <2>1, <2>4
    <3>2. InFront(t, d, a)
      BY <1>8, <2>1, <2>4, <2>8, <3>1
    <3> QED BY <1>9, <3>2
  <2> QED BY <2>9 DEF InFront
<1> QED BY <1>2, <1>11, <1>12, <1>13 DEF RetrievalInv

LEMMA RetrievalKeeps == RetrievalInv /\ [RetrievalNext]_retrievalVars => RetrievalInv'
<1> SUFFICES ASSUME RetrievalInv, [RetrievalNext]_retrievalVars PROVE RetrievalInv'
  OBVIOUS
<1>1. ASSUME NEW h, Touch(h) PROVE RetrievalInv'
  BY <1>1, TouchRanks
<1>2. CASE NextRoute
  BY <1>2, NextRouteRanks
<1>3. CASE Score
  BY <1>3, ScoreRanks
<1>4. CASE Rerank
  BY <1>4, RerankRanks
<1>5. CASE NoRerank
  BY <1>5, NoRerankRanks
<1>6. CASE Select
  BY <1>6, SelectRanks
<1>7. CASE Explain
  BY <1>7, ExplainRanks
<1>8. CASE Answer
  BY <1>8, AnswerRanks
<1>9. CASE UNCHANGED retrievalVars
  <2>1. UNCHANGED <<stage, route, mode, order, ranking, pool, byEvent, byTurn, seen>>
    BY <1>9 DEF retrievalVars, merging
  <2>2. PoolInv'
    BY <2>1, PoolStays DEF RetrievalInv
  <2>3. RetrievalTypeOK'
    BY <2>1, <2>2 DEF RetrievalInv, RetrievalTypeOK, PoolInv, ranking
  <2>4. Judged' /\ Stages' /\ AnswerFollows'
    BY <2>1 DEF RetrievalInv, Judged, Preferred, Stages, AnswerFollows, ranking
  <2> QED BY <2>2, <2>3, <2>4 DEF RetrievalInv
<1> QED BY <1>1, <1>2, <1>3, <1>4, <1>5, <1>6, <1>7, <1>8, <1>9 DEF RetrievalNext

LEMMA RetrievalIsSound == RetrievalSpec => []RetrievalInv
BY RetrievalStart, RetrievalKeeps, PTL DEF RetrievalSpec

\* The state of a request has its types: what is ordered and what is answered
\* are rows of different candidates, each with a base score and a selection score.
THEOREM RetrievalTypes == RetrievalSpec => []RetrievalTypeOK
<1>1. RetrievalInv => RetrievalTypeOK
  BY DEF RetrievalInv
<1> QED BY <1>1, RetrievalIsSound, PTL

\* However the hits of the routes fall together, the pool has every hit's score
\* in a candidate of its event and none that no hit has; and the answer goes by
\* whoever judged last, the reranker or the base scores.
THEOREM AnAnswerIsSupported == RetrievalSpec => []AnswerIsSupported
<1>1. RetrievalInv => AnswerIsSupported
  BY SupportedPool DEF RetrievalInv, AnswerIsSupported
<1> QED BY <1>1, RetrievalIsSound, PTL
=============================================================================
