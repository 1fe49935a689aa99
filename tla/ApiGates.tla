---------------------------- MODULE ApiGates ---------------------------
(***************************************************************************)
(* What stands before and around the handlers of the HTTP API: the token   *)
(* bucket of each tenant for calls that change something, the circuit      *)
(* breaker of each costly query, and the clear of a tenant, which one lock *)
(* guards and which takes nine steps over three stores, any of which may   *)
(* fail.  They share the clock, and nothing else.                          *)
(***************************************************************************)
EXTENDS Naturals, Sequences, FiniteSets

CONSTANTS
  Tenants,
  Rate, Whole, Burst,    \* a bucket gets Rate / Whole tokens per unit of time
  Queries,               \* costly queries in progress at the same time
  Threshold, Cooldown,   \* of the breaker
  Clears,                \* clears of one tenant in progress at the same time
  Entries,               \* of that tenant
  Nobody,
  MaxTime, MaxCalls, MaxFaults   \* bounds of the check

ASSUME GateAssumption ==
  /\ Rate \in Nat /\ Whole \in Nat \ {0} /\ Burst \in Nat
  /\ Threshold \in Nat \ {0} /\ Cooldown \in Nat \ {0}
  /\ Nobody \notin Clears
  /\ {MaxTime, MaxCalls, MaxFaults} \subseteq Nat

VARIABLES
  now,
  bucket,       \* TenantRateLimiter._buckets: [last, parts], none if unknown
  admitted,     \* history: when each tenant's calls were let through
  failures, openUntil,   \* SimpleCircuitBreaker
  query,        \* per query: whether it is in progress
  streak,       \* history: failures since the last success
  tripped,      \* history: when the breaker last opened
  lock,         \* who holds the tenant's clear lock
  clear,        \* per clear: its steps to go, and what it knows
  vectors, nodes, jobs,  \* the stores: nodes[e] is "none", "tenant" or "legacy"
  writing,      \* entries whose vector is written and whose node is not
  old,          \* history: what the clear found when it began and is to remove
  wiped,        \* history: the last clear reported that it was completed
  calls, faults

limits == <<bucket, admitted>>
breaker == <<failures, openUntil, query, streak, tripped>>
stores == <<vectors, nodes, jobs, writing>>
wipe == <<lock, clear, stores, old, wiped>>
vars == <<now, limits, breaker, wipe, calls, faults>>

Call == calls < MaxCalls /\ calls' = calls + 1
Fault == faults < MaxFaults /\ faults' = faults + 1

-----------------------------------------------------------------------------
(* TenantRateLimiter.allow                                                 *)

Full == Burst * Whole
Least(a, b) == IF a < b THEN a ELSE b
NoBucket == << >>

MutantRefilled(b) ==                  \* the unit that is not over counts
  Least(Full, b.parts + (now - b.last + 1) * Rate)
Refilled(b) ==
  IF Rate = 0 THEN b.parts ELSE Least(Full, b.parts + (now - b.last) * Rate)

Tokens(t) == IF bucket[t] = NoBucket THEN Full ELSE Refilled(bucket[t])

Allow(t) ==
  /\ Call
  /\ IF Tokens(t) < Whole
     THEN /\ bucket' = [bucket EXCEPT ![t] = [last |-> now, parts |-> Tokens(t)]]
          /\ UNCHANGED admitted
     ELSE /\ bucket' = [bucket EXCEPT ![t] = [last |-> now, parts |-> Tokens(t) - Whole]]
          /\ admitted' = [admitted EXCEPT ![t] = Append(@, now)]
  /\ UNCHANGED <<now, breaker, wipe, faults>>

-----------------------------------------------------------------------------
(* SimpleCircuitBreaker, and the handlers that are behind it.              *)

\* An open breaker answers 503, and nothing else happens.
Ask(q) ==
  /\ ~query[q] /\ Call
  /\ query' = [query EXCEPT ![q] = now >= openUntil]
  /\ UNCHANGED <<now, limits, failures, openUntil, streak, tripped, wipe, faults>>

\* Also an error of the caller's (4xx), and also when the breaker has opened
\* since the query began.
MutantCleared == failures           \* only closes the breaker
Cleared == 0

Succeed(q) ==
  /\ query[q] /\ query' = [query EXCEPT ![q] = FALSE]
  /\ failures' = Cleared /\ openUntil' = 0 /\ streak' = 0
  /\ UNCHANGED <<now, limits, tripped, wipe, calls, faults>>

Trips == failures + 1 >= Threshold

\* A timeout, an error of ours, or any other exception.
Fail(q) ==
  /\ query[q] /\ query' = [query EXCEPT ![q] = FALSE]
  /\ streak' = streak + 1
  /\ IF Trips THEN failures' = 0 /\ openUntil' = now + Cooldown /\ tripped' = now
     ELSE failures' = failures + 1 /\ UNCHANGED <<openUntil, tripped>>
  /\ UNCHANGED <<now, limits, wipe, calls, faults>>

\* The caller has gone: a cancelled query counts for nothing.
Leave(q) ==
  /\ query[q] /\ query' = [query EXCEPT ![q] = FALSE]
  /\ UNCHANGED <<now, limits, failures, openUntil, streak, tripped, wipe, calls, faults>>

-----------------------------------------------------------------------------
(* memory_clear                                                            *)

MutantSteps ==                        \* the ids are listed too late
  <<"count_vectors", "count_jobs", "count_graph", "count_legacy",
    "delete_vectors", "list_ids", "clear_jobs", "purge_graph", "purge_legacy">>
Steps == <<"count_vectors", "count_jobs", "list_ids", "count_graph", "count_legacy",
           "delete_vectors", "clear_jobs", "purge_graph", "purge_legacy">>
DrySteps == <<"count_vectors", "count_jobs", "list_ids", "count_graph", "count_legacy">>

NoClear == [todo |-> << >>, dry |-> FALSE, ids |-> {}, partial |-> FALSE]
Inside(k) == clear[k].todo # << >>
Present == vectors \cup {e \in Entries : nodes[e] # "none"} \cup jobs

\* A node of an earlier version is found through the vector of its entry only.
\* Without one - after a hard delete, which removes no node, or a clear that got
\* half way - it is out of reach.
Lost == {e \in Entries : nodes[e] = "legacy" /\ e \notin vectors}

\* A second clear is answered 409: nothing runs between the look at the lock and
\* its acquisition.
Busy == lock # Nobody

BeginClear(k, dry) ==
  /\ ~Inside(k) /\ ~Busy /\ Call
  /\ lock' = k
  /\ clear' = [clear EXCEPT ![k] =
       [NoClear EXCEPT !.todo = IF dry THEN DrySteps ELSE Steps, !.dry = dry]]
  /\ old' = IF dry THEN {} ELSE Present \ (writing \cup Lost)
  /\ wiped' = FALSE
  /\ UNCHANGED <<now, limits, breaker, stores, faults>>

Effect(k, step) ==
  /\ vectors' = IF step = "delete_vectors" THEN {} ELSE vectors
  /\ jobs' = IF step = "clear_jobs" THEN {} ELSE jobs
  /\ nodes' = [e \in Entries |->
       IF \/ step = "purge_graph" /\ nodes[e] = "tenant"
          \/ step = "purge_legacy" /\ nodes[e] = "legacy" /\ e \in clear[k].ids
       THEN "none" ELSE nodes[e]]

\* The last step leads to the answer, and the lock is released.
Goes(k, ids, partial) ==
  LET rest == Tail(clear[k].todo)
      done == rest = << >>
  IN /\ clear' = [clear EXCEPT ![k] =
          IF done THEN NoClear
          ELSE [@ EXCEPT !.todo = rest, !.ids = ids, !.partial = partial]]
     /\ lock' = IF done THEN Nobody ELSE lock
     /\ wiped' = (done /\ ~clear[k].dry /\ ~partial)

Step(k) ==
  /\ Inside(k)
  /\ LET step == Head(clear[k].todo) IN
       \/ /\ Effect(k, step)
          /\ Goes(k, IF step = "list_ids" THEN vectors ELSE clear[k].ids, clear[k].partial)
          /\ UNCHANGED faults
       \/ /\ Fault /\ Goes(k, clear[k].ids, TRUE)
          /\ UNCHANGED <<vectors, jobs, nodes>>
  /\ UNCHANGED <<now, limits, breaker, writing, old, calls>>

\* The request is cancelled or the process ends.
Cut(k) ==
  /\ Inside(k) /\ Fault
  /\ clear' = [clear EXCEPT ![k] = NoClear] /\ lock' = Nobody
  /\ wiped' = FALSE
  /\ UNCHANGED <<now, limits, breaker, stores, old, calls>>

\* Others go on writing: vector first, then the node.
WriteVector(e) ==
  /\ Call /\ e \notin writing
  /\ vectors' = vectors \cup {e} /\ writing' = writing \cup {e}
  /\ old' = old \ {e}
  /\ UNCHANGED <<now, limits, breaker, lock, clear, nodes, jobs, wiped, faults>>

WriteNode(e) ==
  /\ e \in writing
  /\ nodes' = [nodes EXCEPT ![e] = "tenant"]
  /\ writing' = writing \ {e}
  /\ UNCHANGED <<now, limits, breaker, lock, clear, vectors, jobs, old, wiped, calls,
                 faults>>

\* A hard delete: the vector goes, the node of the entry stays (delete_node does
\* nothing).  What a clear has not listed by then it will not find.
DeleteVector(e) ==
  /\ Call /\ e \in vectors
  /\ vectors' = vectors \ {e}
  /\ old' = IF nodes[e] = "legacy" THEN old \ {e} ELSE old
  /\ UNCHANGED <<now, limits, breaker, lock, clear, nodes, jobs, writing, wiped, faults>>

-----------------------------------------------------------------------------

Tick ==
  /\ now < MaxTime /\ now' = now + 1
  /\ UNCHANGED <<limits, breaker, wipe, calls, faults>>

\* Nodes without a tenant are from an earlier version.
GatesInit ==
  /\ now = 0
  /\ bucket = [t \in Tenants |-> NoBucket]
  /\ admitted = [t \in Tenants |-> << >>]
  /\ failures = 0 /\ openUntil = 0 /\ query = [q \in Queries |-> FALSE]
  /\ streak = 0 /\ tripped = 0
  /\ lock = Nobody /\ clear = [k \in Clears |-> NoClear]
  /\ vectors \in SUBSET Entries /\ jobs \in SUBSET Entries
  /\ nodes \in [Entries -> {"none", "tenant", "legacy"}]
  /\ writing = {} /\ old = {} /\ wiped = FALSE
  /\ calls = 0 /\ faults = 0

LimitNext == (\E t \in Tenants : Allow(t)) \/ Tick
BreakerNext == (\E q \in Queries : Ask(q) \/ Succeed(q) \/ Fail(q) \/ Leave(q)) \/ Tick
ClearNext ==
  \/ \E k \in Clears : (\E dry \in BOOLEAN : BeginClear(k, dry)) \/ Step(k) \/ Cut(k)
  \/ \E e \in Entries : WriteVector(e) \/ WriteNode(e) \/ DeleteVector(e)

GatesNext == LimitNext \/ BreakerNext \/ ClearNext
GatesSpec == GatesInit /\ [][GatesNext]_vars

-----------------------------------------------------------------------------
(* Properties                                                              *)

GatesTypeOK ==
  /\ now \in 0 .. MaxTime /\ calls \in 0 .. MaxCalls /\ faults \in 0 .. MaxFaults
  /\ \A t \in Tenants :
       bucket[t] = NoBucket \/ bucket[t] \in [last : 0 .. now, parts : 0 .. Full]
  /\ failures \in 0 .. Threshold - 1 /\ openUntil \in 0 .. MaxTime + Cooldown
  /\ query \in [Queries -> BOOLEAN]
  /\ vectors \subseteq Entries /\ jobs \subseteq Entries /\ writing \subseteq Entries
  /\ nodes \in [Entries -> {"none", "tenant", "legacy"}]
  /\ lock \in Clears \cup {Nobody}
  /\ old \subseteq Entries /\ wiped \in BOOLEAN

\* Between any call and any later one there were no more than a burst of calls
\* and what the rate allows for the time in between.
Fits(times) ==
  \A i \in DOMAIN times : \A j \in i .. Len(times) :
    (j - i + 1) * Whole <= Full + Rate * (times[j] - times[i])

\* The bucket keeps every tenant within its rate and burst over every interval,
\* whatever the pattern of calls, refused ones included.
RateBounded == \A t \in Tenants : Fits(admitted[t])

\* The breaker is open only within its cooldown after as many failures in a row
\* as its threshold, and it is opened by every such row, although answers come in
\* any order and some belong to queries that began before it opened.
BreakerFollowsStreak ==
  /\ failures = streak % Threshold
  /\ openUntil # 0 <=> streak >= Threshold
  /\ openUntil # 0 => openUntil = tripped + Cooldown

\* One clear at a time, and no lock without one, after a failure or a cut as well.
ClearsExclude ==
  \A k \in Clears : Inside(k) <=> lock = k

\* A clear that reports it is completed has emptied the vector store, the graph
\* and the job store of everything that was there when it began, whatever is
\* written meanwhile and whatever earlier clears left half done - but for the
\* nodes of an earlier version whose entry has no vector, which no clear finds.
WipeIsTotal ==
  wiped => \A e \in old : e \notin vectors \cup jobs /\ nodes[e] = "none"
=============================================================================
