--------------------------- MODULE ApiGatesProofs ---------------------------
(***************************************************************************)
(* The gates keep what they promise for any number of tenants, queries,    *)
(* clears and entries, and any rate, burst, threshold and cooldown.  They  *)
(* share only the clock, so each of them has an invariant of its own.  So  *)
(* have the queries behind them, for any events, entities and topics, any  *)
(* dates and any limits.                                                   *)
(***************************************************************************)
EXTENDS ApiGates, SemanticQueries, Integers, FiniteSetTheorems, SequenceTheorems,
        WellFoundedInduction, TLAPS

ClockOK == now \in Nat

LEMMA ClockInit == GatesInit => ClockOK
  BY DEF GatesInit, ClockOK

LEMMA ClockStep ==
  ASSUME ClockOK, [GatesNext]_vars
  PROVE  ClockOK' /\ now' >= now
<1> USE DEF ClockOK
<1>1. CASE Tick BY <1>1 DEF Tick
<1>2. CASE \E t \in Tenants : Allow(t) BY <1>2 DEF Allow
<1>3. CASE \E q \in Queries : Ask(q) \/ Succeed(q) \/ Fail(q) \/ Leave(q)
  BY <1>3 DEF Ask, Succeed, Fail, Leave
<1>4. CASE ClearNext
  <2>1. CASE \E k \in Clears : \E dry \in BOOLEAN : BeginClear(k, dry)
    BY <2>1 DEF BeginClear
  <2>2. CASE \E k \in Clears : Step(k)
    <3>1. PICK k \in Clears : Step(k) BY <2>2
    <3>2. UNCHANGED <<now, limits, breaker, writing, old, calls>> BY <3>1 DEF Step
    <3> QED BY <3>2
  <2>3. CASE \E k \in Clears : Cut(k)
    <3>1. PICK k \in Clears : Cut(k) BY <2>3
    <3>2. UNCHANGED <<now, limits, breaker, stores, old, calls>> BY <3>1 DEF Cut
    <3> QED BY <3>2
  <2>4. CASE \E e \in Entries : WriteVector(e) BY <2>4 DEF WriteVector
  <2>5. CASE \E e \in Entries : WriteNode(e) \/ DeleteVector(e)
    BY <2>5 DEF WriteNode, DeleteVector
  <2> QED BY <1>4, <2>1, <2>2, <2>3, <2>4, <2>5 DEF ClearNext
<1>5. CASE UNCHANGED vars BY <1>5 DEF vars
<1> QED BY <1>1, <1>2, <1>3, <1>4, <1>5 DEF GatesNext, LimitNext, BreakerNext

-----------------------------------------------------------------------------
(* The breaker.                                                            *)

LEMMA Remainder ==
  ASSUME NEW T \in Nat \ {0}, NEW q \in Int, NEW r \in 0 .. T - 1
  PROVE  (q * T + r) % T = r
  OBVIOUS

LEMMA Divided ==
  ASSUME NEW s \in Nat, NEW T \in Nat \ {0}
  PROVE  s = (s \div T) * T + (s % T) /\ s \div T \in Nat /\ s % T \in 0 .. T - 1
  OBVIOUS

\* A counter that is reset at its threshold is the remainder of one that is not.
LEMMA NextRemainder ==
  ASSUME NEW s \in Nat, NEW T \in Nat \ {0}
  PROVE  (s + 1) % T = IF (s % T) + 1 >= T THEN 0 ELSE (s % T) + 1
<1>1. PICK q \in Nat, r \in 0 .. T - 1 : s = q * T + r /\ s % T = r
  BY Divided
<1>2. CASE r + 1 >= T
  <2>1. r + 1 = T BY <1>2
  <2>2. s + 1 = (q + 1) * T + 0 BY <1>1, <2>1
  <2>3. q + 1 \in Int /\ 0 \in 0 .. T - 1 OBVIOUS
  <2>4. ((q + 1) * T + 0) % T = 0 BY <2>3, Remainder
  <2> QED BY <1>1, <1>2, <2>2, <2>4
<1>3. CASE r + 1 < T
  <2>1. s + 1 = q * T + (r + 1) BY <1>1
  <2>2. r + 1 \in 0 .. T - 1 BY <1>3
  <2>3. (q * T + (r + 1)) % T = r + 1 BY <2>2, Remainder
  <2> QED BY <1>1, <1>3, <2>1, <2>3
<1> QED BY <1>2, <1>3

LEMMA SmallRemainder ==
  ASSUME NEW s \in Nat, NEW T \in Nat \ {0}
  PROVE  s % T <= s /\ (s < T => s % T = s) /\ 0 % T = 0
  OBVIOUS

BreakerInv ==
  /\ streak \in Nat /\ openUntil \in Nat /\ tripped \in Nat
  /\ BreakerFollowsStreak

LEMMA BreakerInit == GatesInit => BreakerInv
  BY GateAssumption, SmallRemainder DEF GatesInit, BreakerInv, BreakerFollowsStreak

LEMMA FailKeeps ==
  ASSUME ClockOK, BreakerInv, NEW q \in Queries, Fail(q)
  PROVE  BreakerInv'
<1> DEFINE s == streak
           T == Threshold
<1>0. T \in Nat \ {0} /\ Cooldown \in Nat \ {0} /\ s \in Nat /\ now \in Nat
  BY GateAssumption DEF BreakerInv, ClockOK
<1>1. /\ streak' = s + 1 /\ failures = s % T
      /\ s % T <= s /\ (s < T => s % T = s) /\ s % T \in Nat
  <2>1. streak' = s + 1 BY DEF Fail
  <2>2. failures = s % T BY DEF BreakerInv, BreakerFollowsStreak
  <2>3. s % T \in 0 .. T - 1 BY <1>0, Divided
  <2>4. s % T <= s /\ (s < T => s % T = s) BY <1>0, SmallRemainder
  <2> QED BY <1>0, <2>1, <2>2, <2>3, <2>4
<1>2. (s + 1) % T = IF (s % T) + 1 >= T THEN 0 ELSE (s % T) + 1
  BY <1>0, NextRemainder
<1>3. CASE Trips
  <2>1. failures' = 0 /\ openUntil' = now + Cooldown /\ tripped' = now
    BY <1>3 DEF Fail
  <2>2. s + 1 >= T BY <1>0, <1>1, <1>3 DEF Trips
  <2> QED BY <1>0, <1>1, <1>2, <1>3, <2>1, <2>2
          DEF BreakerInv, BreakerFollowsStreak, Trips
<1>4. CASE ~Trips
  <2>1. failures' = failures + 1 /\ openUntil' = openUntil /\ tripped' = tripped
    BY <1>4 DEF Fail
  <2>2. s + 1 >= T <=> s >= T BY <1>0, <1>1, <1>4 DEF Trips
  <2> QED BY <1>0, <1>1, <1>2, <1>4, <2>1, <2>2
          DEF BreakerInv, BreakerFollowsStreak, Trips
<1> QED BY <1>3, <1>4

LEMMA BreakerStep ==
  ASSUME ClockOK, BreakerInv, [GatesNext]_vars
  PROVE  BreakerInv'
<1>1. CASE \E q \in Queries : Fail(q) BY <1>1, FailKeeps
<1>2. CASE \E q \in Queries : Succeed(q)
  BY <1>2, GateAssumption, SmallRemainder
     DEF Succeed, Cleared, BreakerInv, BreakerFollowsStreak
<1>3. ASSUME UNCHANGED <<failures, openUntil, streak, tripped>> PROVE BreakerInv'
  BY <1>3 DEF BreakerInv, BreakerFollowsStreak
<1>4. CASE \E q \in Queries : Ask(q) \/ Leave(q) BY <1>3, <1>4 DEF Ask, Leave
<1>5. CASE LimitNext BY <1>3, <1>5 DEF LimitNext, Allow, Tick, breaker
<1>6. CASE ClearNext
  BY <1>3, <1>6 DEF ClearNext, BeginClear, Step, Cut, WriteVector, WriteNode, DeleteVector,
     breaker
<1>7. CASE UNCHANGED vars BY <1>3, <1>7 DEF vars, breaker
<1> QED BY <1>1, <1>2, <1>4, <1>5, <1>6, <1>7 DEF GatesNext, BreakerNext, LimitNext

\* The breaker is open within the cooldown of a row of failures and at no other
\* time, in whatever order the queries that are under way end.
THEOREM BreakerIsRight == GatesSpec => []BreakerFollowsStreak
<1>1. GatesInit => ClockOK /\ BreakerInv BY ClockInit, BreakerInit
<1>2. (ClockOK /\ BreakerInv) /\ [GatesNext]_vars => (ClockOK /\ BreakerInv)'
  BY ClockStep, BreakerStep
<1>3. ClockOK /\ BreakerInv => BreakerFollowsStreak BY DEF BreakerInv
<1> QED BY <1>1, <1>2, <1>3, PTL DEF GatesSpec

-----------------------------------------------------------------------------
(* The clear of a tenant.                                                  *)

\* What is left of a clear after n of its steps.
From(steps, n) == [i \in 1 .. Len(steps) - n |-> steps[n + i]]

LEMMA FromOn ==
  ASSUME NEW X, NEW S \in Seq(X), NEW n \in 0 .. Len(S)
  PROVE  /\ From(S, n) \in Seq(X)
         /\ n < Len(S) => /\ From(S, n) # << >> /\ Head(From(S, n)) = S[n + 1]
                          /\ Tail(From(S, n)) = From(S, n + 1)
         /\ n = Len(S) => From(S, n) = << >>
         /\ From(S, 0) = S
<1>1. From(S, n) \in Seq(X) /\ Len(From(S, n)) = Len(S) - n
  BY DEF From
<1>2. ASSUME n < Len(S)
      PROVE  /\ From(S, n) # << >> /\ Head(From(S, n)) = S[n + 1]
             /\ Tail(From(S, n)) = From(S, n + 1)
  <2> DEFINE m == Len(S) - (n + 1)
  <2>1. From(S, n) # << >> BY <1>1, <1>2
  <2>2. Head(From(S, n)) = S[n + 1] BY <1>2, <2>1 DEF From
  <2>3. Tail(From(S, n)) \in Seq(X) /\ Len(Tail(From(S, n))) = m BY <1>1, <1>2, <2>1
  <2>4. From(S, n + 1) \in Seq(X) /\ Len(From(S, n + 1)) = m BY <1>2 DEF From
  <2>5. ASSUME NEW i \in 1 .. m
        PROVE  Tail(From(S, n))[i] = From(S, n + 1)[i]
    <3>1. i + 1 \in 1 .. Len(S) - n /\ n + (i + 1) = (n + 1) + i BY <1>2
    <3>2. Tail(From(S, n))[i] = From(S, n)[i + 1] BY <1>1, <1>2, <2>1
    <3>3. From(S, n)[i + 1] = S[n + (i + 1)] BY <3>1 DEF From
    <3>4. From(S, n + 1)[i] = S[(n + 1) + i] BY DEF From
    <3> QED BY <3>1, <3>2, <3>3, <3>4
  <2>6. \A i \in 1 .. Len(S) - (n + 1) : Tail(From(S, n))[i] = From(S, n + 1)[i]
    BY <2>5
  <2>7. Len(S) - (n + 1) \in Nat BY <1>2
  <2>8. Tail(From(S, n)) = From(S, n + 1)
    <3> HIDE DEF m
    <3>1. m \in Nat /\ \A i \in 1 .. m : Tail(From(S, n))[i] = From(S, n + 1)[i]
      BY <2>6, <2>7 DEF m
    <3> QED BY <2>3, <2>4, <3>1
  <2> QED BY <2>1, <2>2, <2>8
<1>3. n = Len(S) => From(S, n) = << >> BY <1>1
<1>4. From(S, 0) = S BY DEF From
<1> QED BY <1>1, <1>2, <1>3, <1>4

StepName == {"count_vectors", "count_jobs", "list_ids", "count_graph", "count_legacy",
             "delete_vectors", "clear_jobs", "purge_graph", "purge_legacy"}

LEMMA StepNames ==
  /\ Steps \in Seq(StepName) /\ Len(Steps) = 9
  /\ DrySteps \in Seq(StepName) /\ Len(DrySteps) = 5
  /\ \A n \in 0 .. 8 :
       /\ Steps[n + 1] = "list_ids" <=> n = 2
       /\ Steps[n + 1] = "delete_vectors" <=> n = 5
       /\ Steps[n + 1] = "clear_jobs" <=> n = 6
       /\ Steps[n + 1] = "purge_graph" <=> n = 7
       /\ Steps[n + 1] = "purge_legacy" <=> n = 8
  /\ \A n \in 0 .. 4 :
       DrySteps[n + 1] \notin {"delete_vectors", "clear_jobs", "purge_graph", "purge_legacy"}
<1>1. Steps \in Seq(StepName) BY DEF Steps, StepName
<1>2. Len(Steps) = 9 BY DEF Steps
<1>3. DrySteps \in Seq(StepName) BY DEF DrySteps, StepName
<1>4. Len(DrySteps) = 5 BY DEF DrySteps
<1>5. \A n \in 0 .. 8 :
       /\ Steps[n + 1] = "list_ids" <=> n = 2
       /\ Steps[n + 1] = "delete_vectors" <=> n = 5
       /\ Steps[n + 1] = "clear_jobs" <=> n = 6
       /\ Steps[n + 1] = "purge_graph" <=> n = 7
       /\ Steps[n + 1] = "purge_legacy" <=> n = 8
  BY DEF Steps
<1>6. \A n \in 0 .. 4 :
       DrySteps[n + 1] \notin {"delete_vectors", "clear_jobs", "purge_graph", "purge_legacy"}
  BY DEF DrySteps
<1> QED BY <1>1, <1>2, <1>3, <1>4, <1>5, <1>6

LEMMA StepsLeft ==
  /\ From(Steps, 0) = Steps
  /\ \A n \in 0 .. 8 :
       /\ From(Steps, n) # << >> /\ Head(From(Steps, n)) = Steps[n + 1]
       /\ Tail(From(Steps, n)) = From(Steps, n + 1)
       /\ n = 8 <=> From(Steps, n + 1) = << >>
<1>1. From(Steps, 0) = Steps BY FromOn, StepNames
<1>2. ASSUME NEW n \in 0 .. 8
      PROVE  /\ From(Steps, n) # << >> /\ Head(From(Steps, n)) = Steps[n + 1]
             /\ Tail(From(Steps, n)) = From(Steps, n + 1)
  <2>1. n \in 0 .. Len(Steps) /\ n < Len(Steps)
        /\ Steps \in Seq(StepName)
    BY StepNames
  <2> QED BY <2>1, FromOn
<1>3. From(Steps, 9) = << >>
  <2>1. 9 \in 0 .. Len(Steps) /\ 9 = Len(Steps)
        /\ Steps \in Seq(StepName)
    BY StepNames
  <2> QED BY <2>1, FromOn
<1>4. ASSUME NEW n \in 0 .. 8 PROVE n = 8 <=> From(Steps, n + 1) = << >>
  <2>1. CASE n = 8 BY <1>3, <2>1
  <2>2. CASE n # 8
    <3>1. n + 1 \in 0 .. 8 BY <2>2
    <3> QED BY <1>2, <2>2, <3>1
  <2> QED BY <2>1, <2>2
<1> QED BY <1>1, <1>2, <1>4

LEMMA DryLeft ==
  /\ From(DrySteps, 0) = DrySteps
  /\ \A n \in 0 .. 4 :
       /\ From(DrySteps, n) # << >> /\ Head(From(DrySteps, n)) = DrySteps[n + 1]
       /\ Tail(From(DrySteps, n)) = From(DrySteps, n + 1)
       /\ n = 4 => From(DrySteps, n + 1) = << >>
<1>1. From(DrySteps, 0) = DrySteps BY FromOn, StepNames
<1>2. ASSUME NEW n \in 0 .. 4
      PROVE  /\ From(DrySteps, n) # << >> /\ Head(From(DrySteps, n)) = DrySteps[n + 1]
             /\ Tail(From(DrySteps, n)) = From(DrySteps, n + 1)
  <2>1. n \in 0 .. Len(DrySteps) /\ n < Len(DrySteps)
        /\ DrySteps \in Seq(StepName)
    BY StepNames
  <2> QED BY <2>1, FromOn
<1>3. From(DrySteps, 5) = << >>
  <2>1. 5 \in 0 .. Len(DrySteps) /\ 5 = Len(DrySteps)
        /\ DrySteps \in Seq(StepName)
    BY StepNames
  <2> QED BY <2>1, FromOn
<1>4. ASSUME NEW n \in 0 .. 4, n = 4 PROVE From(DrySteps, n + 1) = << >>
  <2>1. n + 1 = 5 BY <1>4
  <2> QED BY <1>3, <2>1
<1> QED BY <1>1, <1>2, <1>4

ClearRecord ==
  [todo : Seq(StepName), dry : BOOLEAN, ids : SUBSET Entries, partial : BOOLEAN]
Legacy == {e \in old : nodes[e] = "legacy"}

\* What holds after the first n steps when none of them has failed: the old nodes
\* without a tenant are found by entries, then by the ids listed; then the stores
\* are empty one after the other.
Level(n, ids) ==
  /\ n < 6 => Legacy \subseteq vectors
  /\ n > 2 => Legacy \subseteq ids
  /\ n > 5 => old \cap vectors = {}
  /\ n > 6 => old \cap jobs = {}
  /\ n > 7 => \A e \in old : nodes[e] # "tenant"
  /\ n > 8 => Legacy = {}

Doing(k) ==
  IF clear[k].dry THEN \E n \in 0 .. 4 : clear[k].todo = From(DrySteps, n)
  ELSE \E n \in 0 .. 8 : /\ clear[k].todo = From(Steps, n)
                         /\ ~clear[k].partial => Level(n, clear[k].ids)

WipeTypes ==
  /\ clear \in [Clears -> ClearRecord] /\ lock \in Clears \cup {Nobody}
  /\ vectors \subseteq Entries /\ jobs \subseteq Entries /\ writing \subseteq Entries
  /\ nodes \in [Entries -> {"none", "tenant", "legacy"}]
  /\ old \subseteq Entries \ writing /\ wiped \in BOOLEAN

WipeInv ==
  /\ WipeTypes /\ ClearsExclude
  /\ \A k \in Clears : Inside(k) => Doing(k)
  /\ wiped => Level(9, {})

LEMMA NoClearTypes ==
  NoClear \in ClearRecord /\ NoClear.todo = << >> /\ NoClear.dry = FALSE
  BY DEF NoClear, ClearRecord

LEMMA WipeInit ==
  ASSUME GatesInit PROVE WipeInv
<1>1. \A k \in Clears : clear[k] = NoClear /\ ~Inside(k) BY NoClearTypes DEF GatesInit, Inside
<1>2. WipeTypes BY NoClearTypes DEF GatesInit, WipeTypes
<1>3. ClearsExclude BY <1>1, GateAssumption DEF GatesInit, ClearsExclude
<1> QED BY <1>1, <1>2, <1>3 DEF GatesInit, WipeInv

\* Writes of others only add entries that are not old, and deletions of others
\* leave no old node behind.
LEMMA LevelLasts ==
  ASSUME WipeTypes, NEW n \in 0 .. 9, NEW ids, Level(n, ids),
         old' \subseteq old, Legacy' \subseteq Legacy, jobs' \subseteq jobs,
         \A e \in Legacy' : e \in vectors => e \in vectors', vectors' \cap old' \subseteq vectors,
         \A e \in old' : nodes'[e] = nodes[e]
  PROVE  Level(n, ids)'
<1>1. \A e \in Legacy' : e \in Legacy OBVIOUS
<1>2. (n < 6 => Legacy \subseteq vectors)' /\ (n > 2 => Legacy \subseteq ids)'
  BY <1>1 DEF Level
<1>3. (n > 5 => old \cap vectors = {})' /\ (n > 6 => old \cap jobs = {})'
  BY DEF Level
<1>4. (n > 7 => \A e \in old : nodes[e] # "tenant")' /\ (n > 8 => Legacy = {})'
  BY <1>1 DEF Level
<1> QED BY <1>2, <1>3, <1>4 DEF Level

\* The lock is free only while nothing is being cleared.
LEMMA FreeLock ==
  ASSUME WipeInv, lock = Nobody
  PROVE  \A k \in Clears : ~Inside(k)
  BY GateAssumption DEF WipeInv, ClearsExclude

LEMMA BeginKeeps ==
  ASSUME WipeInv, NEW k \in Clears, NEW dry \in BOOLEAN, BeginClear(k, dry)
  PROVE  WipeInv'
<1> DEFINE todo == IF dry THEN DrySteps ELSE Steps
           c == [NoClear EXCEPT !.todo = todo, !.dry = dry]
<1>1. lock = Nobody BY DEF BeginClear, Busy
<1>2. \A j \in Clears : ~Inside(j)
  BY <1>1, FreeLock
<1>3. /\ lock' = k /\ clear' = [clear EXCEPT ![k] = c] /\ wiped' = FALSE
      /\ old' = IF dry THEN {} ELSE Present \ (writing \cup Lost)
      /\ UNCHANGED <<vectors, nodes, jobs, writing>>
  BY DEF BeginClear, stores
<1>4. WipeTypes BY DEF WipeInv
<1>5. todo \in Seq(StepName) /\ todo # << >>
  <2>1. CASE dry BY <2>1, StepNames, DryLeft, FromOn
  <2>2. CASE ~dry BY <2>2, StepNames, StepsLeft, FromOn
  <2> QED BY <2>1, <2>2
<1>6. c \in ClearRecord /\ c.todo = todo /\ c.dry = dry /\ c.partial = FALSE
  <2> HIDE DEF todo
  <2> QED BY <1>5, NoClearTypes DEF ClearRecord, NoClear
<1>7. WipeTypes'
  <2>1. Present \subseteq Entries BY <1>4 DEF Present, WipeTypes
  <2> HIDE DEF c
  <2> QED BY <1>3, <1>4, <1>6, <2>1 DEF WipeTypes
<1>8. clear'[k] = c /\ \A j \in Clears \ {k} : clear'[j] = clear[j]
  <2> HIDE DEF c
  <2> QED BY <1>3, <1>4 DEF WipeTypes
<1>9. Inside(k)' /\ \A j \in Clears \ {k} : ~Inside(j)'
  <2> HIDE DEF c
  <2> QED BY <1>2, <1>5, <1>6, <1>8 DEF Inside
<1>10. ClearsExclude' BY <1>3, <1>9 DEF ClearsExclude
<1>11. Doing(k)'
  <2> HIDE DEF c
  <2>1. CASE dry
    <3>1. clear'[k].todo = From(DrySteps, 0) BY <1>6, <1>8, <2>1, DryLeft
    <3>2. clear'[k].dry = dry BY <1>6, <1>8
    <3>3. \E n \in 0 .. 4 : clear'[k].todo = From(DrySteps, n) BY <3>1
    <3> QED BY <2>1, <3>2, <3>3 DEF Doing
  <2>2. CASE ~dry
    <3>1. clear'[k].todo = From(Steps, 0) BY <1>6, <1>8, <2>2, StepsLeft
    <3>2. Legacy' \subseteq vectors'
      <4>1. Present \subseteq Entries BY <1>4 DEF Present, WipeTypes
      <4> QED BY <1>3, <2>2, <4>1 DEF Legacy, Lost
    <3>3. Level(0, clear[k].ids)' BY <3>2 DEF Level
    <3> QED BY <1>6, <1>8, <2>2, <3>1, <3>3 DEF Doing
  <2> QED BY <2>1, <2>2
<1> HIDE DEF c
<1> QED BY <1>3, <1>6, <1>7, <1>8, <1>9, <1>10, <1>11 DEF WipeInv

\* What a clear leaves that stops or is told to stop.
LEMMA EndKeeps ==
  ASSUME WipeInv, WipeTypes', NEW k \in Clears, Inside(k),
         clear' = [clear EXCEPT ![k] = NoClear], lock' = Nobody,
         wiped' => Level(9, {})'
  PROVE  WipeInv'
<1>1. \A j \in Clears : j # k => ~Inside(j) BY DEF WipeInv, ClearsExclude
<1>2. \A j \in Clears : ~Inside(j)'
  BY <1>1, NoClearTypes DEF WipeInv, WipeTypes, Inside
<1>3. ClearsExclude' BY <1>2, GateAssumption DEF ClearsExclude
<1> QED BY <1>2, <1>3 DEF WipeInv

LEMMA CutKeeps ==
  ASSUME WipeInv, NEW k \in Clears, Cut(k)
  PROVE  WipeInv'
<1>1. /\ Inside(k) /\ clear' = [clear EXCEPT ![k] = NoClear] /\ lock' = Nobody
      /\ wiped' = FALSE
      /\ UNCHANGED <<vectors, nodes, jobs, writing, old>>
  BY DEF Cut, stores
<1>2. WipeTypes /\ clear[k].dry \in BOOLEAN BY DEF WipeInv, WipeTypes, ClearRecord
<1>3. WipeTypes'
  <2>1. clear' \in [Clears -> ClearRecord] BY <1>1, <1>2, NoClearTypes DEF WipeTypes
  <2> QED BY <1>1, <1>2, <2>1 DEF WipeTypes
<1> QED BY <1>1, <1>3, EndKeeps

LEMMA WritesKeep ==
  ASSUME WipeInv, NEW e \in Entries, WriteVector(e) \/ WriteNode(e) \/ DeleteVector(e)
  PROVE  WipeInv'
<1>1. /\ WipeTypes
      /\ UNCHANGED <<clear, lock, jobs, wiped>>
  BY DEF WipeInv, WriteVector, WriteNode, DeleteVector
<1>2. WipeTypes' BY <1>1 DEF WriteVector, WriteNode, DeleteVector, WipeTypes
<1>3. /\ old' \subseteq old /\ Legacy' \subseteq Legacy
      /\ \A d \in Legacy' : d \in vectors => d \in vectors'
      /\ vectors' \cap old' \subseteq vectors
      /\ \A d \in old' : nodes'[d] = nodes[d]
  <2>1. CASE WriteVector(e) BY <2>1 DEF WriteVector, Legacy
  <2>2. CASE WriteNode(e) BY <1>1, <2>2 DEF WriteNode, Legacy, WipeTypes
  <2>3. CASE DeleteVector(e)
    <3>1. /\ vectors' = vectors \ {e} /\ UNCHANGED nodes
          /\ old' = IF nodes[e] = "legacy" THEN old \ {e} ELSE old
      BY <2>3 DEF DeleteVector
    <3> QED BY <3>1 DEF Legacy
  <2> QED BY <2>1, <2>2, <2>3
<1>4. ASSUME NEW n \in 0 .. 9, NEW ids, Level(n, ids) PROVE Level(n, ids)'
  BY <1>1, <1>3, <1>4, LevelLasts
<1>5. \A j \in Clears : Inside(j)' <=> Inside(j) BY <1>1 DEF Inside
<1>6. \A j \in Clears : Inside(j) => Doing(j)'
  <2>1. TAKE j \in Clears
  <2>2. HAVE Inside(j)
  <2>3. CASE clear[j].dry BY <1>1, <2>2, <2>3 DEF WipeInv, Doing
  <2>4. CASE ~clear[j].dry
    <3>1. PICK n \in 0 .. 8 : /\ clear[j].todo = From(Steps, n)
                              /\ ~clear[j].partial => Level(n, clear[j].ids)
      BY <2>2, <2>4 DEF WipeInv, Doing
    <3>2. PICK ids : ids = clear[j].ids OBVIOUS
    <3>3. ~clear[j].partial => Level(n, ids)' BY <1>4, <3>1, <3>2
    <3>4. (~clear[j].partial => Level(n, clear[j].ids))' BY <1>1, <3>2, <3>3 DEF Level
    <3> QED BY <1>1, <2>4, <3>1, <3>4 DEF Doing
  <2> QED BY <2>3, <2>4
<1>8. (wiped => Level(9, {}))' BY <1>1, <1>4 DEF WipeInv
<1>9. ClearsExclude' BY <1>1, <1>5 DEF WipeInv, ClearsExclude
<1> QED BY <1>1, <1>2, <1>5, <1>6, <1>8, <1>9 DEF WipeInv

\* The effect of the n-th step, on the stores and on what has been emptied.
LEMMA EffectOfDry ==
  ASSUME WipeTypes, NEW k \in Clears, NEW n \in 0 .. 4, Effect(k, DrySteps[n + 1])
  PROVE  UNCHANGED <<vectors, jobs, nodes>>
<1>1. DrySteps[n + 1] \notin {"delete_vectors", "clear_jobs", "purge_graph", "purge_legacy"}
  BY StepNames
<1>2. nodes' = [e \in Entries |-> nodes[e]] BY <1>1 DEF Effect
<1> QED BY <1>1, <1>2 DEF Effect, WipeTypes

LEMMA EffectOfStep ==
  ASSUME WipeTypes, NEW k \in Clears, NEW n \in 0 .. 8, Effect(k, Steps[n + 1]),
         UNCHANGED old, NEW ids, ids = clear[k].ids, Level(n, ids)
  PROVE  n # 2 => Level(n + 1, ids)'
<1> DEFINE step == Steps[n + 1]
<1>1. /\ step = "delete_vectors" <=> n = 5
      /\ step = "clear_jobs" <=> n = 6
      /\ step = "purge_graph" <=> n = 7
      /\ step = "purge_legacy" <=> n = 8
  BY StepNames
<1>2. vectors' = (IF n = 5 THEN {} ELSE vectors) /\ jobs' = (IF n = 6 THEN {} ELSE jobs)
  BY <1>1 DEF Effect
<1>3. ASSUME NEW e \in Entries
      PROVE  nodes'[e] = IF \/ n = 7 /\ nodes[e] = "tenant"
                            \/ n = 8 /\ nodes[e] = "legacy" /\ e \in ids
                         THEN "none" ELSE nodes[e]
  BY <1>1 DEF Effect
<1>5. old \subseteq Entries /\ old' = old BY DEF WipeTypes
<1>4. Legacy' \subseteq Legacy /\ (n = 8 => Legacy' \subseteq Legacy \ ids)
  BY <1>3, <1>5 DEF Legacy
<1>6. SUFFICES ASSUME n # 2 PROVE Level(n + 1, ids)'
  OBVIOUS
<1>7. n + 1 < 6 => Legacy' \subseteq vectors' BY <1>2, <1>4 DEF Level
<1>8. n + 1 > 2 => Legacy' \subseteq ids BY <1>4, <1>6 DEF Level
<1>9. n + 1 > 5 => old' \cap vectors' = {} BY <1>2, <1>5 DEF Level
<1>10. n + 1 > 6 => old' \cap jobs' = {} BY <1>2, <1>5 DEF Level
<1>11. n + 1 > 7 => \A e \in old' : nodes'[e] # "tenant"
  <2>1. SUFFICES ASSUME n + 1 > 7, NEW e \in old PROVE nodes'[e] # "tenant" BY <1>5
  <2>2. n = 7 \/ n > 7 BY <2>1
  <2>3. e \in Entries BY <1>5
  <2> QED BY <1>3, <2>2, <2>3 DEF Level
<1>12. n + 1 > 8 => Legacy' = {} BY <1>4 DEF Level
<1> QED BY <1>7, <1>8, <1>9, <1>10, <1>11, <1>12 DEF Level

\* Once the ids are listed, they stand for the entries of those nodes.
LEMMA EffectOfListing ==
  ASSUME WipeTypes, NEW k \in Clears, Effect(k, Steps[3]), UNCHANGED old,
         NEW ids, Level(2, ids)
  PROVE  UNCHANGED <<vectors, jobs, nodes>> /\ Level(3, vectors)'
<1>1. Steps[3] \notin {"delete_vectors", "clear_jobs", "purge_graph", "purge_legacy"}
  <2>1. 2 \in 0 .. 8 /\ 2 + 1 = 3 OBVIOUS
  <2> QED BY <2>1, StepNames
<1>2. nodes' = [e \in Entries |-> nodes[e]] BY <1>1 DEF Effect
<1>3. UNCHANGED <<vectors, jobs, nodes>> BY <1>1, <1>2 DEF Effect, WipeTypes
<1>4. Legacy' = Legacy BY <1>3 DEF Legacy
<1> QED BY <1>3, <1>4 DEF Level

LEMMA EffectTypes ==
  ASSUME WipeTypes, NEW k \in Clears, NEW s, Effect(k, s)
  PROVE  vectors' \subseteq vectors /\ jobs' \subseteq jobs
         /\ nodes' \in [Entries -> {"none", "tenant", "legacy"}]
  BY DEF Effect, WipeTypes

\* A step of a clear that has not failed, or that has.
LEMMA StepKeeps ==
  ASSUME WipeInv, NEW k \in Clears, Step(k)
  PROVE  WipeInv'
<1> DEFINE todo == clear[k].todo
           s == Head(todo)
<1>1. WipeTypes /\ Inside(k) /\ Doing(k) /\ clear[k] \in ClearRecord
  BY DEF WipeInv, WipeTypes, Step
<1>2. UNCHANGED <<writing, old>> BY DEF Step
<1>3. PICK ids \in SUBSET Entries, partial \in BOOLEAN :
        /\ Goes(k, ids, partial)
        /\ \/ /\ Effect(k, s) /\ partial = clear[k].partial
              /\ ids = IF s = "list_ids" THEN vectors ELSE clear[k].ids
           \/ partial = TRUE /\ ids = clear[k].ids /\ UNCHANGED <<vectors, jobs, nodes>>
  <2>1. /\ clear[k].ids \in SUBSET Entries /\ clear[k].partial \in BOOLEAN
        /\ vectors \in SUBSET Entries
    BY <1>1 DEF ClearRecord, WipeTypes
  <2>2. \/ /\ Effect(k, s)
           /\ Goes(k, IF s = "list_ids" THEN vectors ELSE clear[k].ids, clear[k].partial)
        \/ Goes(k, clear[k].ids, TRUE) /\ UNCHANGED <<vectors, jobs, nodes>>
    BY DEF Step
  <2> QED BY <2>1, <2>2
<1>4. PICK rest : rest = Tail(todo) OBVIOUS
<1>5. /\ clear' = [clear EXCEPT ![k] =
            IF rest = << >> THEN NoClear
            ELSE [clear[k] EXCEPT !.todo = rest, !.ids = ids, !.partial = partial]]
      /\ lock' = (IF rest = << >> THEN Nobody ELSE lock)
      /\ wiped' = (rest = << >> /\ ~clear[k].dry /\ ~partial)
  BY <1>3, <1>4 DEF Goes
<1>6. /\ clear[k].dry \in BOOLEAN /\ todo \in Seq(StepName) /\ todo # << >>
  BY <1>1 DEF ClearRecord, Inside
<1>7. rest \in Seq(StepName) BY <1>4, <1>6
<1>8. vectors' \subseteq vectors /\ jobs' \subseteq jobs
      /\ nodes' \in [Entries -> {"none", "tenant", "legacy"}]
  BY <1>1, <1>3, EffectTypes DEF WipeTypes
<1>9. WipeTypes'
  <2>1. [clear[k] EXCEPT !.todo = rest, !.ids = ids, !.partial = partial] \in ClearRecord
    BY <1>1, <1>3, <1>7 DEF ClearRecord
  <2>2. clear' \in [Clears -> ClearRecord]
    BY <1>1, <1>5, <2>1, NoClearTypes DEF WipeTypes
  <2>3. lock' \in Clears \cup {Nobody} BY <1>1, <1>5 DEF WipeTypes
  <2>4. wiped' \in BOOLEAN BY <1>1, <1>3, <1>5, <1>6 DEF WipeTypes
  <2> QED BY <1>1, <1>2, <1>8, <2>2, <2>3, <2>4 DEF WipeTypes
<1>10. \A j \in Clears : j # k => ~Inside(j) BY <1>1 DEF WipeInv, ClearsExclude
\* As far as a dry clear has come, the stores are as they were.
<1>11. CASE clear[k].dry
  <2>1. PICK n \in 0 .. 4 : todo = From(DrySteps, n) BY <1>1, <1>11 DEF Doing
  <2>2. s = DrySteps[n + 1] /\ rest = From(DrySteps, n + 1)
        /\ (n = 4 => rest = << >>)
    BY <1>4, <2>1, DryLeft
  <2>3. UNCHANGED <<vectors, jobs, nodes>> BY <1>1, <1>3, <2>2, EffectOfDry
  <2>4. ~wiped' BY <1>5, <1>11
  <2>6. CASE rest = << >> BY <1>1, <1>5, <1>9, <2>4, <2>6, EndKeeps
  <2>7. CASE rest # << >>
    <3>1. n + 1 \in 0 .. 4 BY <2>2, <2>7
    <3>2. clear'[k].todo = rest /\ clear'[k].dry /\ lock' = lock
      BY <1>1, <1>5, <1>11, <2>7 DEF WipeTypes, ClearRecord
    <3>3. \A j \in Clears : j # k => clear'[j] = clear[j] BY <1>1, <1>5 DEF WipeTypes
    <3>4. \A j \in Clears : Inside(j)' <=> j = k BY <1>10, <2>7, <3>2, <3>3 DEF Inside
    <3>5. Doing(k)' BY <2>2, <3>1, <3>2 DEF Doing
    <3>6. ClearsExclude' BY <1>1, <1>10, <3>2, <3>4 DEF WipeInv, ClearsExclude
    <3> QED BY <1>9, <2>4, <3>2, <3>4, <3>5, <3>6 DEF WipeInv
  <2> QED BY <2>6, <2>7
<1>12. CASE ~clear[k].dry
  <2>1. PICK n \in 0 .. 8 : /\ todo = From(Steps, n)
                            /\ ~clear[k].partial => Level(n, clear[k].ids)
    BY <1>1, <1>12 DEF Doing
  <2>2. s = Steps[n + 1] /\ rest = From(Steps, n + 1) /\ (n = 8 <=> rest = << >>)
    BY <1>4, <2>1, StepsLeft
  <2>3. ~partial => ~clear[k].partial BY <1>3
  <2>4. ~partial => Level(n + 1, ids)'
    <3>1. SUFFICES ASSUME ~partial PROVE Level(n + 1, ids)'
      OBVIOUS
    <3>2. Effect(k, Steps[n + 1]) /\ Level(n, clear[k].ids)
          /\ ids = IF n = 2 THEN vectors ELSE clear[k].ids
      <4>1. Steps[n + 1] = "list_ids" <=> n = 2 BY StepNames
      <4> QED BY <1>3, <2>1, <2>2, <2>3, <3>1, <4>1
    <3>3. PICK before : before = clear[k].ids OBVIOUS
    <3>4. CASE n # 2 BY <1>1, <1>2, <3>2, <3>3, <3>4, EffectOfStep
    <3>5. CASE n = 2
      <4>1. UNCHANGED <<vectors, jobs, nodes>> /\ Level(3, vectors)'
        BY <1>1, <1>2, <3>2, <3>3, <3>5, EffectOfListing
      <4>2. ids = vectors' /\ n + 1 = 3 BY <3>2, <3>5, <4>1
      <4> QED BY <4>1, <4>2 DEF Level
    <3> QED BY <3>4, <3>5
  <2>5. CASE rest = << >>
    <3>1. n = 8 BY <2>2, <2>5
    <3>2. wiped' => Level(9, {})'
      <4>1. SUFFICES ASSUME wiped' PROVE Level(9, {})' OBVIOUS
      <4>2. ~partial BY <1>5, <4>1
      <4>3. Level(9, ids)'
        <5>1. PICK m : m = n + 1 OBVIOUS
        <5>2. m = 9 BY <3>1, <5>1
        <5> QED BY <2>4, <4>2, <5>1, <5>2 DEF Level
      <4>4. Legacy' = {} BY <4>3 DEF Level
      <4> QED BY <4>3, <4>4 DEF Level
    <3> QED BY <1>1, <1>5, <1>9, <2>5, <3>2, EndKeeps
  <2>6. CASE rest # << >>
    <3>1. n + 1 \in 0 .. 8 BY <2>2, <2>6
    <3>2. /\ clear'[k].todo = rest /\ ~clear'[k].dry /\ lock' = lock
          /\ clear'[k].ids = ids /\ clear'[k].partial = partial /\ ~wiped'
      BY <1>1, <1>5, <1>12, <2>6 DEF WipeTypes, ClearRecord
    <3>3. \A j \in Clears : j # k => clear'[j] = clear[j] BY <1>1, <1>5 DEF WipeTypes
    <3>4. \A j \in Clears : Inside(j)' <=> j = k BY <1>10, <2>6, <3>2, <3>3 DEF Inside
    <3>5. (~clear[k].partial => Level(n + 1, clear[k].ids))' BY <2>4, <3>2 DEF Level
    <3>6. Doing(k)' BY <2>2, <3>1, <3>2, <3>5 DEF Doing
    <3>7. ClearsExclude' BY <1>1, <1>10, <3>2, <3>4 DEF WipeInv, ClearsExclude
    <3> QED BY <1>9, <3>2, <3>4, <3>6, <3>7 DEF WipeInv
  <2> QED BY <2>5, <2>6
<1> QED BY <1>11, <1>12

LEMMA WipeStep ==
  ASSUME WipeInv, [GatesNext]_vars
  PROVE  WipeInv'
<1>1. CASE \E k \in Clears : \E dry \in BOOLEAN : BeginClear(k, dry) BY <1>1, BeginKeeps
<1>2. CASE \E k \in Clears : Step(k) BY <1>2, StepKeeps
<1>3. CASE \E k \in Clears : Cut(k) BY <1>3, CutKeeps
<1>4. CASE \E e \in Entries : WriteVector(e) \/ WriteNode(e) \/ DeleteVector(e)
  BY <1>4, WritesKeep
<1>5. ASSUME UNCHANGED wipe PROVE WipeInv'
  BY <1>5 DEF wipe, stores, WipeInv, WipeTypes, ClearsExclude, Doing, Level, Legacy, Inside
<1>6. CASE LimitNext \/ BreakerNext
  <2>1. UNCHANGED wipe
    BY <1>6 DEF LimitNext, BreakerNext, Allow, Tick, Ask, Succeed, Fail, Leave
  <2> QED BY <1>5, <2>1
<1>7. CASE UNCHANGED vars BY <1>5, <1>7 DEF vars
<1> QED BY <1>1, <1>2, <1>3, <1>4, <1>6, <1>7 DEF GatesNext, ClearNext

\* One clear of a tenant at a time, and no lock that nobody holds, over failed
\* steps, cancelled requests and ends of the process.
THEOREM OneClear == GatesSpec => []ClearsExclude
<1>1. WipeInv => ClearsExclude BY DEF WipeInv
<1> QED BY <1>1, WipeInit, WipeStep, PTL DEF GatesSpec

\* A clear that reports completion has removed what there was when it began from
\* all three stores, although others write and delete during its nine steps and
\* earlier clears got half way - but for nodes that no clear can find (Lost).
THEOREM WipesAll == GatesSpec => []WipeIsTotal
<1>1. WipeInv => WipeIsTotal
  <2>1. SUFFICES ASSUME WipeInv, wiped, NEW e \in old
                 PROVE  e \notin vectors \cup jobs /\ nodes[e] = "none"
    BY DEF WipeIsTotal
  <2>2. Level(9, {}) /\ e \in Entries BY <2>1 DEF WipeInv, WipeTypes
  <2>3. nodes[e] \in {"none", "tenant", "legacy"} BY <2>1, <2>2 DEF WipeInv, WipeTypes
  <2>4. e \notin vectors /\ e \notin jobs BY <2>1, <2>2 DEF Level
  <2>5. nodes[e] # "tenant" /\ nodes[e] # "legacy" BY <2>1, <2>2 DEF Level, Legacy
  <2> QED BY <2>3, <2>4, <2>5
<1> QED BY <1>1, WipeInit, WipeStep, PTL DEF GatesSpec

-----------------------------------------------------------------------------
(* The token bucket.                                                       *)

\* What was added since the bucket was last looked at pays for the later calls.
LEMMA Earned ==
  ASSUME NEW r \in Nat, NEW w \in Nat, NEW f \in Nat, NEW m \in Nat,
         NEW u \in Nat, NEW l \in Nat, NEW c \in Nat, NEW p \in Nat, NEW q \in Nat,
         m * w + p <= f + r * (l - u), q <= p + (c - l) * r
  PROVE  m * w + q <= f + r * (c - u)
<1>1. r * (l - u) + (c - l) * r = r * (c - u) OBVIOUS
<1>2. PICK x \in Int, y \in Int, z \in Int, a \in Int :
        x = m * w /\ y = r * (l - u) /\ z = r * (c - u) /\ a = (c - l) * r
  OBVIOUS
<1>3. x + p <= f + y /\ q <= p + a /\ y + a = z BY <1>1, <1>2
<1>4. x + q <= f + z BY <1>3
<1> QED BY <1>2, <1>4

LEMMA Spent ==
  ASSUME NEW w \in Nat, NEW m \in Nat, NEW q \in Nat, NEW g \in Int, m * w + q <= g
  PROVE  (m + 1) * w + (q - w) <= g
  OBVIOUS

LEMMA BucketKnown ==
  ASSUME NEW b \in [last : Nat, parts : Nat] PROVE b # NoBucket
<1>1. DOMAIN b = {"last", "parts"} OBVIOUS
<1>2. DOMAIN << >> = 1 .. 0 OBVIOUS
<1> QED BY <1>1, <1>2 DEF NoBucket

\* What the calls since any one of them cost, and what is left in the bucket,
\* came from a full bucket and what was added since.
Covered(b, times) ==
  \A i \in 1 .. Len(times) :
    /\ times[i] <= b.last
    /\ (Len(times) - i + 1) * Whole + b.parts <= Full + Rate * (b.last - times[i])

Kept(b, times) ==
  \/ b = NoBucket /\ times = << >>
  \/ /\ b \in [last : Nat, parts : Nat] /\ b.last <= now /\ b.parts <= Full
     /\ Covered(b, times)

LimitInv ==
  /\ bucket \in [Tenants -> {NoBucket} \cup [last : Nat, parts : Nat]]
  /\ admitted \in [Tenants -> Seq(Nat)]
  /\ \A t \in Tenants : Kept(bucket[t], admitted[t]) /\ Fits(admitted[t])

LEMMA FullType == Full \in Nat /\ Rate \in Nat /\ Whole \in Nat /\ Whole > 0
  BY GateAssumption DEF Full

LEMMA LimitInit == GatesInit => LimitInv
  BY DEF GatesInit, LimitInv, Kept, Fits

\* The bucket of a tenant at the time of a call, known or not.
LEMMA TokensKept ==
  ASSUME ClockOK, LimitInv, NEW t \in Tenants
  PROVE  /\ Tokens(t) \in Nat /\ Tokens(t) <= Full
         /\ Covered([last |-> now, parts |-> Tokens(t)], admitted[t])
<1>1. PICK times, b, c, tokens :
        times = admitted[t] /\ b = bucket[t] /\ c = now /\ tokens = Tokens(t)
  OBVIOUS
<1>0. times \in Seq(Nat) /\ c \in Nat BY <1>1 DEF LimitInv, ClockOK
<1>2. CASE b = NoBucket /\ times = << >>
  BY <1>0, <1>1, <1>2, FullType DEF Tokens, Covered
<1>3. CASE /\ b \in [last : Nat, parts : Nat] /\ b.last <= c /\ b.parts <= Full
           /\ Covered(b, times)
  <2>1. tokens = Refilled(b) BY <1>1, <1>3, BucketKnown DEF Tokens
  <2>2. PICK l \in Nat, p \in Nat : l = b.last /\ p = b.parts BY <1>3
  <2>3. PICK earned \in Nat : earned = (c - l) * Rate /\ (Rate = 0 => earned = 0)
    <3>1. c - l \in Nat BY <1>0, <1>3, <2>2
    <3>2. (c - l) * Rate \in Nat /\ (Rate = 0 => (c - l) * Rate = 0) BY <3>1, FullType
    <3> QED BY <3>2
  <2>4. tokens \in Nat /\ tokens <= Full /\ tokens <= p + earned
    <3>1. tokens = IF Rate = 0 THEN p ELSE Least(Full, p + earned)
      BY <1>1, <2>1, <2>2, <2>3 DEF Refilled
    <3>2. p <= Full BY <1>3, <2>2
    <3> QED BY <3>1, <3>2, FullType DEF Least
  <2>5. ASSUME NEW i \in 1 .. Len(times)
        PROVE  /\ times[i] <= c
               /\ (Len(times) - i + 1) * Whole + tokens <= Full + Rate * (c - times[i])
    <3>0. times[i] \in Nat /\ Len(times) \in Nat /\ i \in Nat /\ i <= Len(times)
      BY <1>0
    <3>1. PICK u \in Nat, m \in Nat : u = times[i] /\ m = Len(times) - i + 1
      <4>1. Len(times) - i + 1 \in Nat BY <3>0
      <4> QED BY <3>0, <4>1, Zenon
    <3>2. u <= l /\ m * Whole + p <= Full + Rate * (l - u)
      BY <1>3, <2>2, <3>1 DEF Covered
    <3>3. tokens <= p + (c - l) * Rate BY <2>3, <2>4
    <3>4. m * Whole + tokens <= Full + Rate * (c - u)
      BY <1>0, <2>4, <3>2, <3>3, FullType, Earned
    <3>5. u <= c BY <1>0, <1>3, <2>2, <3>2
    <3> QED BY <3>1, <3>4, <3>5
  <2> QED BY <1>1, <2>4, <2>5 DEF Covered
<1> QED BY <1>1, <1>2, <1>3 DEF LimitInv, Kept

LEMMA RefuseKeeps ==
  ASSUME ClockOK, LimitInv, NEW t \in Tenants, Allow(t), Tokens(t) < Whole
  PROVE  LimitInv'
<1> DEFINE b == [last |-> now, parts |-> Tokens(t)]
<1>1. /\ bucket' = [bucket EXCEPT ![t] = b] /\ UNCHANGED <<admitted, now>> BY DEF Allow
<1>2. /\ Tokens(t) \in Nat /\ Tokens(t) <= Full /\ Covered(b, admitted[t])
  BY TokensKept
<1>3. b \in [last : Nat, parts : Nat] /\ b.last <= now /\ b.parts <= Full
  BY <1>2 DEF ClockOK
<1> HIDE DEF b
<1>4. bucket' \in [Tenants -> {NoBucket} \cup [last : Nat, parts : Nat]]
  BY <1>1, <1>3 DEF LimitInv
<1>5. ASSUME NEW u \in Tenants PROVE (Kept(bucket[u], admitted[u]) /\ Fits(admitted[u]))'
  BY <1>1, <1>2, <1>3 DEF LimitInv, Kept, Covered, Fits
<1> QED BY <1>1, <1>4, <1>5 DEF LimitInv

\* One more call, for which the bucket had enough.
LEMMA OneMore ==
  ASSUME NEW before \in Seq(Nat), NEW c \in Nat, NEW tokens \in Nat, Whole <= tokens,
         tokens <= Full, Covered([last |-> c, parts |-> tokens], before), Fits(before)
  PROVE  /\ Covered([last |-> c, parts |-> tokens - Whole], Append(before, c))
         /\ Fits(Append(before, c))
<1> DEFINE n == Len(before)
           times == Append(before, c)
<1>1. /\ n \in Nat /\ times \in Seq(Nat) /\ Len(times) = n + 1 /\ times[n + 1] = c
      /\ \A i \in 1 .. n : times[i] = before[i] /\ before[i] \in Nat
  OBVIOUS
<1> HIDE DEF n, times
<1>2. ASSUME NEW i \in 1 .. n + 1
      PROVE  /\ times[i] \in Nat /\ times[i] <= c
             /\ (n + 1 - i + 1) * Whole + (tokens - Whole) <= Full + Rate * (c - times[i])
  <2>1. CASE i = n + 1
    <3>1. times[i] = c /\ n + 1 - i + 1 = 1 /\ c - c = 0 BY <1>1, <2>1
    <3>2. 1 * Whole + (tokens - Whole) <= Full + Rate * 0 BY FullType
    <3> QED BY <3>1, <3>2
  <2>2. CASE i # n + 1
    <3>1. i \in 1 .. n /\ times[i] = before[i] BY <1>1, <2>2
    <3>2. PICK m \in Nat, u \in Nat : m = n - i + 1 /\ u = before[i]
      <4>1. n - i + 1 \in Nat /\ before[i] \in Nat BY <1>1, <3>1
      <4> QED BY <4>1
    <3>3. u <= c /\ m * Whole + tokens <= Full + Rate * (c - u)
      BY <3>1, <3>2 DEF Covered, n
    <3>4. Full + Rate * (c - u) \in Int /\ Whole \in Nat BY FullType
    <3>5. (m + 1) * Whole + (tokens - Whole) <= Full + Rate * (c - u)
      BY <3>3, <3>4, Spent
    <3>6. m + 1 = n + 1 - i + 1 BY <1>1, <3>1, <3>2
    <3> QED BY <3>1, <3>2, <3>3, <3>5, <3>6
  <2> QED BY <2>1, <2>2
<1>3. Covered([last |-> c, parts |-> tokens - Whole], times)
  BY <1>1, <1>2 DEF Covered
<1>4. ASSUME NEW i \in 1 .. n + 1, NEW j \in i .. n + 1
      PROVE  (j - i + 1) * Whole <= Full + Rate * (times[j] - times[i])
  <2>1. CASE j = n + 1
    <3>1. times[i] \in Nat /\ n + 1 - i + 1 \in Int BY <1>1, <1>2
    <3>2. PICK x \in Int, z \in Int :
            x = (n + 1 - i + 1) * Whole /\ z = Full + Rate * (c - times[i])
      <4>1. PICK d \in Int : d = c - times[i] BY <3>1
      <4>2. (n + 1 - i + 1) * Whole \in Int BY <3>1, FullType
      <4>3. Full + Rate * d \in Int BY FullType
      <4> QED BY <4>1, <4>2, <4>3
    <3>3. x + (tokens - Whole) <= z BY <1>2, <3>2
    <3>4. x <= z BY <3>3, FullType
    <3> QED BY <1>1, <2>1, <3>2, <3>4
  <2>2. CASE j # n + 1
    <3>1. i \in 1 .. n /\ j \in i .. n BY <1>1, <2>2
    <3>2. DOMAIN before = 1 .. n BY DEF n
    <3>3. (j - i + 1) * Whole <= Full + Rate * (before[j] - before[i])
      BY <3>1, <3>2 DEF Fits, n
    <3>4. times[i] = before[i] /\ times[j] = before[j] BY <1>1, <3>1
    <3> QED BY <3>3, <3>4
  <2> QED BY <2>1, <2>2
<1>5. DOMAIN times = 1 .. n + 1 BY <1>1
<1>6. Fits(times) BY <1>1, <1>4, <1>5 DEF Fits
<1> QED BY <1>3, <1>6 DEF times

LEMMA AdmitKeeps ==
  ASSUME ClockOK, LimitInv, NEW t \in Tenants, Allow(t), ~(Tokens(t) < Whole)
  PROVE  LimitInv'
<1>1. PICK before \in Seq(Nat), c \in Nat, tokens \in Nat :
        before = admitted[t] /\ c = now /\ tokens = Tokens(t)
  BY TokensKept DEF LimitInv, ClockOK
<1>2. PICK b, times : b = [last |-> c, parts |-> tokens - Whole] /\ times = Append(before, c)
  OBVIOUS
<1>3. /\ bucket' = [bucket EXCEPT ![t] = b] /\ now' = c
      /\ admitted' = [admitted EXCEPT ![t] = times]
  BY <1>1, <1>2 DEF Allow
<1>4. /\ tokens <= Full /\ Whole <= tokens /\ Fits(before)
      /\ Covered([last |-> c, parts |-> tokens], before)
  BY <1>1, TokensKept, FullType DEF LimitInv
<1>5. Covered(b, times) /\ Fits(times) BY <1>2, <1>4, OneMore
<1>6. /\ b \in [last : Nat, parts : Nat] /\ b.last = c /\ b.parts <= Full
      /\ times \in Seq(Nat)
  BY <1>2, <1>4, FullType
<1>7. /\ bucket' \in [Tenants -> {NoBucket} \cup [last : Nat, parts : Nat]]
      /\ admitted' \in [Tenants -> Seq(Nat)]
  BY <1>3, <1>6 DEF LimitInv
<1>8. /\ bucket'[t] = b /\ admitted'[t] = times
      /\ \A u \in Tenants \ {t} : bucket'[u] = bucket[u] /\ admitted'[u] = admitted[u]
  BY <1>3 DEF LimitInv
<1>9. ASSUME NEW u \in Tenants PROVE (Kept(bucket[u], admitted[u]) /\ Fits(admitted[u]))'
  <2>1. CASE u = t
    <3>1. bucket'[u] = b /\ admitted'[u] = times BY <1>8, <2>1
    <3>2. b.last <= now' BY <1>3, <1>6
    <3>3. (Covered(bucket[u], admitted[u]))' BY <1>5, <3>1, Zenon DEF Covered
    <3>4. (Fits(admitted[u]))' BY <1>5, <3>1, Zenon DEF Fits
    <3>5. (Kept(bucket[u], admitted[u]))' BY <1>6, <3>1, <3>2, <3>3 DEF Kept
    <3> QED BY <3>4, <3>5
  <2>2. CASE u # t BY <1>1, <1>3, <1>8, <2>2 DEF LimitInv, Kept, Covered, Fits
  <2> QED BY <2>1, <2>2
<1> QED BY <1>7, <1>9 DEF LimitInv

LEMMA LimitStep ==
  ASSUME ClockOK, LimitInv, [GatesNext]_vars
  PROVE  LimitInv'
<1>1. CASE \E t \in Tenants : Allow(t) BY <1>1, RefuseKeeps, AdmitKeeps
<1>2. ASSUME UNCHANGED limits PROVE LimitInv'
  <2>1. now \in Nat /\ now' \in Nat /\ now' >= now BY ClockStep DEF ClockOK
  <2>2. ASSUME NEW u \in Tenants PROVE (Kept(bucket[u], admitted[u]) /\ Fits(admitted[u]))'
    <3>1. Kept(bucket[u], admitted[u]) /\ Fits(admitted[u]) BY DEF LimitInv
    <3>2. CASE bucket[u] = NoBucket /\ admitted[u] = << >>
      BY <1>2, <3>1, <3>2 DEF limits, Kept, Fits
    <3>3. CASE /\ bucket[u] \in [last : Nat, parts : Nat] /\ bucket[u].last <= now
               /\ bucket[u].parts <= Full /\ Covered(bucket[u], admitted[u])
      <4>1. bucket[u].last <= now' BY <2>1, <3>3
      <4> QED BY <1>2, <3>1, <3>3, <4>1 DEF limits, Kept, Covered, Fits
    <3> QED BY <3>1, <3>2, <3>3 DEF Kept
  <2> QED BY <1>2, <2>2 DEF limits, LimitInv
<1>3. CASE BreakerNext \/ Tick
  <2>1. UNCHANGED limits BY <1>3 DEF BreakerNext, Tick, Ask, Succeed, Fail, Leave
  <2> QED BY <1>2, <2>1
<1>4. CASE ClearNext
  <2>1. UNCHANGED limits
    <3>1. CASE \E k \in Clears : \E dry \in BOOLEAN : BeginClear(k, dry)
      BY <3>1 DEF BeginClear
    <3>2. CASE \E k \in Clears : Step(k)
      <4>1. PICK k \in Clears : Step(k) BY <3>2
      <4>2. UNCHANGED <<now, limits, breaker, writing, old, calls>> BY <4>1 DEF Step
      <4> QED BY <4>2
    <3>3. CASE \E k \in Clears : Cut(k) BY <3>3 DEF Cut
    <3>4. CASE \E e \in Entries : WriteVector(e) BY <3>4 DEF WriteVector
    <3>5. CASE \E e \in Entries : WriteNode(e) \/ DeleteVector(e)
      BY <3>5 DEF WriteNode, DeleteVector
    <3> QED BY <1>4, <3>1, <3>2, <3>3, <3>4, <3>5 DEF ClearNext
  <2> QED BY <1>2, <2>1
<1>5. CASE UNCHANGED vars BY <1>2, <1>5 DEF vars
<1> QED BY <1>1, <1>3, <1>4, <1>5 DEF GatesNext, LimitNext

\* Over every interval, a tenant gets no more than a burst and what the rate adds.
THEOREM RateIsBounded == GatesSpec => []RateBounded
<1>1. GatesInit => ClockOK /\ LimitInv BY ClockInit, LimitInit
<1>2. (ClockOK /\ LimitInv) /\ [GatesNext]_vars => (ClockOK /\ LimitInv)'
  BY ClockStep, LimitStep
<1>3. ClockOK /\ LimitInv => RateBounded BY DEF LimitInv, RateBounded
<1> QED BY <1>1, <1>2, <1>3, PTL DEF GatesSpec

-----------------------------------------------------------------------------
(* The types, from the invariants of the parts.                            *)

Counted ==
  /\ now \in 0 .. MaxTime /\ calls \in 0 .. MaxCalls /\ faults \in 0 .. MaxFaults
  /\ openUntil \in 0 .. MaxTime + Cooldown
  /\ query \in [Queries -> BOOLEAN]

LEMMA CountedInit == GatesInit => Counted
  BY GateAssumption DEF GatesInit, Counted

LEMMA CountedStep ==
  ASSUME Counted, [GatesNext]_vars
  PROVE  Counted'
<1>1. MaxTime \in Nat /\ MaxCalls \in Nat /\ MaxFaults \in Nat /\ Cooldown \in Nat
  BY GateAssumption
<1> USE <1>1 DEF Counted
<1>2. CASE Tick BY <1>2 DEF Tick, breaker
<1>3. CASE \E t \in Tenants : Allow(t) BY <1>3 DEF Allow, Call, breaker
<1>4. CASE \E q \in Queries : Ask(q) BY <1>4 DEF Ask, Call
<1>5. CASE \E q \in Queries : Succeed(q) BY <1>5 DEF Succeed
<1>6. CASE \E q \in Queries : Fail(q)
  <2>1. PICK q \in Queries : Fail(q) BY <1>6
  <2>2. query' \in [Queries -> BOOLEAN] BY <2>1 DEF Fail
  <2>3. openUntil' = openUntil \/ openUntil' = now + Cooldown BY <2>1 DEF Fail
  <2> QED BY <2>1, <2>2, <2>3 DEF Fail
<1>7. CASE \E q \in Queries : Leave(q) BY <1>7 DEF Leave
<1>8. CASE \E k \in Clears : \E dry \in BOOLEAN : BeginClear(k, dry)
  <2>1. UNCHANGED <<now, breaker, faults>> /\ Call BY <1>8 DEF BeginClear
  <2> QED BY <2>1 DEF breaker, Call
<1>9. CASE \E k \in Clears : Step(k)
  <2>1. PICK k \in Clears : Step(k) BY <1>9
  <2>2. UNCHANGED <<now, breaker, calls>> /\ (UNCHANGED faults \/ Fault) BY <2>1 DEF Step
  <2> QED BY <2>2 DEF breaker, Fault
<1>10. CASE \E k \in Clears : Cut(k)
  <2>1. PICK k \in Clears : Cut(k) BY <1>10
  <2>2. UNCHANGED <<now, breaker, calls>> /\ Fault BY <2>1 DEF Cut
  <2> QED BY <2>2 DEF breaker, Fault
<1>11. CASE \E e \in Entries : WriteVector(e) BY <1>11 DEF WriteVector, Call, breaker
<1>12. CASE \E e \in Entries : WriteNode(e) \/ DeleteVector(e)
  BY <1>12 DEF WriteNode, DeleteVector, Call, breaker
<1>13. CASE UNCHANGED vars BY <1>13 DEF vars, breaker
<1> QED BY <1>2, <1>3, <1>4, <1>5, <1>6, <1>7, <1>8, <1>9, <1>10, <1>11, <1>12, <1>13
        DEF GatesNext, LimitNext, BreakerNext, ClearNext

\* Every variable keeps its type, the counters of the breaker and the buckets
\* within their limits.
THEOREM GatesTypes == GatesSpec => []GatesTypeOK
<1> DEFINE Inv == Counted /\ ClockOK /\ BreakerInv /\ WipeInv /\ LimitInv
<1>1. GatesInit => Inv BY ClockInit, CountedInit, BreakerInit, WipeInit, LimitInit
<1>2. Inv /\ [GatesNext]_vars => Inv'
  BY ClockStep, CountedStep, BreakerStep, WipeStep, LimitStep
<1>3. Inv => GatesTypeOK
  <2>1. SUFFICES ASSUME Inv PROVE GatesTypeOK OBVIOUS
  <2>2. ASSUME NEW t \in Tenants
        PROVE  bucket[t] = NoBucket \/ bucket[t] \in [last : 0 .. now, parts : 0 .. Full]
    <3>1. Kept(bucket[t], admitted[t]) BY <2>1 DEF LimitInv
    <3> QED BY <3>1, FullType DEF Kept, Counted
  <2>3. failures \in 0 .. Threshold - 1
    <3>1. Threshold \in Nat \ {0} /\ streak \in Nat /\ failures = streak % Threshold
      BY <2>1, GateAssumption DEF BreakerInv, BreakerFollowsStreak
    <3>2. streak % Threshold \in 0 .. Threshold - 1 BY <3>1, Divided
    <3> QED BY <3>1, <3>2
  <2>4. WipeTypes BY <2>1 DEF WipeInv
  <2> QED BY <2>1, <2>2, <2>3, <2>4 DEF GatesTypeOK, Counted, WipeTypes
<1> QED BY <1>1, <1>2, <1>3, PTL DEF GatesSpec

-----------------------------------------------------------------------------
(* The queries: sets of the first few, and the orders they come in.        *)

\* Of some numbers one is the least, and of finitely many one the greatest.
LEMMA LeastNumber ==
  ASSUME NEW T \in SUBSET Nat, T # {}
  PROVE  \E n \in T : \A m \in T : ~(m < n)
<1> DEFINE R == OpToRel(<, Nat)
<1>1. IsWellFoundedOn(R, Nat)
  BY NatLessThanWellFounded
<1>2. PICK n \in T : \A m \in T : ~ (<<m, n>> \in R)
  <2> HIDE DEF R
  <2> QED BY <1>1, WFMin
<1>3. \A m \in T : ~ (m < n)
  BY <1>2, Zenon DEF OpToRel
<1> QED BY <1>3

LEMMA GreatestNumber ==
  ASSUME NEW T \in SUBSET Nat, T # {}, NEW b \in Nat, \A m \in T : m <= b
  PROVE  Max(T) \in T /\ \A m \in T : m <= Max(T)
<1> DEFINE U == {k \in 0 .. b : b - k \in T}
<1>1. U \in SUBSET Nat /\ U # {}
  <2>1. PICK m \in T : TRUE
    OBVIOUS
  <2>2. m \in Nat /\ m <= b /\ b - (b - m) = m /\ b - m \in 0 .. b
    BY <2>1
  <2>3. b - m \in U
    BY <2>2
  <2>4. U \subseteq Nat
    OBVIOUS
  <2> HIDE DEF U
  <2> QED BY <2>3, <2>4
<1>2. PICK n \in U : \A k \in U : ~(k < n)
  <2> HIDE DEF U
  <2> QED BY <1>1, LeastNumber
<1>3. b - n \in T /\ n \in 0 .. b
  BY <1>2
<1>4. \A m \in T : b - n >= m
  <2> SUFFICES ASSUME NEW m \in T PROVE b - n >= m
    OBVIOUS
  <2>1. m \in Nat /\ m <= b /\ b - (b - m) = m /\ b - m \in 0 .. b
    OBVIOUS
  <2>2. b - m \in U
    BY <2>1
  <2>3. ~(b - m < n)
    BY <1>2, <2>2
  <2> QED BY <1>3, <2>1, <2>3
<1>5. \E x \in T : \A y \in T : x >= y
  BY <1>3, <1>4
<1>6. Max(T) \in T /\ \A y \in T : Max(T) >= y
  <2> HIDE DEF U
  <2> QED BY <1>5 DEF Max
<1> QED BY <1>6

LEMMA SmallerOfTwo ==
  ASSUME NEW a \in Nat, NEW b \in Nat
  PROVE  Min({a, b}) = IF a <= b THEN a ELSE b
  BY DEF Min

\* A query returns some of what matches, and all of it within its limit.
LEMMA FirstFew ==
  ASSUME NEW S, IsFiniteSet(S), NEW n \in Nat, NEW f, NEW R \in LeastOf(S, n, f)
  PROVE  /\ R \subseteq S /\ IsFiniteSet(R)
         /\ Cardinality(S) <= n \/ Cardinality(R) < n => R = S
<1>1. R \in SUBSET S /\ Cardinality(R) = Min({n, Cardinality(S)})
  BY DEF LeastOf
<1>2. IsFiniteSet(R) /\ Cardinality(R) \in Nat /\ Cardinality(S) \in Nat
      /\ (Cardinality(S) = Cardinality(R) => S = R)
  BY <1>1, FS_Subset, FS_CardinalityType
<1>3. Cardinality(R) = IF n <= Cardinality(S) THEN n ELSE Cardinality(S)
  BY <1>1, <1>2, SmallerOfTwo
<1> QED BY <1>1, <1>2, <1>3

\* A finite set in a row: each of its elements once.
LEMMA InARow ==
  ASSUME NEW R, IsFiniteSet(R), NEW s \in SetToSeqs(R)
  PROVE  /\ s \in Seq(R) /\ Len(s) = Cardinality(R) /\ DOMAIN s = 1 .. Cardinality(R)
         /\ Range(s) = R
         /\ \A i, j \in DOMAIN s : s[i] = s[j] => i = j
<1> DEFINE n == Cardinality(R)
           D == 1 .. n
<1>1. s \in [D -> R] /\ \A i, j \in D : i # j => s[i] # s[j]
  BY DEF SetToSeqs
<1>2. n \in Nat
  BY FS_CardinalityType
<1>3. IsFiniteSet(D) /\ Cardinality(D) = n
  BY <1>2, FS_Interval
<1>4. s \in Injection(D, R)
  <2> HIDE DEF D
  <2> QED BY <1>1, Zenon DEF Injection, IsInjective
<1>5. s \in Surjection(D, R)
  <2> HIDE DEF D
  <2> QED BY <1>3, <1>4, FS_Injection
<1>6. Range(s) = R
  <2> HIDE DEF D
  <2> QED BY <1>1, <1>5 DEF Surjection, Range
<1> QED BY <1>1, <1>2, <1>6

InTime(s) == \A i, j \in DOMAIN s : i < j => date[s[i]] <= date[s[j]]

QueryTools == {"time_since", "quotes", "relations", "profile", "timeline", "entities", "topics"}
Walks == {"entities", "topics"}

\* The kinds of values, and what each stage of a call may take for granted.
Stages ==
  /\ at \in {"resolve", "find", "meet", "again", "ids", "collect", "count", "page"} \cup Ended
  /\ at \in {"resolve", "find"} => asked.tool \notin Walks /\ quoted = {}
  /\ at = "resolve" => asked.name # Nothing
  /\ at = "meet" => asked.tool = "time_since" /\ asked.topic # Nothing /\ asked.entity # Nothing
  /\ at = "again" => asked.tool = "profile"
  /\ at = "collect" => asked.tool \in {"quotes", "profile"}
  /\ at = "ids" => ByRetrieval
  /\ at \in {"count", "page"} => asked.tool \in Walks

AskedRecord ==
  [tool : QueryTools, agent : BOOLEAN, name : Names \cup {Nothing},
   entity : Entities \cup {Nothing}, topic : Topics \cup {Nothing},
   text : BOOLEAN, from : 0 .. MaxDate]
AskedOK ==
  /\ asked \in AskedRecord
  /\ asked.tool = "profile" => asked.topic = Nothing
  /\ asked.tool = "timeline" => asked.topic # Nothing

GraphTypes ==
  /\ stored \subseteq Events /\ added \subseteq Events /\ removed \subseteq Events
  /\ stored \cap removed = {} /\ added \subseteq stored \cup removed
  /\ date \in [Events -> 0 .. MaxDate] /\ reachable \in BOOLEAN
FoundTypes ==
  /\ rows \in Seq(Events) /\ quoted \subseteq Events \X Entities
  /\ listed \subseteq Entities \cup Topics /\ page \in [total : Nat, offset : Nat, pages : Nat]
  /\ dark \in BOOLEAN
QueryTypes == GraphTypes /\ AskedOK /\ FoundTypes /\ Stages

LEMMA QueryConstants ==
  /\ EventLimit \in Nat \ {0} /\ QuoteLimit \in Nat \ {0} /\ PageSize \in Nat \ {0}
  /\ EntityLimit \in Nat \ {0} /\ MaxPages \in Nat \ {0} /\ MaxDate \in Nat
  /\ Involves \in [Events -> SUBSET Entities] /\ Speakers \in [Events -> SUBSET Entities]
  /\ TopicOf \in [Events -> Topics] /\ NamedBy \in [Names -> SUBSET Entities]
  /\ Nothing \notin Entities /\ Nothing \notin Topics /\ Nothing \notin Names
  /\ IsFiniteSet(Events) /\ IsFiniteSet(Entities) /\ IsFiniteSet(Topics)
  BY QueryAssumption

LEMMA LimitType ==
  ASSUME AskedOK
  PROVE  Limit \in Nat /\ (asked.tool = "profile" => Limit = QuoteLimit)
                       /\ (asked.tool = "timeline" => Limit = EventLimit)
  BY QueryConstants DEF Limit, AskedOK, AskedRecord

LEMMA EventsFinite ==
  ASSUME NEW S \in SUBSET Events
  PROVE  IsFiniteSet(S)
  BY QueryConstants, FS_Subset

\* The rows of one query: events that match, all of them within the limit, and
\* those of a timeline by date.
LEMMA InOrder ==
  ASSUME NEW R \in SUBSET Events, NEW before, NEW s \in Orderings(R, before)
  PROVE  /\ s \in Seq(Events) /\ Range(s) = R /\ DOMAIN s = 1 .. Len(s)
         /\ \A i, j \in DOMAIN s : s[i] = s[j] => i = j
         /\ \A i, j \in DOMAIN s : <<s[i], s[j]>> \in before => i < j
<1>1. IsFiniteSet(R)
  BY EventsFinite
<1>2. s \in SetToSeqs(R) /\ \A i, j \in DOMAIN s : <<s[i], s[j]>> \in before => i < j
  BY DEF Orderings
<1>3. /\ s \in Seq(R) /\ Len(s) = Cardinality(R) /\ DOMAIN s = 1 .. Cardinality(R)
      /\ Range(s) = R
      /\ \A i, j \in DOMAIN s : s[i] = s[j] => i = j
  BY <1>1, <1>2, InARow
<1>4. s \in Seq(Events)
  BY <1>3
<1> QED BY <1>2, <1>3, <1>4

LEMMA OrderedByDate ==
  ASSUME GraphTypes, NEW R \in SUBSET Events, NEW s \in Orderings(R, Earlier)
  PROVE  InTime(s)
<1>1. /\ s \in Seq(Events) /\ DOMAIN s = 1 .. Len(s)
      /\ \A i, j \in DOMAIN s : <<s[i], s[j]>> \in Earlier => i < j
  BY InOrder
<1> SUFFICES ASSUME NEW i \in DOMAIN s, NEW j \in DOMAIN s, i < j, ~(date[s[i]] <= date[s[j]])
             PROVE  FALSE
  BY DEF InTime
<1>2. s[i] \in Events /\ s[j] \in Events /\ i \in Nat /\ j \in Nat
  BY <1>1
<1>3. date[s[i]] \in Nat /\ date[s[j]] \in Nat
  BY <1>2, QueryConstants DEF GraphTypes
<1>4. <<s[j], s[i]>> \in Earlier
  BY <1>2, <1>3 DEF Earlier
<1>5. j < i
  BY <1>1, <1>4, Zenon
<1> QED BY <1>2, <1>5

Sought == IF asked.topic = Nothing THEN OfEntity(stored) ELSE Candidates(stored)

LEMMA SoughtType ==
  ASSUME GraphTypes
  PROVE  Sought \subseteq stored /\ Sought \subseteq Events
  BY DEF GraphTypes, Sought, OfEntity, Candidates, OfTopic

LEMMA Fetched ==
  ASSUME GraphTypes, dark \in BOOLEAN, NEW n \in Nat, Fetch(n)
  PROVE  /\ rows' \in Seq(Events) /\ Range(rows') \subseteq Sought
         /\ ~dark' /\ Cardinality(Sought) <= n => Range(rows') = Sought
         /\ asked.topic # Nothing => InTime(rows')
         /\ dark' \in BOOLEAN /\ (~dark' => ~dark)
<1> DEFINE got == Answered(Sought)
<1>1. got \subseteq Sought /\ Sought \subseteq Events /\ (~dark' => got = Sought)
  BY SoughtType DEF Answered, Fetch, Look, GraphTypes
<1>2. PICK R \in LeastOf(got, n, date) :
        IF asked.topic = Nothing THEN rows' \in Orderings(R, Fresher)
                                 ELSE rows' \in Orderings(R, Earlier)
  <2>1. CASE asked.topic = Nothing
    <3>1. got = Answered(OfEntity(stored))
      BY <2>1 DEF Sought
    <3>2. rows' \in UNION {Orderings(R, Fresher) : R \in LeastOf(got, n, date)}
      <4> HIDE DEF got
      <4> QED BY <2>1, <3>1 DEF Fetch, EventsOf
    <3> HIDE DEF got
    <3> QED BY <2>1, <3>2
  <2>2. CASE asked.topic # Nothing
    <3>1. got = Answered(Candidates(stored))
      BY <2>2 DEF Sought
    <3>2. rows' \in UNION {Orderings(R, Earlier) : R \in LeastOf(got, n, date)}
      <4> HIDE DEF got
      <4> QED BY <2>2, <3>1 DEF Fetch, Timeline
    <3> HIDE DEF got
    <3> QED BY <2>2, <3>2
  <2> QED BY <2>1, <2>2
<1> HIDE DEF got
<1>3. IsFiniteSet(got) /\ got \in SUBSET Events
  BY <1>1, EventsFinite
<1>4. R \subseteq got /\ (Cardinality(got) <= n => R = got)
  BY <1>2, <1>3, FirstFew
<1>5. R \in SUBSET Events
  BY <1>1, <1>4
<1>6. rows' \in Seq(Events) /\ Range(rows') = R
  BY <1>2, <1>5, InOrder
<1>7. asked.topic # Nothing => InTime(rows')
  BY <1>2, <1>5, OrderedByDate
<1>8. dark' \in BOOLEAN /\ (~dark' => ~dark)
  BY DEF Fetch, Look, GraphTypes
<1> QED BY <1>1, <1>4, <1>6, <1>7, <1>8

-----------------------------------------------------------------------------
(* The queries: types.                                                     *)

LEMMA NamedType ==
  ASSUME NEW w \in Named \cup {NoOne}
  PROVE  w[1] \in BOOLEAN /\ w[2] \in Names \cup {Nothing} /\ w[3] \in Entities \cup {Nothing}
<1>1. CASE w = <<FALSE, Nothing, Nothing>>
  BY <1>1
<1>2. CASE w \in {TRUE, FALSE} \X Names \X {Nothing}
  BY <1>2
<1>3. CASE w \in {FALSE} \X {Nothing} \X Entities
  BY <1>3
<1> QED BY <1>1, <1>2, <1>3 DEF Named, NoOne

LEMMA RequestType ==
  ASSUME NEW tool \in QueryTools, NEW w \in Named \cup {NoOne}, NEW topic \in Topics \cup {Nothing},
         NEW text \in BOOLEAN, NEW from \in 0 .. MaxDate
  PROVE  Request(tool, w, topic, text, from) \in AskedRecord
  BY NamedType DEF Request, AskedRecord

LEMMA RequestsType ==
  ASSUME asked \in Requests
  PROVE  AskedOK /\ (asked.tool \in Walks => asked.name = Nothing)
<1>0. 0 \in 0 .. MaxDate /\ Nothing \notin Topics
  BY QueryConstants
<1>1. CASE asked \in TimeRequests \cup QuoteRequests
  <2>1. PICK x \in About, from \in 0 .. MaxDate :
          \/ asked = Request("time_since", x[1], x[2], FALSE, from)
          \/ asked = Request("quotes", x[1], x[2], FALSE, from)
    <3>1. CASE asked \in TimeRequests
      <4>1. PICK x \in About, from \in 0 .. MaxDate :
              asked = Request("time_since", x[1], x[2], FALSE, from)
        BY <3>1 DEF TimeRequests, Froms, Request
      <4> QED BY <4>1
    <3>2. CASE asked \in QuoteRequests
      <4>1. PICK x \in About, from \in 0 .. MaxDate :
              asked = Request("quotes", x[1], x[2], FALSE, from)
        BY <3>2 DEF QuoteRequests, Froms, Request
      <4> QED BY <4>1
    <3> QED BY <1>1, <3>1, <3>2
  <2>2. x[1] \in Named \cup {NoOne} /\ x[2] \in Topics \cup {Nothing}
    BY DEF About
  <2>3. asked \in AskedRecord
    BY <2>1, <2>2, RequestType DEF QueryTools
  <2>4. asked.tool \in {"time_since", "quotes"}
    BY <2>1 DEF Request
  <2> QED BY <2>3, <2>4 DEF AskedOK, Walks
<1>2. CASE asked \in RelationRequests \cup ProfileRequests
  <2>1. PICK w \in Named, from \in 0 .. MaxDate :
          \/ asked = Request("relations", w, Nothing, FALSE, from)
          \/ asked = Request("profile", w, Nothing, FALSE, 0)
    <3>1. CASE asked \in RelationRequests
      <4>1. PICK w \in Named, from \in 0 .. MaxDate :
              asked = Request("relations", w, Nothing, FALSE, from)
        BY <3>1 DEF RelationRequests, Froms, Request
      <4> QED BY <4>1
    <3>2. CASE asked \in ProfileRequests
      <4>1. PICK w \in Named : asked = Request("profile", w, Nothing, FALSE, 0)
        BY <3>2 DEF ProfileRequests
      <4> QED BY <1>0, <4>1
    <3> QED BY <1>2, <3>1, <3>2
  <2>2. asked \in AskedRecord
    BY <1>0, <2>1, RequestType DEF QueryTools
  <2>3. asked.tool \in {"relations", "profile"} /\ asked.topic = Nothing
    BY <2>1 DEF Request
  <2> QED BY <2>2, <2>3 DEF AskedOK, Walks
<1>3. CASE asked \in TimelineRequests
  <2>1. PICK t \in Topics, text \in BOOLEAN, from \in 0 .. MaxDate :
          asked = Request("timeline", NoOne, t, text, from)
    BY <1>3 DEF TimelineRequests, Froms
  <2>2. asked \in AskedRecord
    BY <2>1, RequestType DEF QueryTools
  <2>3. asked.tool = "timeline" /\ asked.topic = t
    BY <2>1 DEF Request
  <2> QED BY <1>0, <2>2, <2>3 DEF AskedOK, Walks
<1>4. CASE asked \in EntityListRequests \cup TopicListRequests
  <2>1. PICK from \in 0 .. MaxDate :
          \/ asked = Request("entities", NoOne, Nothing, FALSE, from)
          \/ asked = Request("topics", NoOne, Nothing, FALSE, 0)
    BY <1>4, <1>0, Zenon DEF EntityListRequests, TopicListRequests, Froms
  <2>2. asked \in AskedRecord
    BY <1>0, <2>1, RequestType DEF QueryTools
  <2>3. asked.tool \in {"entities", "topics"} /\ asked.name = Nothing
    BY <2>1 DEF Request, NoOne
  <2> QED BY <2>2, <2>3 DEF AskedOK
<1> QED BY <1>1, <1>2, <1>3, <1>4 DEF Requests

LEMMA QueryTypesInit == QueryInit => QueryTypes
<1> SUFFICES ASSUME QueryInit PROVE QueryTypes
  OBVIOUS
<1>1. GraphTypes
  BY DEF QueryInit, GraphTypes
<1>2. AskedOK /\ (asked.tool \in Walks => asked.name = Nothing)
  BY RequestsType DEF QueryInit
<1>3. FoundTypes
  <2>1. /\ rows = <<>> /\ quoted = {} /\ listed = {} /\ dark = FALSE
        /\ page = [total |-> 0, offset |-> 0, pages |-> 0]
    BY DEF QueryInit
  <2>2. page \in [total : Nat, offset : Nat, pages : Nat]
    BY <2>1
  <2>3. rows \in Seq(Events)
    BY <2>1
  <2> QED BY <2>1, <2>2, <2>3 DEF FoundTypes
<1>4. Stages
  <2>0. at = IF asked.tool \in {"entities", "topics"} THEN "count"
             ELSE IF asked.name # Nothing THEN "resolve" ELSE "find"
    BY DEF QueryInit
  <2>1. CASE asked.tool \in Walks
    <3>1. at = "count"
      BY <1>2, <2>0, <2>1 DEF Walks
    <3> QED BY <2>1, <3>1 DEF Stages
  <2>2. CASE asked.tool \notin Walks /\ asked.name # Nothing
    <3>1. at = "resolve" /\ quoted = {}
      BY <2>0, <2>2 DEF QueryInit, Walks
    <3> QED BY <2>2, <3>1 DEF Stages
  <2>3. CASE asked.tool \notin Walks /\ asked.name = Nothing
    <3>1. at = "find" /\ quoted = {}
      BY <2>0, <2>3 DEF QueryInit, Walks
    <3> QED BY <2>3, <3>1 DEF Stages
  <2> QED BY <2>1, <2>2, <2>3
<1> QED BY <1>1, <1>2, <1>3, <1>4 DEF QueryTypes

LEMMA QuotesType ==
  ASSUME NEW e \in Events
  PROVE  QuotesOf(e) \subseteq Events \X Entities
  BY QueryConstants DEF QuotesOf

LEMMA SeqOfEvents ==
  ASSUME NEW s \in Seq(Events), s # << >>
  PROVE  /\ Head(s) \in Events /\ Tail(s) \in Seq(Events)
         /\ Range(s) = {Head(s)} \cup Range(Tail(s))
<1>1. /\ Head(s) = s[1] /\ 1 \in DOMAIN s /\ DOMAIN s = 1 .. Len(s) /\ Len(s) \in Nat
      /\ \A i \in DOMAIN s : s[i] \in Events
  OBVIOUS
<1>2. /\ Tail(s) \in Seq(Events) /\ DOMAIN Tail(s) = 1 .. Len(s) - 1
      /\ \A i \in 1 .. Len(s) - 1 : Tail(s)[i] = s[i + 1]
  OBVIOUS
<1>3. ASSUME NEW i \in DOMAIN s
      PROVE  s[i] \in {Head(s)} \cup Range(Tail(s))
  <2>1. CASE i = 1
    BY <1>1, <2>1
  <2>2. CASE i # 1
    <3>1. i - 1 \in 1 .. Len(s) - 1 /\ i - 1 + 1 = i
      BY <1>1, <2>2
    <3>2. Tail(s)[i - 1] = s[i]
      BY <1>2, <3>1
    <3> QED BY <1>2, <3>1, <3>2 DEF Range
  <2> QED BY <2>1, <2>2
<1>4. ASSUME NEW i \in DOMAIN Tail(s)
      PROVE  Tail(s)[i] \in Range(s)
  <2>1. i + 1 \in DOMAIN s /\ Tail(s)[i] = s[i + 1]
    BY <1>1, <1>2
  <2> QED BY <2>1 DEF Range
<1>5. Range(s) \subseteq {Head(s)} \cup Range(Tail(s))
  BY <1>3 DEF Range
<1>6. {Head(s)} \cup Range(Tail(s)) \subseteq Range(s)
  BY <1>1, <1>4 DEF Range
<1> QED BY <1>1, <1>2, <1>5, <1>6

\* A call's own steps leave the graph alone, and all but Resolve what was asked.
LEMMA GraphKept ==
  ASSUME GraphTypes, UNCHANGED graph
  PROVE  /\ GraphTypes' /\ Always' = Always /\ Ever' = Ever
         /\ UNCHANGED <<stored, date, reachable, added, removed>>
  BY DEF graph, GraphTypes, Always, Ever

LEMMA AskedKept ==
  ASSUME AskedOK, UNCHANGED asked
  PROVE  AskedOK' /\ (ByRetrieval' <=> ByRetrieval)
  BY DEF AskedOK, ByRetrieval

LEMMA ResolveTypes ==
  ASSUME QueryTypes, Resolve
  PROVE  QueryTypes'
<1> USE DEF QueryTypes
<1>1. GraphTypes'
  BY GraphKept DEF Resolve
<1>2. at = "resolve" /\ asked.name # Nothing /\ asked.tool \notin Walks /\ quoted = {}
  BY DEF Resolve, Stages
<1>3. PICK r \in Resolutions :
        /\ asked' = [asked EXCEPT !.entity = r.entity]
        /\ at' = IF asked.agent THEN AgentGoes(r) ELSE EndpointGoes(r)
  BY DEF Resolve
<1>4. r.entity \in Entities \cup {Nothing}
  <2>1. asked.name \in Names
    BY <1>2 DEF AskedOK, AskedRecord
  <2>2. Hits \subseteq Entities
    BY <2>1, QueryConstants DEF Hits, Answered
  <2> QED BY <2>2 DEF Resolutions
<1>5. AskedOK' /\ asked'.tool = asked.tool
  BY <1>3, <1>4 DEF AskedOK, AskedRecord
<1>6. at' \in {"unknown", "ambiguous", "find"}
  BY <1>3 DEF AgentGoes, EndpointGoes
<1>7. FoundTypes' /\ quoted' = quoted
  BY DEF Resolve, FoundTypes, found, Look, GraphTypes
<1>8. Stages'
  BY <1>2, <1>5, <1>6, <1>7 DEF Stages, Ended
<1> QED BY <1>1, <1>5, <1>7, <1>8

LEMMA EndTypes ==
  ASSUME QueryTypes, Drop \/ Raise
  PROVE  QueryTypes'
<1> USE DEF QueryTypes
<1>1. UNCHANGED graph /\ UNCHANGED asked /\ UNCHANGED found /\ dark' \in BOOLEAN
  BY DEF Drop, Raise, FoundTypes
<1>2. at' \in {"unknown", "error"}
  BY DEF Drop, Raise
<1>3. FoundTypes'
  BY <1>1 DEF FoundTypes, found
<1>4. Stages'
  BY <1>1, <1>2 DEF Stages, Ended
<1> QED BY <1>1, <1>3, <1>4, GraphKept, AskedKept

\* A step that fetches rows, or puts others in their place.
LEMMA RowsTypes ==
  ASSUME QueryTypes, UNCHANGED graph, UNCHANGED <<asked, listed, page>>,
         rows' \in Seq(Events), dark' \in BOOLEAN, quoted' \subseteq Events \X Entities
  PROVE  GraphTypes' /\ AskedOK' /\ FoundTypes' /\ (ByRetrieval' <=> ByRetrieval)
<1>1. FoundTypes'
  BY DEF QueryTypes, FoundTypes
<1> QED BY <1>1, GraphKept, AskedKept DEF QueryTypes

LEMMA LimitsTypes ==
  ASSUME AskedOK
  PROVE  Limit \in Nat /\ 3 * QuoteLimit \in Nat
  BY LimitType, QueryConstants

LEMMA FindTypes ==
  ASSUME QueryTypes, FindMentions \/ FindSaid \/ FindRecent \/ FindTimeline \/ Again
  PROVE  QueryTypes'
<1> USE DEF QueryTypes
<1>1. UNCHANGED graph /\ UNCHANGED <<asked, quoted, listed, page>>
  BY DEF FindMentions, FindSaid, FindRecent, FindTimeline, Again
<1>2. rows' \in Seq(Events) /\ dark' \in BOOLEAN
  <2>1. Fetch(Limit) \/ Fetch(3 * QuoteLimit)
    BY DEF FindMentions, FindSaid, FindRecent, FindTimeline, Again
  <2> QED BY <2>1, Fetched, LimitsTypes DEF FoundTypes
<1>3. GraphTypes' /\ AskedOK' /\ FoundTypes'
  BY <1>1, <1>2, RowsTypes DEF FoundTypes
<1>4. Stages'
  <2>1. CASE FindMentions
    <3>1. /\ asked.tool = "time_since"
          /\ \/ at' = "done"
             \/ at' = "meet" /\ asked.entity # Nothing /\ asked.topic # Nothing
      BY <2>1 DEF FindMentions
    <3> QED BY <1>1, <3>1 DEF Stages, Ended
  <2>2. CASE FindSaid
    BY <1>1, <2>2 DEF Stages, FindSaid
  <2>3. CASE FindRecent
    <3>1. asked.tool = "profile" /\ at' \in {"again", "collect"}
      BY <2>3 DEF FindRecent
    <3> QED BY <1>1, <3>1 DEF Stages
  <2>4. CASE FindTimeline
    BY <1>1, <2>4 DEF Stages, FindTimeline, Ended
  <2>5. CASE Again
    BY <1>1, <2>5 DEF Stages, Again
  <2> QED BY <2>1, <2>2, <2>3, <2>4, <2>5
<1> QED BY <1>3, <1>4

LEMMA RetrieveTypes ==
  ASSUME QueryTypes, Retrieve
  PROVE  QueryTypes'
<1> USE DEF QueryTypes
<1>1. PICK R \in SUBSET (stored \cup removed) : rows' \in SetToSeqs(R)
  BY DEF Retrieve
<1>2. R \in SUBSET Events
  BY DEF GraphTypes
<1>3. rows' \in Seq(R)
  BY <1>1, <1>2, EventsFinite, InARow
<1>4. rows' \in Seq(Events)
  BY <1>2, <1>3
<1>5. /\ UNCHANGED graph /\ UNCHANGED <<asked, quoted, listed, page, dark>>
      /\ at' = "ids" /\ ByRetrieval
  BY DEF Retrieve
<1>6. GraphTypes' /\ AskedOK' /\ FoundTypes' /\ (ByRetrieval' <=> ByRetrieval)
  BY <1>4, <1>5, RowsTypes DEF FoundTypes
<1>7. Stages'
  BY <1>5, <1>6 DEF Stages, Ended
<1> QED BY <1>6, <1>7

LEMMA IdsTypes ==
  ASSUME QueryTypes, ReadIds
  PROVE  QueryTypes'
<1> USE DEF QueryTypes
<1> DEFINE S == IF rows = <<>> THEN Candidates(stored) ELSE WithIds(Range(rows), stored)
<1>1. S \subseteq Events
  BY DEF GraphTypes, Candidates, OfTopic, OfEntity, WithIds
<1>2. Answered(S) \in SUBSET Events
  BY <1>1 DEF Answered
<1>3. PICK R \in LeastOf(Answered(S), EventLimit, date) : rows' \in Orderings(R, Earlier)
  <2>1. rows' \in UNION {Orderings(R, Earlier) : R \in LeastOf(Answered(S), EventLimit, date)}
    BY Zenon DEF ReadIds, Timeline
  <2> HIDE DEF S
  <2> QED BY <2>1
<1> HIDE DEF S
<1>4. R \in SUBSET Events
  <2>1. IsFiniteSet(Answered(S)) /\ EventLimit \in Nat
    BY <1>2, EventsFinite, QueryConstants
  <2>2. R \subseteq Answered(S)
    BY <1>3, <2>1, FirstFew
  <2> QED BY <1>2, <2>2
<1>5. rows' \in Seq(Events)
  BY <1>3, <1>4, InOrder
<1>6. /\ UNCHANGED graph /\ UNCHANGED <<asked, quoted, listed, page>> /\ at' = "done"
      /\ dark' \in BOOLEAN
  BY DEF ReadIds, Look, GraphTypes, FoundTypes
<1>7. GraphTypes' /\ AskedOK' /\ FoundTypes'
  BY <1>5, <1>6, RowsTypes DEF FoundTypes
<1>8. Stages'
  BY <1>6 DEF Stages, Ended
<1> QED BY <1>7, <1>8

LEMMA MeetRows ==
  ASSUME QueryTypes, Meet
  PROVE  \E ids \in LeastOf(Answered(OfEntity(stored)), EntityLimit, date) :
           /\ ids \subseteq OfEntity(stored)
           /\ ~dark' /\ Cardinality(OfEntity(stored)) <= EntityLimit => ids = OfEntity(stored)
           /\ rows' \in Seq(Events) /\ Range(rows') = Range(rows) \cap ids
           /\ InTime(rows) => InTime(rows')
<1> USE DEF QueryTypes
<1> DEFINE got == Answered(OfEntity(stored))
           inRows == {p \in Events \X Events :
                        \E i, j \in DOMAIN rows : i < j /\ p = <<rows[i], rows[j]>>}
<1>1. PICK ids \in LeastOf(got, EntityLimit, date) :
        rows' \in Orderings(Range(rows) \cap ids, inRows)
  BY Zenon DEF Meet
<1>2. got \subseteq OfEntity(stored) /\ got \in SUBSET Events /\ (~dark' => got = OfEntity(stored))
  BY DEF Meet, Look, Answered, GraphTypes, OfEntity
<1>3. IsFiniteSet(got) /\ EntityLimit \in Nat
  BY <1>2, EventsFinite, QueryConstants
<1>4. ids \subseteq got /\ (Cardinality(got) <= EntityLimit => ids = got)
  <2> HIDE DEF got, inRows
  <2> QED BY <1>1, <1>3, FirstFew
<1> DEFINE R == Range(rows) \cap ids
<1>5. R \in SUBSET Events
  BY <1>2, <1>4
<1>6. /\ rows' \in Seq(Events) /\ Range(rows') = R /\ DOMAIN rows' = 1 .. Len(rows')
      /\ \A i, j \in DOMAIN rows' : rows'[i] = rows'[j] => i = j
      /\ \A i, j \in DOMAIN rows' : <<rows'[i], rows'[j]>> \in inRows => i < j
  <2> HIDE DEF inRows, R
  <2>1. rows' \in Orderings(R, inRows)
    BY <1>1 DEF R
  <2> QED BY <1>5, <2>1, InOrder
<1>7. ASSUME InTime(rows), NEW i \in DOMAIN rows', NEW j \in DOMAIN rows', i < j
      PROVE  date[rows'[i]] <= date[rows'[j]]
  <2>1. rows'[i] \in Range(rows) /\ rows'[j] \in Range(rows)
    BY <1>6 DEF Range
  <2>2. PICK a \in DOMAIN rows : rows[a] = rows'[i]
    BY <2>1 DEF Range
  <2>3. PICK b \in DOMAIN rows : rows[b] = rows'[j]
    BY <2>1 DEF Range
  <2>4. /\ rows'[i] \in Events /\ rows'[j] \in Events
        /\ i \in Nat /\ j \in Nat /\ a \in Nat /\ b \in Nat
    BY <1>6 DEF FoundTypes
  <2>5. a # b
    BY <1>6, <1>7, <2>2, <2>3, <2>4
  <2>6. ~(b < a)
    <3>1. SUFFICES ASSUME b < a PROVE FALSE
      OBVIOUS
    <3>2. <<rows'[j], rows'[i]>> \in inRows
      BY <2>2, <2>3, <2>4, <3>1
    <3>3. j < i
      <4> HIDE DEF inRows
      <4> QED BY <1>6, <3>2, Zenon
    <3> QED BY <1>7, <2>4, <3>3
  <2>7. a < b
    BY <2>4, <2>5, <2>6
  <2>8. date[rows[a]] <= date[rows[b]]
    BY <1>7, <2>7, Zenon DEF InTime
  <2> QED BY <2>2, <2>3, <2>8
<1>8. InTime(rows) => InTime(rows')
  BY <1>7 DEF InTime
<1>9. ~dark' /\ Cardinality(OfEntity(stored)) <= EntityLimit => ids = OfEntity(stored)
  BY <1>2, <1>4
<1> HIDE DEF inRows
<1> QED BY <1>1, <1>2, <1>4, <1>6, <1>8, <1>9

LEMMA MeetTypes ==
  ASSUME QueryTypes, Meet
  PROVE  QueryTypes'
<1> USE DEF QueryTypes
<1>1. rows' \in Seq(Events)
  BY MeetRows
<1>2. /\ UNCHANGED graph /\ UNCHANGED <<asked, quoted, listed, page>> /\ at' = "done"
      /\ dark' \in BOOLEAN
  BY DEF Meet, Look, GraphTypes, FoundTypes
<1>3. GraphTypes' /\ AskedOK' /\ FoundTypes'
  BY <1>1, <1>2, RowsTypes DEF FoundTypes
<1>4. Stages'
  BY <1>2 DEF Stages, Ended
<1> QED BY <1>3, <1>4

\* Collecting: the quotes of the first row are added, or nothing is.
LEMMA CollectStep ==
  ASSUME QueryTypes, Collect
  PROVE  /\ rows # <<>> /\ Head(rows) \in Events /\ rows' = Tail(rows) /\ rows' \in Seq(Events)
         /\ Range(rows) = {Head(rows)} \cup Range(rows')
         /\ quoted \subseteq quoted' /\ quoted' \subseteq quoted \cup QuotesOf(Head(rows))
         /\ dark' \in BOOLEAN /\ (dark => dark')
         /\ ~dark' /\ Head(rows) \in stored => quoted' = quoted \cup QuotesOf(Head(rows))
<1> USE DEF QueryTypes
<1>1. rows # <<>> /\ rows' = Tail(rows) /\ rows \in Seq(Events)
  BY DEF Collect, FoundTypes
<1>2. /\ Head(rows) \in Events /\ Tail(rows) \in Seq(Events)
      /\ Range(rows) = {Head(rows)} \cup Range(Tail(rows))
  BY <1>1, SeqOfEvents
<1> DEFINE h == Head(rows)
           Q == QuotesOf(h)
           U == UNION {QuotesOf(e) : e \in {h} \cap Answered(stored)}
<1>3. U \subseteq Q /\ (h \in Answered(stored) => U = Q)
  OBVIOUS
<1>4. \/ dark' = (dark \/ ~reachable) /\ quoted' = quoted \cup U
      \/ dark' = dark /\ quoted' = quoted \cup Q
      \/ dark' = TRUE /\ quoted' = quoted
  BY DEF Collect, Look
<1> HIDE DEF U, Q
<1>5. /\ quoted \subseteq quoted' /\ quoted' \subseteq quoted \cup Q
      /\ dark' \in BOOLEAN /\ (dark => dark')
      /\ ~dark' /\ h \in stored => quoted' = quoted \cup Q
  BY <1>3, <1>4 DEF FoundTypes, GraphTypes, Answered
<1> QED BY <1>1, <1>2, <1>5 DEF Q

LEMMA CollectTypes ==
  ASSUME QueryTypes, Collect
  PROVE  QueryTypes'
<1> USE DEF QueryTypes
<1>1. rows' \in Seq(Events) /\ dark' \in BOOLEAN /\ quoted' \subseteq Events \X Entities
  BY CollectStep, QuotesType DEF FoundTypes
<1>2. UNCHANGED graph /\ UNCHANGED <<asked, listed, page>> /\ at' = at /\ at = "collect"
  BY DEF Collect
<1>3. GraphTypes' /\ AskedOK' /\ FoundTypes'
  BY <1>1, <1>2, RowsTypes
<1>4. Stages'
  BY <1>2 DEF Stages
<1> QED BY <1>3, <1>4

LEMMA QuoteStep ==
  ASSUME QueryTypes, Quote
  PROVE  /\ quoted' \subseteq quoted
         /\ (\A q \in quoted : InRange(q[1])) /\ Cardinality(quoted') < QuoteLimit
              => quoted' = quoted /\ rows = <<>>
<1> USE DEF QueryTypes
<1> DEFINE kept == {q \in quoted : date[q[1]] = 0 \/ InRange(q[1])}
           faded == [q \in kept |-> MaxDate - date[q[1]]]
<1>1. quoted' \in LeastOf(kept, QuoteLimit, faded) /\ (rows = <<>> \/ Enough)
  BY Zenon DEF Quote
<1>2. IsFiniteSet(quoted) /\ QuoteLimit \in Nat
  BY QueryConstants, FS_Product, FS_Subset DEF FoundTypes
<1>3. IsFiniteSet(kept) /\ Cardinality(quoted) \in Nat
  BY <1>2, FS_Subset, FS_CardinalityType
<1>4. /\ quoted' \subseteq kept
      /\ Cardinality(quoted') < QuoteLimit => quoted' = kept
  <2> HIDE DEF kept, faded
  <2> QED BY <1>1, <1>2, <1>3, FirstFew
<1>5. (\A q \in quoted : InRange(q[1])) => kept = quoted
  OBVIOUS
<1>6. Enough => ~(Cardinality(quoted) < QuoteLimit)
  BY <1>2, <1>3 DEF Enough
<1> QED BY <1>1, <1>4, <1>5, <1>6

LEMMA QuoteTypes ==
  ASSUME QueryTypes, Quote
  PROVE  QueryTypes'
<1> USE DEF QueryTypes
<1>1. /\ rows' \in Seq(Events) /\ dark' \in BOOLEAN /\ quoted' \subseteq Events \X Entities
      /\ UNCHANGED graph /\ UNCHANGED <<asked, listed, page>> /\ at' = "done"
  BY QuoteStep DEF Quote, FoundTypes
<1>2. GraphTypes' /\ AskedOK' /\ FoundTypes'
  BY <1>1, RowsTypes
<1>3. Stages'
  BY <1>1 DEF Stages, Ended
<1> QED BY <1>2, <1>3

\* A page of a row.
LEMMA PageOf ==
  ASSUME NEW L, NEW n \in Nat, NEW s \in [1 .. n -> L], NEW o \in Nat, NEW k \in Nat, NEW a, NEW m,
         a = o + 1, m = IF o + k <= n THEN o + k ELSE n
  PROVE  /\ Len(SubSeq(s, a, m)) \in Nat /\ Len(SubSeq(s, a, m)) <= k
         /\ Range(SubSeq(s, a, m)) \subseteq L /\ SubSeq(s, a, m) \in Seq(L)
         /\ \A p \in a .. o + k : p <= n => s[p] \in Range(SubSeq(s, a, m))
<1> DEFINE t == SubSeq(s, a, m)
<1> HIDE DEF t
<1>1. m \in Nat /\ m <= n /\ m <= o + k /\ a \in Nat /\ a >= 1
  OBVIOUS
<1>2. \A i \in a .. m : s[i] \in L
  <2>1. \A i \in a .. m : i \in 1 .. n
    BY <1>1
  <2>2. \A i \in 1 .. n : s[i] \in L
    OBVIOUS
  <2> QED BY <2>1, <2>2, Zenon
<1>3. /\ t \in Seq(L)
      /\ Len(t) = (IF a <= m THEN m - a + 1 ELSE 0)
      /\ \A i \in 1 .. m - a + 1 : t[i] = s[a + i - 1]
  <2>1. a \in Int /\ m \in Int
    BY <1>1
  <2> QED BY <1>2, <2>1, SubSeqProperties DEF t
<1>4. Len(t) \in Nat /\ Len(t) <= k
  BY <1>1, <1>3
<1>5. DOMAIN t = 1 .. Len(t) /\ \A i \in DOMAIN t : t[i] \in L
  BY <1>3
<1>6. Range(t) \subseteq L /\ t \in Seq(L)
  BY <1>3, <1>5 DEF Range
<1>7. ASSUME NEW p \in a .. o + k, p <= n
      PROVE  s[p] \in Range(t)
  <2>1. p <= m /\ p - a + 1 \in 1 .. m - a + 1 /\ a + (p - a + 1) - 1 = p /\ a <= m
    BY <1>1, <1>7
  <2>2. t[p - a + 1] = s[p]
    BY <1>3, <2>1
  <2>3. p - a + 1 \in DOMAIN t
    BY <1>3, <1>5, <2>1
  <2> QED BY <2>2, <2>3 DEF Range
<1> QED BY <1>4, <1>6, <1>7 DEF t

LEMMA ListingType ==
  ASSUME NEW S
  PROVE  /\ Listing(S) \subseteq Entities \cup Topics /\ IsFiniteSet(Listing(S))
         /\ Total(S) \in Nat /\ Total(S) = Cardinality(Listing(S))
<1>1. IsFiniteSet(Entities \cup Topics)
  BY QueryConstants, FS_Union
<1>2. Listing(S) \in SUBSET (Entities \cup Topics)
  BY DEF Listing
<1> QED BY <1>1, <1>2, FS_Subset, FS_CardinalityType DEF Total

\* The step of a walk to the next page, from some order of what is listed.
LEMMA ReadStep ==
  ASSUME QueryTypes, ReadPage
  PROVE  \E order \in Orders(Answered(stored)), got \in Seq(Entities \cup Topics) :
           /\ order \in [1 .. Total(Answered(stored)) -> Listing(Answered(stored))]
           /\ Len(got) \in Nat /\ Len(got) <= PageSize
           /\ Range(got) \subseteq Listing(Answered(stored))
           /\ \A p \in page.offset + 1 .. page.offset + PageSize :
                p <= Total(Answered(stored)) => order[p] \in Range(got)
           /\ listed' = listed \cup Range(got)
           /\ page' = [page EXCEPT !.offset = page.offset + Len(got), !.pages = page.pages + 1]
           /\ at' = Onward(page')
<1> DEFINE S == Answered(stored)
<1>1. PICK order \in Orders(S) :
        LET got  == SubSeq(order, page.offset + 1, Min({page.offset + PageSize, Len(order)}))
            next == [page EXCEPT !.offset = NextOffset(Len(got)), !.pages = @ + 1]
        IN /\ listed' = listed \cup Range(got)
           /\ page' = next
           /\ at' = Onward(next)
  BY Zenon DEF ReadPage
<1> DEFINE got == SubSeq(order, page.offset + 1, Min({page.offset + PageSize, Len(order)}))
<1>2. order \in [1 .. Total(S) -> Listing(S)] /\ Total(S) \in Nat
  BY ListingType DEF Orders, Total
<1>3. page.offset \in Nat /\ PageSize \in Nat
  BY QueryConstants DEF QueryTypes, FoundTypes
<1>4. /\ Len(got) \in Nat /\ Len(got) <= PageSize /\ Range(got) \subseteq Listing(S)
      /\ got \in Seq(Listing(S))
      /\ \A p \in page.offset + 1 .. page.offset + PageSize :
           p <= Total(S) => order[p] \in Range(got)
  <2> DEFINE m == Min({page.offset + PageSize, Len(order)})
             a == page.offset + 1
  <2>1. Len(order) = Total(S)
    BY <1>2
  <2>2. m = IF page.offset + PageSize <= Total(S) THEN page.offset + PageSize ELSE Total(S)
    BY <1>2, <1>3, <2>1, SmallerOfTwo
  <2>3. got = SubSeq(order, a, m) /\ a = page.offset + 1
    OBVIOUS
  <2> HIDE DEF a, m, got, S
  <2> DEFINE o == page.offset
             n == Total(S)
             L == Listing(S)
  <2>5. /\ n \in Nat /\ order \in [1 .. n -> L] /\ o \in Nat /\ PageSize \in Nat
        /\ a = o + 1 /\ m = IF o + PageSize <= n THEN o + PageSize ELSE n
    BY <1>2, <1>3, <2>2, <2>3
  <2> HIDE DEF o, n, L
  <2>6. /\ Len(SubSeq(order, a, m)) \in Nat /\ Len(SubSeq(order, a, m)) <= PageSize
        /\ Range(SubSeq(order, a, m)) \subseteq L
        /\ SubSeq(order, a, m) \in Seq(L)
        /\ \A p \in a .. o + PageSize : p <= n => order[p] \in Range(SubSeq(order, a, m))
    BY <2>5, PageOf
  <2>4. /\ Len(SubSeq(order, a, m)) \in Nat /\ Len(SubSeq(order, a, m)) <= PageSize
        /\ Range(SubSeq(order, a, m)) \subseteq Listing(S)
        /\ SubSeq(order, a, m) \in Seq(Listing(S))
        /\ \A p \in a .. page.offset + PageSize :
             p <= Total(S) => order[p] \in Range(SubSeq(order, a, m))
    BY <2>6, Zenon DEF o, n, L
  <2> QED BY <2>3, <2>4, Zenon
<1>6. got \in Seq(Entities \cup Topics)
  <2> HIDE DEF got, S
  <2> QED BY <1>4, ListingType
<1> HIDE DEF got
<1>5. /\ listed' = listed \cup Range(got)
      /\ page' = [page EXCEPT !.offset = page.offset + Len(got), !.pages = page.pages + 1]
      /\ at' = Onward(page')
  BY <1>1 DEF got, NextOffset
<1> HIDE DEF S
<1> QED BY <1>1, <1>2, <1>4, <1>5, <1>6 DEF S

LEMMA ReadTypes ==
  ASSUME QueryTypes, ReadPage
  PROVE  QueryTypes'
<1> USE DEF QueryTypes
<1>1. PICK order \in Orders(Answered(stored)), got \in Seq(Entities \cup Topics) :
           /\ order \in [1 .. Total(Answered(stored)) -> Listing(Answered(stored))]
           /\ Len(got) \in Nat /\ Len(got) <= PageSize
           /\ Range(got) \subseteq Listing(Answered(stored))
           /\ \A p \in page.offset + 1 .. page.offset + PageSize :
                p <= Total(Answered(stored)) => order[p] \in Range(got)
           /\ listed' = listed \cup Range(got)
           /\ page' = [page EXCEPT !.offset = page.offset + Len(got), !.pages = page.pages + 1]
           /\ at' = Onward(page')
  BY ReadStep, Zenon
<1>2. /\ UNCHANGED graph /\ UNCHANGED <<asked, rows, quoted>> /\ at = "page"
      /\ dark' \in BOOLEAN
  BY DEF ReadPage, Look, FoundTypes, GraphTypes
<1>3. Range(got) \subseteq Entities \cup Topics
  BY <1>1, ListingType, Zenon
<1>4. page' \in [total : Nat, offset : Nat, pages : Nat]
  <2>1. page.offset + Len(got) \in Nat /\ page.pages + 1 \in Nat
    BY <1>1 DEF FoundTypes
  <2> DEFINE o == page.offset + Len(got)
             n == page.pages + 1
  <2> HIDE DEF o, n
  <2>2. page' = [page EXCEPT !.offset = o, !.pages = n] /\ o \in Nat /\ n \in Nat
    BY <1>1, <2>1 DEF o, n
  <2> QED BY <2>2 DEF FoundTypes
<1>5. FoundTypes'
  BY <1>1, <1>2, <1>3, <1>4 DEF FoundTypes
<1>6. at' \in {"count", "done"}
  BY <1>1 DEF Onward
<1>7. Stages'
  BY <1>2, <1>6 DEF Stages, Ended
<1> QED BY <1>2, <1>5, <1>7, GraphKept, AskedKept

LEMMA RelateTypes ==
  ASSUME QueryTypes, Relate
  PROVE  /\ QueryTypes'
         /\ ~dark' /\ Cardinality(listed') < EventLimit
              => listed' = {x \in Entities \ {asked.entity} : Together(x) # {}}
<1> USE DEF QueryTypes
<1> DEFINE others == {x \in Entities \ {asked.entity} : Together(x) # {}}
           seldom == [x \in others |-> Cardinality(Events) - Cardinality(Together(x))]
<1>1. listed' \in LeastOf(Answered(others), EventLimit, seldom)
  BY Zenon DEF Relate
<1>2. Answered(others) \in SUBSET Entities /\ (~dark' => Answered(others) = others)
  BY DEF Answered, Relate, Look, GraphTypes
<1>3. IsFiniteSet(Answered(others)) /\ EventLimit \in Nat
  BY <1>2, QueryConstants, FS_Subset
<1>4. /\ listed' \subseteq Answered(others)
      /\ Cardinality(listed') < EventLimit => listed' = Answered(others)
  <2> HIDE DEF others, seldom
  <2> QED BY <1>1, <1>3, FirstFew
<1>5. /\ UNCHANGED graph /\ UNCHANGED <<asked, rows, quoted, page>> /\ at' = "done"
      /\ dark' \in BOOLEAN
  BY DEF Relate, Look, GraphTypes, FoundTypes
<1>6. listed' \subseteq Entities \cup Topics
  BY <1>2, <1>4
<1> HIDE DEF others, seldom
<1>7. FoundTypes'
  BY <1>5, <1>6 DEF FoundTypes
<1>8. Stages'
  BY <1>5 DEF Stages, Ended
<1> QED BY <1>2, <1>4, <1>5, <1>7, <1>8, GraphKept, AskedKept DEF others

LEMMA CountTypes ==
  ASSUME QueryTypes, CountAll
  PROVE  QueryTypes'
<1> USE DEF QueryTypes
<1>1. /\ UNCHANGED graph /\ UNCHANGED <<asked, rows, quoted, listed>>
      /\ at = "count" /\ at' = "page"
      /\ dark' \in BOOLEAN /\ page' = [page EXCEPT !.total = Total(Answered(stored))]
  BY DEF CountAll, Look, GraphTypes, FoundTypes
<1>2. page' \in [total : Nat, offset : Nat, pages : Nat]
  BY <1>1, ListingType DEF FoundTypes
<1>3. FoundTypes'
  BY <1>1, <1>2 DEF FoundTypes
<1>4. Stages'
  BY <1>1 DEF Stages, Ended
<1> QED BY <1>1, <1>3, <1>4, GraphKept, AskedKept

\* What changes under a call: nothing it keeps; fewer events were always there,
\* and more were there at some time.
Changing == (\E e \in Events : Store(e) \/ Vanish(e)) \/ Outage

LEMMA ChangeTypes ==
  ASSUME QueryTypes, Changing
  PROVE  /\ QueryTypes' /\ at \notin Ended
         /\ Always' \subseteq Always /\ Ever \subseteq Ever'
         /\ Always \subseteq Events /\ Ever' \subseteq Events
         /\ added \subseteq added' /\ removed \subseteq removed'
         /\ UNCHANGED <<date, asked, at, rows, quoted, listed, page, dark>>
<1> USE DEF QueryTypes
<1>1. /\ UNCHANGED <<date, asked, at, rows, quoted, listed, page, dark>> /\ at \notin Ended
      /\ added \subseteq added' /\ removed \subseteq removed'
  BY DEF Changing, Store, Vanish, Outage, Change, found
<1>2. /\ GraphTypes'
      /\ Always' \subseteq Always /\ Ever \subseteq Ever'
      /\ Always \subseteq Events /\ Ever' \subseteq Events
  <2>1. CASE \E e \in Events : Store(e)
    BY <2>1 DEF Store, GraphTypes, Always, Ever
  <2>2. CASE \E e \in Events : Vanish(e)
    BY <2>2 DEF Vanish, GraphTypes, Always, Ever
  <2>3. CASE Outage
    BY <2>3 DEF Outage, GraphTypes, Always, Ever
  <2> QED BY <2>1, <2>2, <2>3 DEF Changing
<1>3. FoundTypes' /\ Stages'
  BY <1>1, AskedKept DEF FoundTypes, Stages
<1> QED BY <1>1, <1>2, <1>3, AskedKept

LEMMA QueryStep ==
  ASSUME QueryTypes, [QueryNext]_queryVars
  PROVE  QueryTypes'
<1>1. CASE UNCHANGED queryVars
  <2>1. UNCHANGED graph /\ UNCHANGED <<asked, at, rows, quoted, listed, page, dark>>
    BY <1>1 DEF queryVars, found
  <2>2. FoundTypes' /\ Stages'
    BY <2>1, AskedKept DEF QueryTypes, FoundTypes, Stages
  <2> QED BY <2>1, <2>2, GraphKept, AskedKept DEF QueryTypes
<1>2. CASE QueryNext
  BY <1>2, ResolveTypes, EndTypes, FindTypes, RetrieveTypes, IdsTypes, MeetTypes, CollectTypes,
     QuoteTypes, RelateTypes, CountTypes, ReadTypes, ChangeTypes, Zenon DEF QueryNext, Changing
<1> QED BY <1>1, <1>2

-----------------------------------------------------------------------------
(* The queries: answers are whole.                                         *)

LEMMA LastIsLatest ==
  ASSUME QueryTypes, InTime(rows)
  PROVE  /\ \A e \in Range(rows) : date[e] <= LastMentioned
         /\ LastMentioned # 0 => \E e \in Range(rows) : date[e] = LastMentioned
<1> DEFINE dated == {i \in DOMAIN rows : date[rows[i]] # 0}
<1>1. /\ DOMAIN rows = 1 .. Len(rows) /\ Len(rows) \in Nat
      /\ \A i \in DOMAIN rows : rows[i] \in Events /\ rows[i] \in Range(rows)
  BY DEF QueryTypes, FoundTypes, Range
<1>2. \A i \in DOMAIN rows : date[rows[i]] \in Nat
  BY <1>1, QueryConstants DEF QueryTypes, GraphTypes
<1>3. LastMentioned = IF dated = {} THEN 0 ELSE date[rows[Max(dated)]]
  BY DEF LastMentioned
<1>4. CASE dated = {}
  <2>1. LastMentioned = 0 /\ \A i \in DOMAIN rows : date[rows[i]] = 0
    BY <1>3, <1>4
  <2> QED BY <2>1 DEF Range
<1>5. CASE dated # {}
  <2>1. dated \in SUBSET Nat /\ \A i \in dated : i <= Len(rows)
    BY <1>1
  <2>2. Max(dated) \in dated /\ \A i \in dated : i <= Max(dated)
    <3> HIDE DEF dated
    <3> QED BY <1>1, <1>5, <2>1, GreatestNumber
  <2> DEFINE m == Max(dated)
  <2>3. m \in DOMAIN rows /\ LastMentioned = date[rows[m]]
    BY <1>3, <1>5, <2>2
  <2>4. ASSUME NEW i \in DOMAIN rows
        PROVE  date[rows[i]] <= date[rows[m]]
    <3> HIDE DEF m
    <3>0. i \in Nat /\ m \in Nat /\ date[rows[i]] \in Nat /\ date[rows[m]] \in Nat
      BY <1>1, <1>2, <2>3
    <3>1. CASE i \notin dated
      <4>1. date[rows[i]] = 0
        BY <3>1
      <4> HIDE DEF dated
      <4> QED BY <3>0, <4>1
    <3>2. CASE i \in dated
      <4>1. i <= m
        BY <2>2, <3>2 DEF m
      <4> HIDE DEF dated
      <4>2. CASE i = m
        BY <3>0, <4>2
      <4>3. CASE i # m
        <5>1. i < m
          BY <3>0, <4>1, <4>3
        <5> QED BY <2>3, <5>1 DEF InTime
      <4> QED BY <4>2, <4>3
    <3> QED BY <3>1, <3>2
  <2> HIDE DEF m, dated
  <2> QED BY <1>1, <2>3, <2>4 DEF Range
<1> QED BY <1>4, <1>5

\* What the rows of a topic, the quotes under way and each answer hold.
TopicRows ==
  /\ InTime(rows) /\ Range(rows) \subseteq OfTopic(Ever)
  /\ Cardinality(OfTopic(Ever)) <= Limit => OfTopic(Always) \subseteq Range(rows)

QuotesSought ==
  Cardinality(Wanted(Ever)) <= Limit /\ (asked.from = 0 \/ asked.topic # Nothing)
Collecting ==
  /\ asked.from = 0 \/ asked.topic # Nothing =>
       /\ \A e \in Range(rows) : InRange(e)
       /\ \A q \in quoted : InRange(q[1])
  /\ QuotesSought => \A e \in Wanted(Always) : e \in Range(rows) \/ QuotesOf(e) \subseteq quoted

NameMeans ==
  asked.agent /\ asked.name # Nothing /\ at \notin {"resolve", "unknown", "ambiguous", "error"}
    => NamedBy[asked.name] = {asked.entity}

MentionsAnswer ==
  asked.tool = "time_since" /\ asked.topic # Nothing =>
    /\ InTime(rows) /\ Range(rows) \subseteq Wanted(Ever)
    /\ /\ Cardinality(OfTopic(Ever)) <= Limit
       /\ asked.entity # Nothing => Cardinality(OfEntity(Ever)) <= EntityLimit
       => Wanted(Always) \subseteq Range(rows)
QuotesAnswer ==
  asked.tool \in {"quotes", "profile"} /\ QuotesSought /\ Cardinality(quoted) < QuoteLimit
    => \A e \in Wanted(Always) : QuotesOf(e) \subseteq quoted
TimelineAnswer ==
  asked.tool = "timeline" /\ ~ByRetrieval /\ Cardinality(Wanted(Ever)) <= Limit
    => Wanted(Always) \subseteq Range(rows)
RelationsAnswer ==
  asked.tool = "relations" /\ Cardinality(listed) < EventLimit
    => \A e \in OfEntity(Always) : InRange(e) => Involves[e] \ {asked.entity} \subseteq listed

AnswerInv ==
  ~dark =>
    /\ NameMeans
    /\ at = "meet" => TopicRows
    /\ at = "collect" => Collecting
    /\ at = "done" => MentionsAnswer /\ QuotesAnswer /\ TimelineAnswer /\ RelationsAnswer

LEMMA AnswerHolds ==
  ASSUME QueryTypes, AnswerInv
  PROVE  AnswerIsWhole
<1> SUFFICES ASSUME at = "done", ~dark PROVE AnswerIsWhole
  BY DEF AnswerIsWhole
<1>1. NameMeans /\ MentionsAnswer /\ QuotesAnswer /\ TimelineAnswer /\ RelationsAnswer
  BY DEF AnswerInv
<1>2. asked.agent /\ asked.name # Nothing => NamedBy[asked.name] = {asked.entity}
  BY <1>1 DEF NameMeans
<1>3. ASSUME asked.tool = "time_since", asked.topic # Nothing, Cardinality(OfTopic(Ever)) <= Limit,
             asked.entity # Nothing => Cardinality(OfEntity(Ever)) <= EntityLimit
      PROVE  /\ \A e \in Wanted(Always) : date[e] <= LastMentioned
             /\ LastMentioned # 0 => \E e \in Wanted(Ever) : date[e] = LastMentioned
  <2>1. /\ InTime(rows) /\ Range(rows) \subseteq Wanted(Ever)
        /\ Wanted(Always) \subseteq Range(rows)
    BY <1>1, <1>3 DEF MentionsAnswer
  <2> QED BY <2>1, LastIsLatest
<1>4. asked.tool \in {"quotes", "profile"} /\ QuotesSought /\ Cardinality(quoted) < QuoteLimit
        => UNION {QuotesOf(e) : e \in Wanted(Always)} \subseteq quoted
  BY <1>1 DEF QuotesAnswer
<1> QED BY <1>1, <1>2, <1>3, <1>4
    DEF AnswerIsWhole, QuotesSought, TimelineAnswer, RelationsAnswer

\* What is asked means the same while it and the dates stay.
LEMMA SameMeaning ==
  ASSUME UNCHANGED <<asked, date>>
  PROVE  /\ \A e \in Events : InRange(e)' <=> InRange(e)
         /\ \A e \in Events : QuotesOf(e)' = QuotesOf(e)
         /\ Limit' = Limit /\ (ByRetrieval' <=> ByRetrieval)
  BY DEF InRange, QuotesOf, Limit, ByRetrieval

\* The sets a query may ask for are among the events it is given.
LEMMA AskedSets ==
  ASSUME NEW S \in SUBSET Events
  PROVE  /\ OfTopic(S) \subseteq S /\ OfEntity(S) \subseteq S
         /\ Candidates(S) \subseteq S /\ Wanted(S) \subseteq S
  BY DEF OfTopic, OfEntity, Candidates, Wanted

LEMMA FewerEvents ==
  ASSUME UNCHANGED <<asked, date>>, Always' \subseteq Always, Ever \subseteq Ever',
         Always \subseteq Events, Ever' \subseteq Events
  PROVE  /\ OfTopic(Always)' \subseteq OfTopic(Always) /\ OfTopic(Ever) \subseteq OfTopic(Ever)'
         /\ OfEntity(Always)' \subseteq OfEntity(Always) /\ OfEntity(Ever) \subseteq OfEntity(Ever)'
         /\ Candidates(Always)' \subseteq Candidates(Always)
         /\ Candidates(Ever) \subseteq Candidates(Ever)'
         /\ Wanted(Always)' \subseteq Wanted(Always) /\ Wanted(Ever) \subseteq Wanted(Ever)'
<1>1. OfTopic(Always)' \subseteq OfTopic(Always) /\ OfTopic(Ever) \subseteq OfTopic(Ever)'
  BY DEF OfTopic, InRange
<1>2. OfEntity(Always)' \subseteq OfEntity(Always) /\ OfEntity(Ever) \subseteq OfEntity(Ever)'
  BY DEF OfEntity
<1>3. /\ Candidates(Always)' \subseteq Candidates(Always)
      /\ Candidates(Ever) \subseteq Candidates(Ever)'
  BY <1>1, <1>2 DEF Candidates
<1>4. /\ OfTopic(OfEntity(Always))' \subseteq OfTopic(OfEntity(Always))
      /\ OfTopic(OfEntity(Ever)) \subseteq OfTopic(OfEntity(Ever))'
  <2> DEFINE A == OfEntity(Always)
             E == OfEntity(Ever)
  <2>1. A' \subseteq A /\ E \subseteq E'
    BY <1>2
  <2> HIDE DEF A, E
  <2>2. OfTopic(A)' \subseteq OfTopic(A) /\ OfTopic(E) \subseteq OfTopic(E)'
    BY <2>1 DEF OfTopic, InRange
  <2> QED BY <2>2 DEF A, E
<1>5. Wanted(Always)' \subseteq Wanted(Always) /\ Wanted(Ever) \subseteq Wanted(Ever)'
  BY <1>3, <1>4 DEF Wanted
<1> QED BY <1>1, <1>2, <1>3, <1>5

LEMMA FewerCounted ==
  ASSUME NEW T \in SUBSET Events, NEW S \in SUBSET T, NEW n \in Nat, Cardinality(T) <= n
  PROVE  Cardinality(S) <= n
<1>1. IsFiniteSet(T) /\ IsFiniteSet(S) /\ Cardinality(S) <= Cardinality(T)
  BY EventsFinite, FS_Subset
<1>2. Cardinality(S) \in Nat /\ Cardinality(T) \in Nat
  BY <1>1, FS_CardinalityType
<1> QED BY <1>1, <1>2

\* Before a call ends, what is true of its answer so far stays true when events
\* come and go.
LEMMA ChangeKeepsAnswer ==
  ASSUME QueryTypes, AnswerInv, Changing
  PROVE  AnswerInv'
<1>1. /\ UNCHANGED <<date, asked, at, rows, quoted, listed, page, dark>> /\ at \notin Ended
      /\ Always' \subseteq Always /\ Ever \subseteq Ever'
      /\ Always \subseteq Events /\ Ever' \subseteq Events
  BY ChangeTypes
<1>2. /\ OfTopic(Always)' \subseteq OfTopic(Always) /\ OfTopic(Ever) \subseteq OfTopic(Ever)'
      /\ Wanted(Always)' \subseteq Wanted(Always) /\ Wanted(Ever) \subseteq Wanted(Ever)'
  BY <1>1, FewerEvents
<1>3. Limit \in Nat /\ Limit' = Limit
  BY <1>1, SameMeaning, LimitType DEF QueryTypes
<1>4. OfTopic(Ever)' \subseteq Events /\ Wanted(Ever)' \subseteq Events
  <2>1. Ever' \in SUBSET Events
    BY <1>1
  <2>2. OfTopic(Ever)' \subseteq Ever'
    BY DEF OfTopic
  <2>3. OfEntity(Ever)' \subseteq Ever'
    BY DEF OfEntity
  <2>4. Candidates(Ever)' \subseteq Ever'
    BY <2>2, <2>3 DEF Candidates
  <2>5. OfTopic(OfEntity(Ever))' \subseteq OfEntity(Ever)'
    BY DEF OfTopic
  <2>6. Wanted(Ever)' \subseteq Ever'
    BY <2>3, <2>4, <2>5 DEF Wanted
  <2> QED BY <2>1, <2>2, <2>6
<1>5. /\ Cardinality(OfTopic(Ever)') <= Limit => Cardinality(OfTopic(Ever)) <= Limit
      /\ Cardinality(Wanted(Ever)') <= Limit => Cardinality(Wanted(Ever)) <= Limit
  <2> DEFINE T == OfTopic(Ever)
             W == Wanted(Ever)
             Tn == OfTopic(Ever)'
             Wn == Wanted(Ever)'
  <2>1. T \in SUBSET Tn /\ W \in SUBSET Wn /\ Tn \in SUBSET Events /\ Wn \in SUBSET Events
    BY <1>2, <1>4
  <2> HIDE DEF T, W, Tn, Wn
  <2>2. /\ Cardinality(Tn) <= Limit => Cardinality(T) <= Limit
        /\ Cardinality(Wn) <= Limit => Cardinality(W) <= Limit
    BY <1>3, <2>1, FewerCounted
  <2> QED BY <2>2 DEF T, W, Tn, Wn
<1>6. NameMeans => NameMeans'
  BY <1>1 DEF NameMeans
<1>7. TopicRows => TopicRows'
  BY <1>1, <1>2, <1>3, <1>5 DEF TopicRows, InTime
<1>8. Collecting => Collecting'
  <2> SUFFICES ASSUME Collecting PROVE Collecting'
    OBVIOUS
  <2>1. \A e \in Range(rows) : e \in Events
    BY DEF QueryTypes, FoundTypes, Range
  <2>2. \A q \in quoted : q[1] \in Events
    BY DEF QueryTypes, FoundTypes
  <2>3. QuotesSought' => QuotesSought
    BY <1>1, <1>3, <1>5 DEF QuotesSought
  <2>4. asked'.from = 0 \/ asked'.topic # Nothing =>
          (\A e \in Range(rows') : InRange(e)') /\ (\A q \in quoted' : InRange(q[1])')
    BY <1>1, <2>1, <2>2, SameMeaning DEF Collecting
  <2>5. \A e \in Wanted(Always)' : e \in Events /\ e \in Wanted(Always)
    BY <1>1, <1>2, AskedSets
  <2>6. QuotesSought' =>
          \A e \in Wanted(Always)' : e \in Range(rows') \/ QuotesOf(e)' \subseteq quoted'
    BY <1>1, <2>3, <2>5, SameMeaning DEF Collecting
  <2> QED BY <2>4, <2>6, Zenon DEF Collecting
<1> QED BY <1>1, <1>6, <1>7, <1>8 DEF AnswerInv, Ended

LEMMA StoredBetween ==
  ASSUME GraphTypes
  PROVE  /\ Always \subseteq stored /\ stored \subseteq Ever /\ Ever \subseteq Events
         /\ Always \subseteq Events
  BY DEF GraphTypes, Always, Ever

LEMMA MoreSets ==
  ASSUME NEW T \in SUBSET Events, NEW S \in SUBSET T
  PROVE  /\ OfTopic(S) \subseteq OfTopic(T) /\ OfEntity(S) \subseteq OfEntity(T)
         /\ Candidates(S) \subseteq Candidates(T) /\ Wanted(S) \subseteq Wanted(T)
<1>1. OfTopic(S) \subseteq OfTopic(T) /\ OfEntity(S) \subseteq OfEntity(T)
  BY DEF OfTopic, OfEntity
<1>2. OfTopic(OfEntity(S)) \subseteq OfTopic(OfEntity(T))
  <2> DEFINE A == OfEntity(S)
             B == OfEntity(T)
  <2>1. A \subseteq B
    BY <1>1
  <2> HIDE DEF A, B
  <2>2. OfTopic(A) \subseteq OfTopic(B)
    BY <2>1 DEF OfTopic
  <2> QED BY <2>2 DEF A, B
<1>3. Candidates(S) \subseteq Candidates(T)
  BY <1>1 DEF Candidates
<1> QED BY <1>1, <1>2, <1>3 DEF Wanted

\* What one query returns, of what was there all the time and at some time.
LEMMA FetchedWhole ==
  ASSUME QueryTypes, NEW n \in Nat, Fetch(n), ~dark'
  PROVE  /\ Range(rows') \subseteq Candidates(Ever)
         /\ Cardinality(Candidates(Ever)) <= n => Candidates(Always) \subseteq Range(rows')
         /\ asked.topic # Nothing => InTime(rows')
<1> USE DEF QueryTypes
<1>1. Sought = Candidates(stored)
  <2>1. CASE asked.entity = Nothing
    <3>1. OfEntity(stored) = {}
      BY <2>1, QueryConstants DEF OfEntity, GraphTypes
    <3> QED BY <2>1, <3>1 DEF Sought, Candidates
  <2>2. CASE asked.entity # Nothing
    BY <2>2 DEF Sought, Candidates
  <2> QED BY <2>1, <2>2
<1>2. /\ Candidates(Always) \subseteq Candidates(stored)
      /\ Candidates(stored) \subseteq Candidates(Ever)
  BY StoredBetween, MoreSets
<1>3. Candidates(Ever) \in SUBSET Events /\ Candidates(stored) \in SUBSET Candidates(Ever)
  BY <1>2, StoredBetween, AskedSets
<1>4. /\ Range(rows') \subseteq Sought
      /\ Cardinality(Sought) <= n => Range(rows') = Sought
      /\ asked.topic # Nothing => InTime(rows')
  BY Fetched DEF FoundTypes
<1>5. Cardinality(Candidates(Ever)) <= n => Cardinality(Candidates(stored)) <= n
  BY <1>3, FewerCounted
<1> QED BY <1>1, <1>2, <1>4, <1>5

LEMMA SameSets ==
  ASSUME GraphTypes, UNCHANGED graph, UNCHANGED asked
  PROVE  /\ OfTopic(Always)' = OfTopic(Always) /\ OfTopic(Ever)' = OfTopic(Ever)
         /\ OfEntity(Always)' = OfEntity(Always) /\ OfEntity(Ever)' = OfEntity(Ever)
         /\ Candidates(Always)' = Candidates(Always) /\ Candidates(Ever)' = Candidates(Ever)
         /\ Wanted(Always)' = Wanted(Always) /\ Wanted(Ever)' = Wanted(Ever)
         /\ Limit' = Limit /\ (ByRetrieval' <=> ByRetrieval) /\ (QuotesSought' <=> QuotesSought)
         /\ \A e \in Events : (InRange(e)' <=> InRange(e)) /\ QuotesOf(e)' = QuotesOf(e)
         /\ UNCHANGED date
<1>1. UNCHANGED <<asked, date, stored>> /\ Always' = Always /\ Ever' = Ever
  BY GraphKept
<1>2. OfTopic(Always)' = OfTopic(Always) /\ OfTopic(Ever)' = OfTopic(Ever)
  BY <1>1 DEF OfTopic, InRange
<1>3. OfEntity(Always)' = OfEntity(Always) /\ OfEntity(Ever)' = OfEntity(Ever)
  BY <1>1 DEF OfEntity
<1>4. Candidates(Always)' = Candidates(Always) /\ Candidates(Ever)' = Candidates(Ever)
  BY <1>1, <1>2, <1>3 DEF Candidates
<1>5. OfTopic(OfEntity(Always))' = OfTopic(OfEntity(Always))
      /\ OfTopic(OfEntity(Ever))' = OfTopic(OfEntity(Ever))
  BY <1>1, <1>3 DEF OfTopic, InRange
<1>6. Wanted(Always)' = Wanted(Always) /\ Wanted(Ever)' = Wanted(Ever)
  BY <1>1, <1>4, <1>5 DEF Wanted
<1>7. /\ Limit' = Limit /\ (ByRetrieval' <=> ByRetrieval)
      /\ \A e \in Events : (InRange(e)' <=> InRange(e)) /\ QuotesOf(e)' = QuotesOf(e)
  BY <1>1, SameMeaning
<1>8. QuotesSought' <=> QuotesSought
  BY <1>1, <1>6, <1>7 DEF QuotesSought
<1> QED BY <1>1, <1>2, <1>3, <1>4, <1>6, <1>7, <1>8

LEMMA NameKept ==
  ASSUME NameMeans, UNCHANGED asked, at \notin {"resolve"} \cup Ended
  PROVE  NameMeans'
  BY DEF NameMeans, Ended

LEMMA ResolveKeepsAnswer ==
  ASSUME QueryTypes, Resolve
  PROVE  AnswerInv'
<1> USE DEF QueryTypes
<1> SUFFICES ASSUME ~dark' PROVE AnswerInv'
  BY DEF AnswerInv
<1>1. PICK r \in Resolutions :
        /\ asked' = [asked EXCEPT !.entity = r.entity]
        /\ at' = IF asked.agent THEN AgentGoes(r) ELSE EndpointGoes(r)
  BY DEF Resolve
<1>2. at' \in {"unknown", "ambiguous", "find"}
  BY <1>1 DEF AgentGoes, EndpointGoes
<1>3. /\ asked'.agent = asked.agent /\ asked'.name = asked.name /\ asked'.entity = r.entity
      /\ asked.name \in Names \cup {Nothing}
  BY <1>1 DEF AskedOK, AskedRecord
<1>4. NameMeans'
  <2> SUFFICES ASSUME asked.agent, asked.name # Nothing, at' = "find"
               PROVE  NamedBy[asked.name] = {r.entity}
    BY <1>2, <1>3 DEF NameMeans
  <2>1. r.entity # Nothing /\ r.sure
    BY <1>1 DEF AgentGoes
  <2>2. Hits = NamedBy[asked.name]
    BY DEF Hits, Answered, Resolve, Look, GraphTypes
  <2>3. r.entity \in Hits /\ Cardinality(Hits) = 1
    BY <2>1 DEF Resolutions
  <2>4. Hits \subseteq Entities
    BY <2>2, <1>3, QueryConstants
  <2>5. IsFiniteSet(Hits)
    BY <2>4, QueryConstants, FS_Subset
  <2>6. PICK x : Hits = {x}
    BY <2>3, <2>5, FS_Singleton
  <2> QED BY <2>2, <2>3, <2>6
<1> QED BY <1>2, <1>4 DEF AnswerInv

LEMMA FindKeepsAnswer ==
  ASSUME QueryTypes, AnswerInv, FindMentions \/ FindSaid \/ FindRecent \/ FindTimeline \/ Again
  PROVE  AnswerInv'
<1> USE DEF QueryTypes
<1> SUFFICES ASSUME ~dark' PROVE AnswerInv'
  BY DEF AnswerInv
<1>1. /\ UNCHANGED graph /\ UNCHANGED <<asked, quoted, listed, page>> /\ at \in {"find", "again"}
  BY DEF FindMentions, FindSaid, FindRecent, FindTimeline, Again
<1>2. Limit \in Nat /\ 3 * QuoteLimit \in Nat /\ QuoteLimit \in Nat
  BY LimitsTypes, QueryConstants
<1>3. PICK n \in Nat : Fetch(n) /\ Limit <= n
  <2>1. CASE FindMentions \/ FindSaid \/ FindRecent \/ FindTimeline
    BY <1>2, <2>1 DEF FindMentions, FindSaid, FindRecent, FindTimeline
  <2>2. CASE Again
    <3>1. Limit = QuoteLimit
      BY <2>2, LimitType DEF Again, Stages
    <3> QED BY <1>2, <2>2, <3>1 DEF Again
  <2> QED BY <2>1, <2>2
<1>4. ~dark /\ NameMeans
  BY <1>3 DEF Fetch, Look, AnswerInv, GraphTypes, FoundTypes
<1>5. NameMeans'
  BY <1>1, <1>4, NameKept DEF Ended
<1>6. /\ Range(rows') \subseteq Candidates(Ever)
      /\ Cardinality(Candidates(Ever)) <= n => Candidates(Always) \subseteq Range(rows')
      /\ asked.topic # Nothing => InTime(rows')
  BY <1>3, FetchedWhole
<1>7. Cardinality(Candidates(Ever)) <= Limit => Cardinality(Candidates(Ever)) <= n
  <2>1. Candidates(Ever) \in SUBSET Events
    BY StoredBetween, AskedSets
  <2>2. Cardinality(Candidates(Ever)) \in Nat
    BY <2>1, EventsFinite, FS_CardinalityType
  <2> QED BY <1>2, <1>3, <2>2
<1>8. CASE FindMentions
  <2>1. asked.tool = "time_since" /\ at = "find"
    BY <1>8 DEF FindMentions
  <2>2. ASSUME asked.topic # Nothing
        PROVE  TopicRows'
    <3>1. Candidates(Ever) = OfTopic(Ever) /\ Candidates(Always) = OfTopic(Always)
      BY <2>1, <2>2 DEF Candidates
    <3>2. InTime(rows')
      BY <1>6, <2>2
    <3>3. InTime(rows)'
      BY <1>1, <3>2, SameSets DEF InTime
    <3> QED BY <1>1, <1>6, <1>7, <3>1, <3>3, SameSets DEF TopicRows
  <2>3. at' = IF asked.entity # Nothing /\ asked.topic # Nothing THEN "meet" ELSE "done"
    BY <1>8 DEF FindMentions
  <2>4. CASE asked.entity # Nothing /\ asked.topic # Nothing
    BY <1>5, <2>2, <2>3, <2>4 DEF AnswerInv
  <2>5. CASE ~(asked.entity # Nothing /\ asked.topic # Nothing)
    <3>1. MentionsAnswer'
      <4> SUFFICES ASSUME asked.topic # Nothing PROVE MentionsAnswer'
        BY <1>1 DEF MentionsAnswer
      <4>1. Wanted(Ever) = OfTopic(Ever) /\ Wanted(Always) = OfTopic(Always)
        BY <2>1, <2>5 DEF Wanted, Candidates
      <4> QED BY <1>1, <2>2, <4>1, SameSets DEF MentionsAnswer, TopicRows
    <3>2. QuotesAnswer' /\ TimelineAnswer' /\ RelationsAnswer'
      BY <1>1, <2>1 DEF QuotesAnswer, TimelineAnswer, RelationsAnswer
    <3> QED BY <1>5, <2>3, <2>5, <3>1, <3>2 DEF AnswerInv
  <2> QED BY <2>4, <2>5
<1>9. CASE FindSaid \/ FindRecent \/ Again
  <2>1. asked.tool \in {"quotes", "profile"} /\ at' \in {"again", "collect"}
        /\ (asked.tool = "profile" => asked.topic = Nothing)
    BY <1>9 DEF FindSaid, FindRecent, Again, Stages, AskedOK
  <2>2. Wanted(Ever) = Candidates(Ever) /\ Wanted(Always) = Candidates(Always)
    BY <2>1 DEF Wanted
  <2>3. ASSUME asked.from = 0 \/ asked.topic # Nothing
        PROVE  (\A e \in Range(rows') : InRange(e)) /\ (\A q \in quoted : InRange(q[1]))
    <3>1. CASE asked.from = 0
      BY <3>1 DEF InRange
    <3>2. CASE asked.topic # Nothing
      <4>1. Candidates(Ever) = OfTopic(Ever)
        BY <2>1, <3>2 DEF Candidates
      <4>2. quoted = {}
        BY <1>1, <2>1, <3>2 DEF Stages, AskedOK
      <4> QED BY <1>6, <4>1, <4>2 DEF OfTopic
    <3> QED BY <2>3, <3>1, <3>2
  <2>4. Range(rows') \subseteq Events
    BY <1>6, StoredBetween, AskedSets
  <2>5. \A q \in quoted : q[1] \in Events
    BY DEF FoundTypes
  <2>6. asked'.from = 0 \/ asked'.topic # Nothing =>
          (\A e \in Range(rows') : InRange(e)') /\ (\A q \in quoted' : InRange(q[1])')
    BY <1>1, <2>3, <2>4, <2>5, SameSets
  <2>7. QuotesSought' => Wanted(Always)' \subseteq Range(rows')
    BY <1>1, <1>6, <1>7, <2>2, SameSets DEF QuotesSought
  <2>8. Collecting'
    BY <2>6, <2>7 DEF Collecting
  <2> QED BY <1>5, <2>1, <2>8 DEF AnswerInv
<1>10. CASE FindTimeline
  <2>1. asked.tool = "timeline" /\ at' = "done"
    BY <1>10 DEF FindTimeline
  <2>2. Wanted(Ever) = Candidates(Ever) /\ Wanted(Always) = Candidates(Always)
    BY <2>1 DEF Wanted
  <2>3. TimelineAnswer'
    BY <1>1, <1>6, <1>7, <2>2, SameSets DEF TimelineAnswer
  <2>4. MentionsAnswer' /\ QuotesAnswer' /\ RelationsAnswer'
    BY <1>1, <2>1 DEF MentionsAnswer, QuotesAnswer, RelationsAnswer
  <2> QED BY <1>5, <2>1, <2>3, <2>4 DEF AnswerInv
<1> QED BY <1>8, <1>9, <1>10

LEMMA MeetKeepsAnswer ==
  ASSUME QueryTypes, AnswerInv, Meet
  PROVE  AnswerInv'
<1> USE DEF QueryTypes
<1> SUFFICES ASSUME ~dark' PROVE AnswerInv'
  BY DEF AnswerInv
<1>1. /\ UNCHANGED graph /\ UNCHANGED asked /\ at = "meet" /\ at' = "done"
      /\ asked.tool = "time_since" /\ asked.topic # Nothing /\ asked.entity # Nothing /\ ~dark
  BY DEF Meet, Stages, Look, GraphTypes, FoundTypes
<1>2. NameMeans /\ TopicRows
  BY <1>1 DEF AnswerInv
<1>3. NameMeans'
  BY <1>1, <1>2, NameKept DEF Ended
<1>4. PICK ids \in LeastOf(Answered(OfEntity(stored)), EntityLimit, date) :
           /\ ids \subseteq OfEntity(stored)
           /\ ~dark' /\ Cardinality(OfEntity(stored)) <= EntityLimit => ids = OfEntity(stored)
           /\ rows' \in Seq(Events) /\ Range(rows') = Range(rows) \cap ids
           /\ InTime(rows) => InTime(rows')
  BY MeetRows, Zenon
<1>5. /\ OfEntity(Always) \subseteq OfEntity(stored) /\ OfEntity(stored) \subseteq OfEntity(Ever)
      /\ OfEntity(Ever) \subseteq Events
  BY StoredBetween, MoreSets, AskedSets
<1>6. Cardinality(OfEntity(Ever)) <= EntityLimit => Cardinality(OfEntity(stored)) <= EntityLimit
  BY <1>5, FewerCounted, QueryConstants
<1>7. /\ Wanted(Ever) = OfTopic(OfEntity(Ever)) /\ Wanted(Always) = OfTopic(OfEntity(Always))
      /\ Wanted(Ever) = OfTopic(Ever) \cap OfEntity(Ever)
      /\ Wanted(Always) = OfTopic(Always) \cap OfEntity(Always)
  BY <1>1 DEF Wanted, OfTopic, OfEntity
<1>8. InTime(rows')
  BY <1>2, <1>4 DEF TopicRows
<1>9. InTime(rows)'
  BY <1>1, <1>8, SameSets DEF InTime
<1>10. Range(rows') \subseteq Wanted(Ever)
  BY <1>2, <1>4, <1>5, <1>7 DEF TopicRows
<1>11. /\ Cardinality(OfTopic(Ever)) <= Limit
       /\ Cardinality(OfEntity(Ever)) <= EntityLimit
       => Wanted(Always) \subseteq Range(rows')
  BY <1>2, <1>4, <1>5, <1>6, <1>7 DEF TopicRows
<1>12. MentionsAnswer'
  BY <1>1, <1>9, <1>10, <1>11, SameSets DEF MentionsAnswer
<1>13. QuotesAnswer' /\ TimelineAnswer' /\ RelationsAnswer'
  BY <1>1 DEF QuotesAnswer, TimelineAnswer, RelationsAnswer
<1> QED BY <1>1, <1>3, <1>12, <1>13 DEF AnswerInv

LEMMA CollectKeepsAnswer ==
  ASSUME QueryTypes, AnswerInv, Collect
  PROVE  AnswerInv'
<1> USE DEF QueryTypes
<1> SUFFICES ASSUME ~dark' PROVE AnswerInv'
  BY DEF AnswerInv
<1> DEFINE h == Head(rows)
<1>1. /\ UNCHANGED graph /\ UNCHANGED asked /\ at = "collect" /\ at' = "collect"
  BY DEF Collect
<1>2. /\ h \in Events /\ rows' \in Seq(Events)
      /\ Range(rows) = {h} \cup Range(rows')
      /\ quoted \subseteq quoted' /\ quoted' \subseteq quoted \cup QuotesOf(h)
      /\ ~dark /\ (h \in stored => quoted' = quoted \cup QuotesOf(h))
  BY CollectStep DEF FoundTypes
<1>3. NameMeans /\ Collecting
  BY <1>1, <1>2 DEF AnswerInv
<1>4. NameMeans'
  BY <1>1, <1>3, NameKept DEF Ended
<1>5. Range(rows') \subseteq Events /\ Always \subseteq stored /\ \A q \in quoted' : q[1] \in Events
  <2>1. \A q \in QuotesOf(h) : q[1] \in Events
    BY <1>2, QuotesType
  <2>2. \A q \in quoted : q[1] \in Events
    BY DEF FoundTypes
  <2>3. Range(rows') \subseteq Events
    BY <1>2 DEF Range
  <2> QED BY <1>2, <2>1, <2>2, <2>3, StoredBetween
<1>6. asked.from = 0 \/ asked.topic # Nothing =>
        (\A e \in Range(rows') : InRange(e)) /\ (\A q \in quoted' : InRange(q[1]))
  <2>1. \A q \in QuotesOf(h) : q[1] = h
    BY DEF QuotesOf
  <2> HIDE DEF h
  <2> QED BY <1>2, <1>3, <2>1 DEF Collecting
<1>7. QuotesSought => \A e \in Wanted(Always) : e \in Range(rows') \/ QuotesOf(e) \subseteq quoted'
  <2> SUFFICES ASSUME QuotesSought, NEW e \in Wanted(Always), e \notin Range(rows')
               PROVE  QuotesOf(e) \subseteq quoted'
    OBVIOUS
  <2>1. e \in stored
    BY <1>5, StoredBetween, AskedSets
  <2>2. e \in Range(rows) \/ QuotesOf(e) \subseteq quoted
    BY <1>3 DEF Collecting
  <2>3. CASE e = h
    BY <1>2, <2>1, <2>3
  <2>4. CASE e # h
    BY <1>2, <2>2, <2>4
  <2> QED BY <2>3, <2>4
<1>8. asked'.from = 0 \/ asked'.topic # Nothing =>
        (\A e \in Range(rows') : InRange(e)') /\ (\A q \in quoted' : InRange(q[1])')
  BY <1>1, <1>5, <1>6, SameSets
<1>9. Wanted(Always) \subseteq Events
  BY StoredBetween, AskedSets
<1>10. QuotesSought' =>
         \A e \in Wanted(Always)' : e \in Range(rows') \/ QuotesOf(e)' \subseteq quoted'
  BY <1>1, <1>7, <1>9, SameSets
<1>11. Collecting'
  BY <1>8, <1>10, Zenon DEF Collecting
<1> QED BY <1>1, <1>4, <1>11 DEF AnswerInv

LEMMA QuoteKeepsAnswer ==
  ASSUME QueryTypes, AnswerInv, Quote
  PROVE  AnswerInv'
<1> USE DEF QueryTypes
<1> SUFFICES ASSUME ~dark' PROVE AnswerInv'
  BY DEF AnswerInv
<1>1. /\ UNCHANGED graph /\ UNCHANGED <<asked, rows, dark>> /\ at = "collect" /\ at' = "done"
      /\ asked.tool \in {"quotes", "profile"}
  BY DEF Quote, Stages
<1>2. NameMeans /\ Collecting
  BY <1>1 DEF AnswerInv
<1>3. NameMeans'
  BY <1>1, <1>2, NameKept DEF Ended
<1>4. ASSUME QuotesSought, Cardinality(quoted') < QuoteLimit
      PROVE  \A e \in Wanted(Always) : QuotesOf(e) \subseteq quoted'
  <2>1. \A q \in quoted : InRange(q[1])
    BY <1>2, <1>4 DEF Collecting, QuotesSought
  <2>2. quoted' = quoted /\ rows = <<>>
    BY <1>4, <2>1, QuoteStep
  <2>3. Range(rows) = {}
    BY <2>2 DEF Range
  <2> QED BY <1>2, <1>4, <2>2, <2>3 DEF Collecting
<1>5. Wanted(Always) \subseteq Events
  BY StoredBetween, AskedSets
<1>6. QuotesAnswer'
  BY <1>1, <1>4, <1>5, SameSets DEF QuotesAnswer
<1>7. MentionsAnswer' /\ TimelineAnswer' /\ RelationsAnswer'
  BY <1>1 DEF MentionsAnswer, TimelineAnswer, RelationsAnswer
<1> QED BY <1>1, <1>3, <1>6, <1>7 DEF AnswerInv

LEMMA RelateKeepsAnswer ==
  ASSUME QueryTypes, AnswerInv, Relate
  PROVE  AnswerInv'
<1> USE DEF QueryTypes
<1> SUFFICES ASSUME ~dark' PROVE AnswerInv'
  BY DEF AnswerInv
<1>1. /\ UNCHANGED graph /\ UNCHANGED asked /\ at = "find" /\ at' = "done"
      /\ asked.tool = "relations" /\ ~dark
  BY DEF Relate, Look, GraphTypes, FoundTypes
<1>2. NameMeans'
  BY <1>1, NameKept DEF AnswerInv, Ended
<1>3. ASSUME Cardinality(listed') < EventLimit, NEW e \in OfEntity(Always), InRange(e)
      PROVE  Involves[e] \ {asked.entity} \subseteq listed'
  <2>1. listed' = {x \in Entities \ {asked.entity} : Together(x) # {}}
    BY <1>3, RelateTypes
  <2>2. e \in OfEntity(stored) /\ e \in Events
    BY StoredBetween, MoreSets, AskedSets
  <2>3. \A x \in Involves[e] : x \in Entities /\ e \in Together(x)
    BY <1>3, <2>2, QueryConstants DEF Together
  <2> QED BY <2>1, <2>3
<1>4. OfEntity(Always) \subseteq Events
  BY StoredBetween, AskedSets
<1>5. RelationsAnswer'
  BY <1>1, <1>3, <1>4, SameSets DEF RelationsAnswer
<1>6. MentionsAnswer' /\ QuotesAnswer' /\ TimelineAnswer'
  BY <1>1 DEF MentionsAnswer, QuotesAnswer, TimelineAnswer
<1> QED BY <1>1, <1>2, <1>5, <1>6 DEF AnswerInv

LEMMA OthersKeepAnswer ==
  ASSUME QueryTypes, AnswerInv, Drop \/ Raise \/ Retrieve \/ ReadIds \/ CountAll \/ ReadPage
  PROVE  AnswerInv'
<1> USE DEF QueryTypes
<1> SUFFICES ASSUME ~dark' PROVE AnswerInv'
  BY DEF AnswerInv
<1>1. CASE Drop
  BY <1>1 DEF Drop
<1>2. CASE Raise
  <2>1. at' = "error"
    BY <1>2 DEF Raise
  <2> QED BY <2>1 DEF AnswerInv, NameMeans
<1>3. CASE Retrieve \/ ReadIds \/ CountAll \/ ReadPage
  <2>1. /\ UNCHANGED graph /\ UNCHANGED asked /\ ~dark /\ at \notin {"resolve"} \cup Ended
        /\ at' \in {"ids", "count", "page", "done"}
        /\ at' = "done" => asked.tool \in Walks \/ ByRetrieval
    BY <1>3 DEF Retrieve, ReadIds, CountAll, ReadPage, Look, GraphTypes, FoundTypes, Stages,
                Ended, Onward
  <2>2. NameMeans'
    BY <2>1, NameKept DEF AnswerInv
  <2>3. at' = "done" => MentionsAnswer' /\ QuotesAnswer' /\ TimelineAnswer' /\ RelationsAnswer'
    BY <2>1, SameSets DEF MentionsAnswer, QuotesAnswer, TimelineAnswer, RelationsAnswer, Walks,
       ByRetrieval
  <2> QED BY <2>1, <2>2, <2>3 DEF AnswerInv
<1> QED BY <1>1, <1>2, <1>3

LEMMA AnswerStutter ==
  ASSUME QueryTypes, AnswerInv, UNCHANGED queryVars
  PROVE  AnswerInv'
<1> USE DEF QueryTypes
<1>1. UNCHANGED graph /\ UNCHANGED <<asked, at, rows, quoted, listed, page, dark>>
  BY DEF queryVars, found
<1>2. NameMeans => NameMeans'
  BY <1>1 DEF NameMeans
<1>3. TopicRows => TopicRows'
  BY <1>1, SameSets DEF TopicRows, InTime
<1>4. Collecting => Collecting'
  <2> SUFFICES ASSUME Collecting PROVE Collecting'
    OBVIOUS
  <2>1. /\ \A e \in Range(rows) : e \in Events
        /\ \A q \in quoted : q[1] \in Events
        /\ \A e \in Wanted(Always) : e \in Events
    BY StoredBetween, AskedSets DEF FoundTypes, Range
  <2>2. asked'.from = 0 \/ asked'.topic # Nothing =>
          (\A e \in Range(rows') : InRange(e)') /\ (\A q \in quoted' : InRange(q[1])')
    BY <1>1, <2>1, SameSets DEF Collecting
  <2>3. QuotesSought' =>
          \A e \in Wanted(Always)' : e \in Range(rows') \/ QuotesOf(e)' \subseteq quoted'
    BY <1>1, <2>1, SameSets DEF Collecting
  <2> QED BY <2>2, <2>3, Zenon DEF Collecting
<1>5. MentionsAnswer => MentionsAnswer'
  BY <1>1, SameSets DEF MentionsAnswer, InTime
<1>6. QuotesAnswer => QuotesAnswer'
  <2>1. Wanted(Always) \subseteq Events
    BY StoredBetween, AskedSets
  <2> QED BY <1>1, <2>1, SameSets DEF QuotesAnswer
<1>7. TimelineAnswer => TimelineAnswer'
  BY <1>1, SameSets DEF TimelineAnswer
<1>8. RelationsAnswer => RelationsAnswer'
  <2>1. OfEntity(Always) \subseteq Events
    BY StoredBetween, AskedSets
  <2> QED BY <1>1, <2>1, SameSets DEF RelationsAnswer
<1> QED BY <1>1, <1>2, <1>3, <1>4, <1>5, <1>6, <1>7, <1>8 DEF AnswerInv

LEMMA AnswerInit == QueryInit => AnswerInv
<1> SUFFICES ASSUME QueryInit PROVE AnswerInv
  OBVIOUS
<1>1. AskedOK /\ (asked.tool \in Walks => asked.name = Nothing)
  BY RequestsType DEF QueryInit
<1>2. at = IF asked.tool \in {"entities", "topics"} THEN "count"
          ELSE IF asked.name # Nothing THEN "resolve" ELSE "find"
  BY DEF QueryInit
<1>3. at \in {"count", "resolve", "find"} /\ (at = "resolve" <=> asked.name # Nothing)
  BY <1>1, <1>2 DEF Walks
<1> QED BY <1>3 DEF AnswerInv, NameMeans

LEMMA AnswerStep ==
  ASSUME QueryTypes, AnswerInv, [QueryNext]_queryVars
  PROVE  AnswerInv'
<1>1. CASE UNCHANGED queryVars
  BY <1>1, AnswerStutter
<1>2. CASE QueryNext
  BY <1>2, ResolveKeepsAnswer, FindKeepsAnswer, MeetKeepsAnswer, CollectKeepsAnswer,
     QuoteKeepsAnswer, RelateKeepsAnswer, OthersKeepAnswer, ChangeKeepsAnswer, Zenon
     DEF QueryNext, Changing
<1> QED BY <1>1, <1>2

\* The kinds of values of a query, and what each stage of it takes for granted.
THEOREM QueryKeepsTypes == QuerySpec => []QueryTypes
<1>1. QueryInit => QueryTypes
  BY QueryTypesInit
<1>2. QueryTypes /\ [QueryNext]_queryVars => QueryTypes'
  BY QueryStep
<1> QED BY <1>1, <1>2, PTL DEF QuerySpec

\* Answers of the query endpoints are whole as far as the limits go, however
\* the ingest changes the graph between the queries of a call.
THEOREM AnswersAreWhole == QuerySpec => []AnswerIsWhole
<1>1. QueryInit => AnswerInv
  BY AnswerInit
<1>2. QueryTypes /\ AnswerInv /\ [QueryNext]_queryVars => AnswerInv'
  BY AnswerStep
<1>3. QueryTypes /\ AnswerInv => AnswerIsWhole
  BY AnswerHolds
<1> QED BY <1>1, <1>2, <1>3, QueryKeepsTypes, PTL DEF QuerySpec

-----------------------------------------------------------------------------
(* The walk through the pages: how high an entry stands.                   *)

Dates(x, S) == {date[e] : e \in Mentions(x, S)} \cup {0}
Newest(x, S) == Max(Dates(x, S))
Place(x, S) == IF Newest(x, S) = 0 THEN MaxDate + 1 ELSE Newest(x, S)
Wide == Cardinality(Events) + 1
Often(x, S) == Cardinality(Mentions(x, S))

LEMMA StandingIs ==
  ASSUME NEW x, NEW S
  PROVE  Standing(x, S) = Place(x, S) * Wide + Often(x, S)
  BY DEF Standing, Place, Newest, Dates, Wide, Often

\* The place counts first, the number of mentions only where places are equal.
LEMMA PlaceFirst ==
  ASSUME NEW a \in Nat, NEW b \in Nat, NEW w \in Nat, NEW p \in Nat, NEW q \in Nat,
         p < w, q < w
  PROVE  /\ a < b => a * w + p < b * w + q
         /\ a = b /\ p <= q => a * w + p <= b * w + q
         /\ a * w + p \in Nat
<1>1. a * w \in Nat /\ b * w \in Nat
  OBVIOUS
<1>2. ASSUME a < b
      PROVE  a * w + p < b * w + q
  <2>1. PICK d \in Nat : b = a + 1 + d
    <3>1. b - a - 1 \in Nat /\ b = a + 1 + (b - a - 1)
      BY <1>2
    <3> QED BY <3>1
  <2>2. b * w = a * w + w + d * w /\ d * w \in Nat
    BY <2>1
  <2> QED BY <1>1, <2>2
<1> QED BY <1>1, <1>2

LEMMA MentionsGrow ==
  ASSUME NEW x, NEW T \in SUBSET Events, NEW S \in SUBSET T
  PROVE  /\ Mentions(x, S) \subseteq Mentions(x, T) /\ Mentions(x, T) \subseteq Events
         /\ Often(x, S) \in Nat /\ Often(x, T) \in Nat
         /\ Often(x, S) <= Often(x, T) /\ Often(x, T) < Wide /\ Often(x, S) < Wide /\ Wide \in Nat
<1>1. Mentions(x, S) \in SUBSET Mentions(x, T) /\ Mentions(x, T) \in SUBSET Events
  BY DEF Mentions
<1>2. IsFiniteSet(Events) /\ Cardinality(Events) \in Nat
  BY QueryConstants, FS_CardinalityType
<1>3. IsFiniteSet(Mentions(x, T)) /\ Often(x, T) <= Cardinality(Events)
  BY <1>1, <1>2, FS_Subset DEF Often
<1>4. IsFiniteSet(Mentions(x, S)) /\ Often(x, S) <= Often(x, T)
  BY <1>1, <1>3, FS_Subset DEF Often
<1>5. Often(x, S) \in Nat /\ Often(x, T) \in Nat
  BY <1>3, <1>4, FS_CardinalityType DEF Often
<1> QED BY <1>1, <1>2, <1>3, <1>4, <1>5 DEF Wide

LEMMA NewestGrows ==
  ASSUME GraphTypes, NEW x, NEW T \in SUBSET Events, NEW S \in SUBSET T
  PROVE  /\ Newest(x, S) \in 0 .. MaxDate /\ Newest(x, T) \in 0 .. MaxDate
         /\ Newest(x, S) <= Newest(x, T)
<1>1. MaxDate \in Nat /\ \A e \in Events : date[e] \in 0 .. MaxDate
  BY QueryConstants DEF GraphTypes
<1>2. ASSUME NEW U \in SUBSET Events
      PROVE  /\ Dates(x, U) \subseteq 0 .. MaxDate
             /\ Newest(x, U) \in Dates(x, U) /\ \A d \in Dates(x, U) : d <= Newest(x, U)
  <2>1. Dates(x, U) \subseteq 0 .. MaxDate /\ 0 \in Dates(x, U)
    BY <1>1, MentionsGrow DEF Dates
  <2>2. Dates(x, U) \in SUBSET Nat /\ Dates(x, U) # {} /\ \A d \in Dates(x, U) : d <= MaxDate
    BY <1>1, <2>1
  <2>3. Max(Dates(x, U)) \in Dates(x, U) /\ \A d \in Dates(x, U) : d <= Max(Dates(x, U))
    BY <1>1, <2>2, GreatestNumber
  <2> QED BY <2>1, <2>3 DEF Newest
<1>3. Dates(x, S) \subseteq Dates(x, T)
  BY MentionsGrow DEF Dates
<1>4. S \in SUBSET Events
  OBVIOUS
<1> QED BY <1>2, <1>3, <1>4

LEMMA StandingType ==
  ASSUME GraphTypes, NEW x, NEW S \in SUBSET Events
  PROVE  Standing(x, S) \in Nat /\ Place(x, S) \in Nat
<1>1. Newest(x, S) \in 0 .. MaxDate /\ MaxDate \in Nat
  BY NewestGrows, QueryConstants
<1>2. Place(x, S) \in Nat
  BY <1>1 DEF Place
<1>3. Often(x, S) \in Nat /\ Often(x, S) < Wide /\ Wide \in Nat
  BY MentionsGrow
<1> QED BY <1>2, <1>3, PlaceFirst, StandingIs

\* While events are only added, an entry that does not stand lower in the end
\* than at first never sinks on the way: an undated one that becomes dated
\* would stay below where it was.
LEMMA StandingGrows ==
  ASSUME GraphTypes, NEW x, NEW T \in SUBSET Events, NEW S \in SUBSET T, NEW A \in SUBSET S,
         Standing(x, T) >= Standing(x, A)
  PROVE  Standing(x, S) >= Standing(x, A) /\ Standing(x, T) >= Standing(x, S)
<1>1. /\ Newest(x, A) \in 0 .. MaxDate /\ Newest(x, S) \in 0 .. MaxDate
      /\ Newest(x, T) \in 0 .. MaxDate /\ MaxDate \in Nat
      /\ Newest(x, A) <= Newest(x, S) /\ Newest(x, S) <= Newest(x, T)
  <2>1. S \in SUBSET Events
    OBVIOUS
  <2> QED BY <2>1, NewestGrows, QueryConstants
<1>2. /\ Often(x, A) \in Nat /\ Often(x, S) \in Nat /\ Often(x, T) \in Nat /\ Wide \in Nat
      /\ Often(x, A) < Wide /\ Often(x, S) < Wide /\ Often(x, T) < Wide
      /\ Often(x, A) <= Often(x, S) /\ Often(x, S) <= Often(x, T)
  <2>1. S \in SUBSET Events
    OBVIOUS
  <2> QED BY <2>1, MentionsGrow
<1>3. Place(x, A) \in Nat /\ Place(x, S) \in Nat /\ Place(x, T) \in Nat
  BY <1>1 DEF Place
<1>4. /\ Standing(x, A) = Place(x, A) * Wide + Often(x, A)
      /\ Standing(x, S) = Place(x, S) * Wide + Often(x, S)
      /\ Standing(x, T) = Place(x, T) * Wide + Often(x, T)
  BY StandingIs
<1>5. Standing(x, A) \in Nat /\ Standing(x, S) \in Nat /\ Standing(x, T) \in Nat
  BY <1>2, <1>3, <1>4, PlaceFirst
<1>6. ~(Place(x, T) < Place(x, A))
  <2>1. Place(x, T) < Place(x, A) => Standing(x, T) < Standing(x, A)
    BY <1>2, <1>3, <1>4, PlaceFirst
  <2> QED BY <1>5, <2>1
<1>7. Place(x, A) <= Place(x, S) /\ Place(x, S) <= Place(x, T)
  <2>1. CASE Newest(x, A) = 0
    <3>1. Newest(x, T) = 0
      BY <1>1, <1>6, <2>1 DEF Place
    <3> QED BY <1>1, <2>1, <3>1 DEF Place
  <2>2. CASE Newest(x, A) # 0
    BY <1>1, <2>2 DEF Place
  <2> QED BY <2>1, <2>2
<1>8. Standing(x, A) <= Standing(x, S)
  <2>1. CASE Place(x, A) < Place(x, S)
    <3>1. Standing(x, A) < Standing(x, S)
      BY <1>2, <1>3, <1>4, <2>1, PlaceFirst
    <3> QED BY <1>5, <3>1
  <2>2. CASE Place(x, A) = Place(x, S)
    BY <1>2, <1>3, <1>4, <2>2, PlaceFirst
  <2> QED BY <1>3, <1>7, <2>1, <2>2
<1>9. Standing(x, S) <= Standing(x, T)
  <2>1. CASE Place(x, S) < Place(x, T)
    <3>1. Standing(x, S) < Standing(x, T)
      BY <1>2, <1>3, <1>4, <2>1, PlaceFirst
    <3> QED BY <1>5, <3>1
  <2>2. CASE Place(x, S) = Place(x, T)
    BY <1>2, <1>3, <1>4, <2>2, PlaceFirst
  <2> QED BY <1>3, <1>7, <2>1, <2>2
<1> QED BY <1>5, <1>8, <1>9

Above(x, S) == {y \in Listing(S) : Standing(y, S) > Standing(x, S)}

\* An entry that shares its place with no other comes right after those that
\* stand higher, whatever the order of the rest.
LEMMA PlaceInOrder ==
  ASSUME GraphTypes, NEW S \in SUBSET Events, NEW order \in Orders(S), NEW x \in Listing(S),
         \A y \in Listing(S) \ {x} : Standing(x, S) # Standing(y, S)
  PROVE  \E p \in 1 .. Total(S) : order[p] = x /\ p = Cardinality(Above(x, S)) + 1
<1> DEFINE L == Listing(S)
           n == Cardinality(L)
           D == 1 .. n
<1>1. n \in Nat /\ IsFiniteSet(L) /\ Total(S) = n
  BY ListingType
<1>2. /\ order \in [D -> L] /\ Range(order) = L
      /\ \A i, j \in DOMAIN order : i < j => Standing(order[i], S) >= Standing(order[j], S)
  BY DEF Orders
<1>3. IsFiniteSet(D) /\ Cardinality(D) = n
  BY <1>1, FS_Interval
<1>4. order \in Surjection(D, L)
  <2> HIDE DEF D, L, n
  <2> QED BY <1>2 DEF Surjection, Range
<1>5. \A i, j \in D : order[i] = order[j] => i = j
  <2>1. order \in Injection(D, L)
    <3> HIDE DEF D, L
    <3> QED BY <1>3, <1>4, FS_Surjection DEF n
  <2> HIDE DEF D, L
  <2> QED BY <1>2, <2>1, Zenon DEF Injection, IsInjective
<1>6. PICK p \in D : order[p] = x
  <2> HIDE DEF D
  <2> QED BY <1>4 DEF Surjection
<1>7. \A y \in L : Standing(y, S) \in Nat
  BY StandingType
<1> DEFINE E == 1 .. p - 1
           f == [i \in E |-> order[i]]
<1>8. p \in Nat /\ p - 1 \in Nat /\ E \subseteq D
  BY <1>1
<1>9. ASSUME NEW i \in E
      PROVE  order[i] \in Above(x, S)
  <2>1. i \in D /\ p \in D /\ i < p /\ i # p
    BY <1>1, <1>8
  <2>2. order[i] \in L /\ order[i] # x /\ DOMAIN order = D
    BY <1>2, <1>5, <1>6, <2>1
  <2>3. Standing(order[i], S) >= Standing(x, S) /\ Standing(x, S) # Standing(order[i], S)
    BY <1>2, <1>6, <2>1, <2>2
  <2>4. Standing(order[i], S) > Standing(x, S)
    BY <1>7, <2>2, <2>3
  <2> QED BY <2>2, <2>4 DEF Above
<1>10. ASSUME NEW y \in Above(x, S)
       PROVE  \E i \in E : order[i] = y
  <2>1. y \in L /\ Standing(y, S) > Standing(x, S)
    BY DEF Above
  <2>2. PICK i \in D : order[i] = y
    <3> HIDE DEF D
    <3> QED BY <1>4, <2>1 DEF Surjection
  <2>3. i # p
    BY <1>6, <1>7, <2>1, <2>2
  <2>4. ~(p < i)
    <3> SUFFICES ASSUME p < i PROVE FALSE
      OBVIOUS
    <3>1. Standing(x, S) >= Standing(y, S)
      BY <1>2, <1>6, <2>2
    <3> QED BY <1>7, <2>1, <3>1
  <2>5. i \in E
    BY <1>1, <2>3, <2>4
  <2> QED BY <2>2, <2>5
<1>11. Cardinality(Above(x, S)) = p - 1
  <2> DEFINE A == Above(x, S)
  <2>1. f \in [E -> A]
    BY <1>9
  <2>2. IsInjective(f)
    <3>1. DOMAIN f = E /\ \A i \in E : f[i] = order[i] /\ i \in D
      BY <1>8
    <3> HIDE DEF f, E, D
    <3> QED BY <1>5, <3>1, Zenon DEF IsInjective
  <2>3. \A y \in A : \E i \in E : f[i] = y
    BY <1>10
  <2>4. f \in Injection(E, A) /\ f \in Surjection(E, A)
    <3> HIDE DEF f, E, A
    <3> QED BY <2>1, <2>2, <2>3, Zenon DEF Injection, Surjection
  <2>5. ExistsBijection(E, A)
    <3> HIDE DEF f, E, A
    <3> QED BY <2>4 DEF ExistsBijection, Bijection
  <2>6. IsFiniteSet(E) /\ Cardinality(E) = p - 1
    BY <1>8, FS_Interval
  <2> HIDE DEF E, A
  <2>7. Cardinality(A) = p - 1
    BY <2>5, <2>6, FS_Bijection
  <2> QED BY <2>7 DEF A
<1> QED BY <1>1, <1>6, <1>8, <1>11

\* What ListedAreFound assumes, of any moment of the walk.
OnlyMore ==
  /\ removed = {} /\ Listing(stored) = Listing(Always)
  /\ \A y \in Listing(stored) : Standing(y, stored) >= Standing(y, Always)
Alone(x) ==
  /\ Mentions(x, added) = {}
  /\ \A y \in Listing(stored) \ {x}, S \in SUBSET added :
       Standing(x, stored) # Standing(y, Always \cup S)
Walking == asked.tool \in Walks /\ at \in {"count", "page", "done"}

\* What is not shown yet is still ahead: at least as many stand above it as the
\* walk has passed.
WalkInv ==
  ~dark /\ Walking /\ OnlyMore =>
    /\ \A x \in Listing(stored) :
         Alone(x) => x \in listed \/ page.offset <= Cardinality(Above(x, stored))
    /\ at \in {"page", "done"} => page.total = Cardinality(Listing(stored))

\* The walk's terms after a step, of the graph after it.
LEMMA StandingAfter ==
  ASSUME UNCHANGED <<asked, date>>, NEW T, T = stored', NEW A, A = Always', NEW N, N = added'
  PROVE  /\ Listing(stored)' = Listing(T) /\ Listing(Always)' = Listing(A)
         /\ \A y : Standing(y, stored)' = Standing(y, T) /\ Standing(y, Always)' = Standing(y, A)
         /\ \A y, S : Standing(y, Always \cup S)' = Standing(y, A \cup S)
         /\ \A y : Mentions(y, added)' = Mentions(y, N)
         /\ \A y : Above(y, stored)' = Above(y, T)
<1>1. /\ \A y : Mentions(y, stored)' = Mentions(y, T)
      /\ \A y : Mentions(y, Always)' = Mentions(y, A)
      /\ \A y, S : Mentions(y, Always \cup S)' = Mentions(y, A \cup S)
      /\ \A y : Mentions(y, added)' = Mentions(y, N)
  BY DEF Mentions, InRange
<1>2. Listing(stored)' = Listing(T) /\ Listing(Always)' = Listing(A)
  BY <1>1 DEF Listing
<1>3. /\ \A y : Dates(y, stored)' = Dates(y, T)
      /\ \A y : Dates(y, Always)' = Dates(y, A)
      /\ \A y, S : Dates(y, Always \cup S)' = Dates(y, A \cup S)
  BY <1>1 DEF Dates
<1>4. /\ \A y : Newest(y, stored)' = Newest(y, T)
      /\ \A y : Newest(y, Always)' = Newest(y, A)
      /\ \A y, S : Newest(y, Always \cup S)' = Newest(y, A \cup S)
  BY <1>3 DEF Newest
<1>5. /\ \A y : Often(y, stored)' = Often(y, T)
      /\ \A y : Often(y, Always)' = Often(y, A)
      /\ \A y, S : Often(y, Always \cup S)' = Often(y, A \cup S)
  BY <1>1 DEF Often
<1>6. /\ \A y : Place(y, stored)' = Place(y, T)
      /\ \A y : Place(y, Always)' = Place(y, A)
      /\ \A y, S : Place(y, Always \cup S)' = Place(y, A \cup S)
  BY <1>4 DEF Place
<1>7. \A y : Standing(y, stored)' = Standing(y, T)
  <2>1. \A y : Standing(y, stored)' = Place(y, stored)' * Wide + Often(y, stored)'
    BY DEF Standing, Place, Newest, Dates, Wide, Often
  <2> QED BY <1>5, <1>6, <2>1, StandingIs
<1>8. \A y : Standing(y, Always)' = Standing(y, A)
  <2>1. \A y : Standing(y, Always)' = Place(y, Always)' * Wide + Often(y, Always)'
    BY DEF Standing, Place, Newest, Dates, Wide, Often
  <2> QED BY <1>5, <1>6, <2>1, StandingIs
<1>9. ASSUME NEW y, NEW S
      PROVE  Standing(y, Always \cup S)' = Standing(y, A \cup S)
  <2>1. Standing(y, Always \cup S)' = Place(y, Always \cup S)' * Wide + Often(y, Always \cup S)'
    BY DEF Standing, Place, Newest, Dates, Wide, Often
  <2>2. Standing(y, A \cup S) = Place(y, A \cup S) * Wide + Often(y, A \cup S)
    BY StandingIs
  <2>3. Place(y, Always \cup S)' = Place(y, A \cup S)
    BY <1>6
  <2>4. Often(y, Always \cup S)' = Often(y, A \cup S)
    BY <1>5
  <2> QED BY <2>1, <2>2, <2>3, <2>4
<1>10. \A y : Above(y, stored)' = Above(y, T)
  BY <1>2, <1>7 DEF Above
<1> QED BY <1>1, <1>2, <1>7, <1>8, <1>9, <1>10

\* The same two conditions of any graph, of the events there all the time and
\* of those that came.
OnlyMoreOf(T, A) ==
  /\ Listing(T) = Listing(A)
  /\ \A y \in Listing(T) : Standing(y, T) >= Standing(y, A)
AloneIn(x, T, A, N) ==
  /\ Mentions(x, N) = {}
  /\ \A y \in Listing(T) \ {x}, S \in SUBSET N : Standing(x, T) # Standing(y, A \cup S)

LEMMA WalkAfter ==
  ASSUME UNCHANGED <<asked, date>>, NEW T, T = stored', NEW A, A = Always', NEW N, N = added'
  PROVE  /\ OnlyMore' <=> removed' = {} /\ OnlyMoreOf(T, A)
         /\ \A x : Alone(x)' <=> AloneIn(x, T, A, N)
         /\ Listing(stored)' = Listing(T) /\ \A y : Above(y, stored)' = Above(y, T)
<1>1. /\ Listing(stored)' = Listing(T) /\ Listing(Always)' = Listing(A)
      /\ \A y : Standing(y, stored)' = Standing(y, T) /\ Standing(y, Always)' = Standing(y, A)
      /\ \A y, S : Standing(y, Always \cup S)' = Standing(y, A \cup S)
      /\ \A y : Mentions(y, added)' = Mentions(y, N)
      /\ \A y : Above(y, stored)' = Above(y, T)
  BY StandingAfter
<1>2. OnlyMore' <=> removed' = {} /\ OnlyMoreOf(T, A)
  BY <1>1 DEF OnlyMore, OnlyMoreOf
<1>3. \A x : Alone(x)' <=> AloneIn(x, T, A, N)
  <2> SUFFICES ASSUME NEW x PROVE Alone(x)' <=> AloneIn(x, T, A, N)
    OBVIOUS
  <2>1. Alone(x)' <=>
          /\ Mentions(x, added)' = {}
          /\ \A y \in Listing(stored)' \ {x}, S \in SUBSET added' :
               Standing(x, stored)' # Standing(y, Always \cup S)'
    BY Zenon DEF Alone
  <2>2. /\ Mentions(x, added)' = Mentions(x, N) /\ Standing(x, stored)' = Standing(x, T)
        /\ Listing(stored)' = Listing(T) /\ added' = N
        /\ \A y, S : Standing(y, Always \cup S)' = Standing(y, A \cup S)
    BY <1>1, Zenon
  <2>3. ASSUME Alone(x)', NEW y \in Listing(T) \ {x}, NEW S \in SUBSET N
        PROVE  Standing(x, T) # Standing(y, A \cup S)
    <3>1. y \in Listing(stored)' \ {x} /\ S \in SUBSET added'
      BY <2>2
    <3>2. Standing(x, stored)' # Standing(y, Always \cup S)'
      BY <2>1, <2>3, <3>1, Zenon
    <3>3. Standing(y, Always \cup S)' = Standing(y, A \cup S)
      BY <1>1
    <3> QED BY <2>2, <3>2, <3>3
  <2>4. ASSUME AloneIn(x, T, A, N), NEW y \in Listing(stored)' \ {x}, NEW S \in SUBSET added'
        PROVE  Standing(x, stored)' # Standing(y, Always \cup S)'
    <3>1. y \in Listing(T) \ {x} /\ S \in SUBSET N
      BY <2>2
    <3>2. Standing(x, T) # Standing(y, A \cup S)
      BY <2>4, <3>1, Zenon DEF AloneIn
    <3>3. Standing(y, Always \cup S)' = Standing(y, A \cup S)
      BY <1>1
    <3> QED BY <2>2, <3>2, <3>3
  <2>5. Mentions(x, added)' = {} <=> Mentions(x, N) = {}
    BY <2>2
  <2>6. Alone(x)' => AloneIn(x, T, A, N)
    BY <2>1, <2>3, <2>5, Zenon DEF AloneIn
  <2>7. AloneIn(x, T, A, N) => Alone(x)'
    <3> SUFFICES ASSUME AloneIn(x, T, A, N) PROVE Alone(x)'
      OBVIOUS
    <3>1. Mentions(x, added)' = {}
      BY <2>5, Zenon DEF AloneIn
    <3> QED BY <2>1, <2>4, <3>1, Zenon
  <2> QED BY <2>6, <2>7
<1> QED BY <1>1, <1>2, <1>3

LEMMA WalkNow ==
  /\ OnlyMore <=> removed = {} /\ OnlyMoreOf(stored, Always)
  /\ \A x : Alone(x) <=> AloneIn(x, stored, Always, added)
  BY DEF OnlyMore, OnlyMoreOf, Alone, AloneIn

LEMMA WalkSame ==
  ASSUME GraphTypes, UNCHANGED graph, UNCHANGED asked
  PROVE  /\ OnlyMore' <=> OnlyMore
         /\ \A x : Alone(x)' <=> Alone(x)
         /\ Listing(stored)' = Listing(stored) /\ \A y : Above(y, stored)' = Above(y, stored)
<1>1. UNCHANGED <<asked, date>> /\ stored' = stored /\ removed' = removed
      /\ added' = added /\ Always' = Always
  BY GraphKept
<1>2. PICK T : T = stored'
  OBVIOUS
<1>3. PICK A : A = Always'
  OBVIOUS
<1>4. PICK N : N = added'
  OBVIOUS
<1>5. T = stored /\ A = Always /\ N = added
  BY <1>1, <1>2, <1>3, <1>4
<1>6. /\ OnlyMore' <=> removed' = {} /\ OnlyMoreOf(T, A)
      /\ \A x : Alone(x)' <=> AloneIn(x, T, A, N)
      /\ Listing(stored)' = Listing(T) /\ \A y : Above(y, stored)' = Above(y, T)
  BY <1>1, <1>2, <1>3, <1>4, WalkAfter
<1> QED BY <1>1, <1>5, <1>6, WalkNow

LEMMA ListingGrows ==
  ASSUME NEW T \in SUBSET Events, NEW S \in SUBSET T
  PROVE  Listing(S) \subseteq Listing(T)
  BY MentionsGrow DEF Listing

\* Who is not mentioned anew stands where it stood.
LEMMA StandsStill ==
  ASSUME NEW x, NEW A, NEW N, Mentions(x, N) = {}, NEW S, A \subseteq S, S \subseteq A \cup N
  PROVE  Standing(x, S) = Standing(x, A)
<1>1. Mentions(x, S) = Mentions(x, A)
  BY DEF Mentions
<1> QED BY <1>1 DEF Standing

LEMMA AboveFinite ==
  ASSUME NEW x, NEW S
  PROVE  /\ IsFiniteSet(Above(x, S)) /\ Cardinality(Above(x, S)) \in Nat
         /\ x \in Listing(S) /\ Standing(x, S) \in Nat
              => Cardinality(Above(x, S)) < Cardinality(Listing(S))
<1>1. IsFiniteSet(Listing(S)) /\ Above(x, S) \in SUBSET Listing(S)
  BY ListingType DEF Above
<1>2. /\ IsFiniteSet(Above(x, S)) /\ Cardinality(Above(x, S)) \in Nat
      /\ Cardinality(Listing(S)) \in Nat /\ Cardinality(Above(x, S)) <= Cardinality(Listing(S))
      /\ Cardinality(Listing(S)) = Cardinality(Above(x, S)) => Listing(S) = Above(x, S)
  BY <1>1, FS_Subset, FS_CardinalityType
<1>3. Standing(x, S) \in Nat => x \notin Above(x, S)
  BY DEF Above
<1> QED BY <1>2, <1>3

\* An event that comes lets no listed entry sink that is to be found.
LEMMA ChangeKeepsWalk ==
  ASSUME QueryTypes, WalkInv, Changing
  PROVE  WalkInv'
<1> USE DEF QueryTypes
<1> SUFFICES ASSUME ~dark', Walking', OnlyMore'
             PROVE  /\ \A x \in Listing(stored)' :
                         Alone(x)' =>
                           x \in listed' \/ page'.offset <= Cardinality(Above(x, stored)')
                    /\ at' \in {"page", "done"} => page'.total = Cardinality(Listing(stored)')
  BY Zenon DEF WalkInv
<1>1. /\ UNCHANGED <<date, asked, at, rows, quoted, listed, page, dark>>
      /\ removed \subseteq removed' /\ added \subseteq added' /\ GraphTypes'
  BY ChangeTypes
<1>2. removed' = {}
  BY DEF OnlyMore
<1>3. Always' = Always /\ stored \subseteq stored' /\ removed = {}
  <2>1. CASE \E e \in Events : Store(e)
    BY <1>1, <1>2, <2>1 DEF Store, GraphTypes, Always
  <2>2. CASE \E e \in Events : Vanish(e)
    BY <1>2, <2>2 DEF Vanish
  <2>3. CASE Outage
    BY <1>1, <1>2, <2>3 DEF Outage, GraphTypes, Always
  <2> QED BY <2>1, <2>2, <2>3 DEF Changing
<1>4. PICK T : T = stored'
  OBVIOUS
<1>5. PICK A : A = Always'
  OBVIOUS
<1>6. PICK N : N = added'
  OBVIOUS
<1>7. PICK S : S = stored
  OBVIOUS
<1>8. /\ T \in SUBSET Events /\ S \in SUBSET T /\ A \in SUBSET S /\ S \in SUBSET Events
      /\ A = Always /\ added \subseteq N /\ S \subseteq A \cup added /\ T \subseteq A \cup N
      /\ added \subseteq Events /\ N \subseteq Events
  BY <1>1, <1>2, <1>3, <1>4, <1>5, <1>6, <1>7 DEF GraphTypes, Always
<1>9. /\ OnlyMore' <=> removed' = {} /\ OnlyMoreOf(T, A)
      /\ \A x : Alone(x)' <=> AloneIn(x, T, A, N)
      /\ Listing(stored)' = Listing(T) /\ \A y : Above(y, stored)' = Above(y, T)
  BY <1>1, <1>4, <1>5, <1>6, WalkAfter
<1>10. OnlyMoreOf(T, A)
  BY <1>9
<1>11. Listing(S) = Listing(T) /\ Listing(A) = Listing(S)
  <2>1. Listing(A) \subseteq Listing(S) /\ Listing(S) \subseteq Listing(T)
    BY <1>8, ListingGrows
  <2> QED BY <1>10, <2>1 DEF OnlyMoreOf
<1>12. \A y \in Listing(S) :
         Standing(y, S) >= Standing(y, A) /\ Standing(y, T) >= Standing(y, S)
  BY <1>8, <1>10, <1>11, StandingGrows DEF OnlyMoreOf
<1>13. OnlyMore
  <2>1. OnlyMoreOf(S, A)
    BY <1>11, <1>12 DEF OnlyMoreOf
  <2> QED BY <1>3, <1>7, <1>8, <2>1, WalkNow
<1>14. Walking /\ ~dark
  BY <1>1 DEF Walking
<1>15. ASSUME NEW x \in Listing(T), AloneIn(x, T, A, N)
       PROVE  x \in listed \/ page.offset <= Cardinality(Above(x, T))
  <2>1. Mentions(x, N) = {} /\ Mentions(x, added) = {}
    <3>1. Mentions(x, added) \subseteq Mentions(x, N)
      BY <1>8, MentionsGrow
    <3> QED BY <1>15, <3>1 DEF AloneIn
  <2>2. Standing(x, T) = Standing(x, A) /\ Standing(x, S) = Standing(x, A)
    <3>1. A \subseteq T /\ T \subseteq A \cup N /\ A \subseteq S /\ S \subseteq A \cup N
      BY <1>8
    <3> QED BY <2>1, <3>1, StandsStill
  <2>3. Alone(x)
    <3>1. ASSUME NEW y \in Listing(S) \ {x}, NEW U \in SUBSET added
          PROVE  Standing(x, S) # Standing(y, A \cup U)
      <4>1. y \in Listing(T) \ {x} /\ U \in SUBSET N
        BY <1>8, <1>11
      <4>2. Standing(x, T) # Standing(y, A \cup U)
        BY <1>15, <4>1, Zenon DEF AloneIn
      <4> QED BY <2>2, <4>2
    <3>2. AloneIn(x, S, A, added)
      BY <2>1, <3>1 DEF AloneIn
    <3> QED BY <1>7, <1>8, <3>2, WalkNow
  <2>4. x \in listed \/ page.offset <= Cardinality(Above(x, S))
    BY <1>7, <1>11, <1>13, <1>14, <2>3 DEF WalkInv
  <2>5. Above(x, S) \subseteq Above(x, T)
    <3>1. \A y \in Listing(S) : Standing(y, S) \in Nat /\ Standing(y, T) \in Nat
      BY <1>8, StandingType
    <3>2. Standing(x, S) = Standing(x, T) /\ Standing(x, S) \in Nat
      BY <1>11, <2>2, <3>1
    <3> QED BY <1>11, <1>12, <3>1, <3>2 DEF Above
  <2>6. Cardinality(Above(x, S)) <= Cardinality(Above(x, T))
    BY <2>5, AboveFinite, FS_Subset
  <2>7. Cardinality(Above(x, S)) \in Nat /\ Cardinality(Above(x, T)) \in Nat /\ page.offset \in Nat
    BY AboveFinite DEF FoundTypes
  <2> QED BY <2>4, <2>6, <2>7
<1>16. at \in {"page", "done"} => page.total = Cardinality(Listing(T))
  BY <1>7, <1>11, <1>13, <1>14 DEF WalkInv
<1> QED BY <1>1, <1>9, <1>15, <1>16

LEMMA ReadKeepsWalk ==
  ASSUME QueryTypes, WalkInv, ReadPage
  PROVE  WalkInv'
<1> USE DEF QueryTypes
<1> SUFFICES ASSUME ~dark', OnlyMore'
             PROVE  /\ \A x \in Listing(stored)' :
                         Alone(x)' =>
                           x \in listed' \/ page'.offset <= Cardinality(Above(x, stored)')
                    /\ at' \in {"page", "done"} => page'.total = Cardinality(Listing(stored)')
  BY Zenon DEF WalkInv
<1>1. /\ UNCHANGED graph /\ UNCHANGED asked /\ at = "page" /\ asked.tool \in Walks
      /\ ~dark /\ Answered(stored) = stored
  BY DEF ReadPage, Look, Stages, Answered, GraphTypes, FoundTypes
<1>2. /\ OnlyMore' <=> OnlyMore
      /\ \A x : Alone(x)' <=> Alone(x)
      /\ Listing(stored)' = Listing(stored) /\ \A y : Above(y, stored)' = Above(y, stored)
  BY <1>1, WalkSame
<1>3. /\ \A x \in Listing(stored) :
           Alone(x) => x \in listed \/ page.offset <= Cardinality(Above(x, stored))
      /\ page.total = Cardinality(Listing(stored))
  BY <1>1, <1>2 DEF WalkInv, Walking
<1>4. PICK order \in Orders(stored), got \in Seq(Entities \cup Topics) :
           /\ order \in [1 .. Total(stored) -> Listing(stored)]
           /\ Len(got) \in Nat /\ Len(got) <= PageSize
           /\ Range(got) \subseteq Listing(stored)
           /\ \A p \in page.offset + 1 .. page.offset + PageSize :
                p <= Total(stored) => order[p] \in Range(got)
           /\ listed' = listed \cup Range(got)
           /\ page' = [page EXCEPT !.offset = page.offset + Len(got), !.pages = page.pages + 1]
           /\ at' = Onward(page')
  BY <1>1, ReadStep
<1>5. page'.total = page.total /\ page'.offset = page.offset + Len(got)
      /\ page.offset \in Nat /\ PageSize \in Nat
  BY <1>4, QueryConstants DEF FoundTypes
<1>6. ASSUME NEW x \in Listing(stored), Alone(x), x \notin listed'
      PROVE  page.offset + Len(got) <= Cardinality(Above(x, stored))
  <2>1. page.offset <= Cardinality(Above(x, stored))
    BY <1>3, <1>4, <1>6
  <2>2. stored \in SUBSET Events /\ stored = Always \cup added
    BY <1>2 DEF OnlyMore, GraphTypes, Always
  <2>3. \A y \in Listing(stored) \ {x} : Standing(x, stored) # Standing(y, stored)
    <3> SUFFICES ASSUME NEW y \in Listing(stored) \ {x}
                 PROVE  Standing(x, stored) # Standing(y, stored)
      OBVIOUS
    <3>1. Standing(x, stored) # Standing(y, Always \cup added)
      BY <1>6 DEF Alone
    <3> QED BY <2>2, <3>1
  <2>4. PICK p \in 1 .. Total(stored) : order[p] = x /\ p = Cardinality(Above(x, stored)) + 1
    BY <2>2, <2>3, PlaceInOrder
  <2>5. p \in Nat /\ p <= Total(stored) /\ page.offset + 1 <= p
        /\ Cardinality(Above(x, stored)) \in Nat
    BY <1>5, <2>1, <2>4, AboveFinite, ListingType
  <2>6. ~(p <= page.offset + PageSize)
    <3> SUFFICES ASSUME p <= page.offset + PageSize PROVE FALSE
      OBVIOUS
    <3>1. p \in page.offset + 1 .. page.offset + PageSize
      BY <1>5, <2>5
    <3>2. x \in Range(got)
      BY <1>4, <2>4, <2>5, <3>1
    <3> QED BY <1>4, <1>6, <3>2
  <2> QED BY <1>4, <1>5, <2>4, <2>5, <2>6
<1> QED BY <1>2, <1>3, <1>5, <1>6

LEMMA CountKeepsWalk ==
  ASSUME QueryTypes, WalkInv, CountAll
  PROVE  WalkInv'
<1> USE DEF QueryTypes
<1> SUFFICES ASSUME ~dark', OnlyMore'
             PROVE  /\ \A x \in Listing(stored)' :
                         Alone(x)' =>
                           x \in listed' \/ page'.offset <= Cardinality(Above(x, stored)')
                    /\ at' \in {"page", "done"} => page'.total = Cardinality(Listing(stored)')
  BY Zenon DEF WalkInv
<1>1. /\ UNCHANGED graph /\ UNCHANGED asked /\ at = "count" /\ asked.tool \in Walks
      /\ ~dark /\ Answered(stored) = stored /\ UNCHANGED listed
      /\ page' = [page EXCEPT !.total = Total(stored)]
  BY DEF CountAll, Look, Stages, Answered, GraphTypes, FoundTypes
<1>2. /\ OnlyMore' <=> OnlyMore
      /\ \A x : Alone(x)' <=> Alone(x)
      /\ Listing(stored)' = Listing(stored) /\ \A y : Above(y, stored)' = Above(y, stored)
  BY <1>1, WalkSame
<1>3. \A x \in Listing(stored) :
        Alone(x) => x \in listed \/ page.offset <= Cardinality(Above(x, stored))
  BY <1>1, <1>2 DEF WalkInv, Walking
<1>4. page'.total = Cardinality(Listing(stored)) /\ page'.offset = page.offset
  BY <1>1 DEF FoundTypes, Total
<1> QED BY <1>1, <1>2, <1>3, <1>4

LEMMA OthersKeepWalk ==
  ASSUME QueryTypes, WalkInv,
         Resolve \/ Drop \/ Raise \/ FindMentions \/ FindSaid \/ FindRecent \/ FindTimeline
         \/ Again \/ Retrieve \/ ReadIds \/ Meet \/ Collect \/ Quote \/ Relate
  PROVE  WalkInv'
<1> USE DEF QueryTypes
<1>1. CASE Drop
  BY <1>1 DEF Drop, WalkInv
<1>2. CASE Resolve \/ Raise \/ FindMentions \/ FindSaid \/ FindRecent \/ FindTimeline
           \/ Again \/ Retrieve \/ ReadIds \/ Meet \/ Collect \/ Quote \/ Relate
  <2>1. asked.tool \notin Walks
    BY <1>2 DEF Resolve, Raise, FindMentions, FindSaid, FindRecent, FindTimeline, Again, Retrieve,
                ReadIds, Meet, Collect, Quote, Relate, Stages, Walks, ByRetrieval
  <2>2. asked'.tool = asked.tool
    <3>1. CASE Resolve
      BY <3>1 DEF Resolve, AskedOK, AskedRecord
    <3>2. CASE ~Resolve
      BY <1>2, <3>2 DEF Raise, FindMentions, FindSaid, FindRecent, FindTimeline, Again, Retrieve,
                        ReadIds, Meet, Collect, Quote, Relate
    <3> QED BY <3>1, <3>2
  <2> QED BY <2>1, <2>2 DEF WalkInv, Walking
<1> QED BY <1>1, <1>2

LEMMA WalkInit == QueryInit => WalkInv
<1> SUFFICES ASSUME QueryInit PROVE WalkInv
  OBVIOUS
<1>1. page.offset = 0
  BY DEF QueryInit
<1>2. at \notin {"page", "done"}
  BY DEF QueryInit
<1>3. \A x : 0 <= Cardinality(Above(x, stored))
  BY AboveFinite
<1> QED BY <1>1, <1>2, <1>3 DEF WalkInv

LEMMA WalkStep ==
  ASSUME QueryTypes, WalkInv, [QueryNext]_queryVars
  PROVE  WalkInv'
<1>1. CASE UNCHANGED queryVars
  <2>1. UNCHANGED graph /\ UNCHANGED <<asked, at, listed, page, dark>>
    BY <1>1 DEF queryVars, found
  <2>2. /\ OnlyMore' <=> OnlyMore
        /\ \A x : Alone(x)' <=> Alone(x)
        /\ Listing(stored)' = Listing(stored) /\ \A y : Above(y, stored)' = Above(y, stored)
    BY <2>1, WalkSame DEF QueryTypes
  <2> QED BY <2>1, <2>2 DEF WalkInv, Walking
<1>2. CASE QueryNext
  BY <1>2, ChangeKeepsWalk, ReadKeepsWalk, CountKeepsWalk, OthersKeepWalk, Zenon
     DEF QueryNext, Changing
<1> QED BY <1>1, <1>2

LEMMA WalkHolds ==
  ASSUME QueryTypes, WalkInv
  PROVE  ListedAreFound
<1> USE DEF QueryTypes
<1> SUFFICES ASSUME at = "done", asked.tool \in Walks, ~dark, ~More(page), OnlyMore,
                    NEW x \in Listing(stored), Alone(x)
             PROVE  x \in listed
  BY Zenon DEF ListedAreFound, OnlyMore, Alone, Walks
<1>1. x \in listed \/ page.offset <= Cardinality(Above(x, stored))
  BY DEF WalkInv, Walking
<1>2. page.total = Cardinality(Listing(stored))
  BY DEF WalkInv, Walking
<1>3. Standing(x, stored) \in Nat
  BY StandingType DEF GraphTypes
<1>4. Cardinality(Above(x, stored)) < Cardinality(Listing(stored))
      /\ Cardinality(Above(x, stored)) \in Nat /\ Cardinality(Listing(stored)) \in Nat
  BY <1>3, AboveFinite, ListingType
<1>5. page.offset \in Nat
  BY DEF FoundTypes
<1> QED BY <1>1, <1>2, <1>4, <1>5 DEF More

\* A walk through the pages that ends for want of more has shown whatever was
\* listed all the time, though the order changed under it.
THEOREM WalksMissNothing == QuerySpec => []ListedAreFound
<1>1. QueryInit => WalkInv
  BY WalkInit
<1>2. QueryTypes /\ WalkInv /\ [QueryNext]_queryVars => WalkInv'
  BY WalkStep
<1>3. QueryTypes /\ WalkInv => ListedAreFound
  BY WalkHolds
<1> QED BY <1>1, <1>2, <1>3, QueryKeepsTypes, PTL DEF QuerySpec
=============================================================================
