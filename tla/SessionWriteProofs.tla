----------------------- MODULE SessionWriteProofs -----------------------
(***************************************************************************)
(* What SessionWrite keeps for every set of calls, every size of an        *)
(* extraction and every number of failures, when the callers run one call  *)
(* of a session at a time.  One inductive invariant, IInv, carries what a  *)
(* completed marker promises; what a session holds between its calls and   *)
(* what a call has made visible when it returns are added to it.           *)
(***************************************************************************)
EXTENDS SessionWrite, FiniteSetTheorems, TLAPS

-----------------------------------------------------------------------------
(* Types.                                                                  *)

\* Spending from a bound stays within the bounds, and only a failure that is
\* swallowed counts as silent.
LEMMA Spending ==
  ASSUME used \in Bounds, SessionAssumption
  PROVE  /\ Works => used' \in Bounds
         /\ Raises => used' \in Bounds /\ used'.silent = used.silent
         /\ FailsSilently => used' \in Bounds /\ used'.silent > 0
         /\ Spend("cuts", MaxCuts) => used' \in Bounds /\ used'.silent = used.silent
         /\ Spend("restarts", MaxRestarts) => used' \in Bounds /\ used'.silent = used.silent
         /\ Spend("clears", MaxClears) => used' \in Bounds /\ used'.silent = used.silent
  BY DEF Bounds, Works, Raises, FailsSilently, Spend, SessionAssumption

\* A marker that is saved is a marker, and is the one in the store unless a
\* failure was swallowed.
LEMMA Saving ==
  ASSUME TypeOK, SessionAssumption, NEW m \in Marker, Save(m)
  PROVE  /\ marker' \in Marker /\ cached' \in Marker
         /\ used' \in Bounds
         /\ used'.silent = 0 => marker' = m /\ used.silent = 0
<1>1. used \in Bounds
  BY DEF TypeOK, Bounds
<1>2. CASE Works
  BY <1>1, <1>2, Spending DEF Save, TypeOK, Works, FailsSilently, Spend, Bounds
<1>3. CASE FailsSilently
  BY <1>1, <1>3, Spending DEF Save, TypeOK, Bounds
<1> QED BY <1>2, <1>3 DEF Save

\* The three ways to change a table of entries keep it one.
LEMMA Tables ==
  ASSUME NEW N, NEW t \in [1 .. N -> Entry], NEW c \in Calls, NEW k
  PROVE  /\ Written(t, c, k) \in [1 .. N -> Entry]
         /\ Published(t, k) \in [1 .. N -> Entry]
         /\ Kept(t, k) \in [1 .. N -> Entry]
         /\ \A i \in 1 .. N : [t EXCEPT ![i] = Absent] \in [1 .. N -> Entry]
  BY DEF Written, Published, Kept, Entry, Absent

\* A call that returns, or moves on.
LEMMA Returning ==
  ASSUME TypeOK, SessionAssumption, NEW c \in Calls,
         NEW r \in {"ok", "skipped", "failed", "cut"}, Return(c, r)
  PROVE  /\ pc' = [pc EXCEPT ![c] = "ended"]
         /\ over' \in [Calls -> BOOLEAN]
         /\ own' \in [Calls -> Locals]
         /\ answer' \in Answers
<1>1. NoLocals \in Locals
  BY DEF NoLocals, Locals, SessionAssumption
<1>2. own' \in [Calls -> Locals]
  BY <1>1 DEF TypeOK, Return
<1>3. answer' \in Answers
  BY DEF Return, Answers
<1> QED BY <1>2, <1>3 DEF TypeOK, Return

\* A step that leaves the locals of every other call alone keeps them typed.
LEMMA Stepping ==
  ASSUME TypeOK, SessionAssumption, NEW c \in Calls,
         NEW n \in 0 .. MaxFacts
  PROVE  /\ [own EXCEPT ![c].old = n] \in [Calls -> Locals]
         /\ [own EXCEPT ![c].graph = TRUE] \in [Calls -> Locals]
         /\ own[c].next <= own[c].old =>
              [own EXCEPT ![c].next = @ + 1] \in [Calls -> Locals]
<1>1. own \in [Calls -> Locals] /\ MaxFacts \in Nat /\ MaxEvents \in Nat
  BY DEF TypeOK, SessionAssumption
<1>2. own[c] \in Locals
  BY <1>1
<1>3. own[c].next <= own[c].old => own[c].next + 1 \in 1 .. MaxFacts + 1
  BY <1>1, <1>2 DEF Locals
<1> QED BY <1>1, <1>2, <1>3 DEF Locals

\* The type invariant is inductive.
LEMMA TypeStep ==
  ASSUME TypeOK, SessionAssumption, [Next]_vars
  PROVE  TypeOK'
<1> USE DEF TypeOK
<1> DEFINE Where == {"new", "check", "mark", "extract", "graph", "purge", "write",
                     "publish", "publish2", "stale", "fail", "ended"}
<1>bound. NoMarker \in Marker /\ NoLocals \in Locals /\ MaxFacts \in Nat
  BY DEF NoMarker, Marker, NoLocals, Locals, SessionAssumption
<1>none. NoAnswer \in Answers
  BY DEF NoAnswer, Answers
<1>1. ASSUME NEW c \in Calls, NEW o \in BOOLEAN, Begin(c, o) PROVE TypeOK'
  BY <1>1, <1>none DEF Begin, Goto, stores
<1>2. ASSUME NEW c \in Calls, Check(c) PROVE TypeOK'
  <2> PICK found \in {marker, cached} :
        /\ Lookup(found)
        /\ \/ /\ Blocks(found) /\ ~over[c]
              /\ Return(c, "skipped")
              /\ UNCHANGED stored
           \/ /\ ~Blocks(found) \/ over[c]
              /\ Goto(c, "mark")
              /\ own' = [own EXCEPT ![c].old =
                           IF found.status = "completed" THEN found.n ELSE 0]
              /\ stored' = IF over[c] THEN {} ELSE stored
              /\ UNCHANGED over
    BY <1>2 DEF Check
  <2>1. used' \in Bounds
    BY Spending DEF Lookup
  <2>2. found.n \in 0 .. MaxFacts /\ 0 \in 0 .. MaxFacts
    BY <1>bound DEF Marker
  <2>3. UNCHANGED <<stores, sweep, clean, intact, last>>
    BY <1>2 DEF Check
  <2>4. CASE Return(c, "skipped") /\ UNCHANGED stored
    BY <2>1, <2>3, <2>4, Returning DEF stores
  <2>5. CASE /\ Goto(c, "mark") /\ UNCHANGED over
             /\ own' = [own EXCEPT ![c].old =
                          IF found.status = "completed" THEN found.n ELSE 0]
             /\ stored' = IF over[c] THEN {} ELSE stored
    <3>1. own' \in [Calls -> Locals]
      BY <2>2, <2>5, Stepping DEF Locals
    <3> QED BY <1>none, <2>1, <2>3, <2>5, <3>1 DEF stores, Goto
  <2> QED BY <2>4, <2>5
<1>3. ASSUME NEW c \in Calls, Mark(c) PROVE TypeOK'
  <2>1. [status |-> "in_progress", by |-> c, n |-> 0] \in Marker
    BY <1>bound DEF Marker
  <2> QED BY <1>3, <1>none, <2>1, Saving DEF Mark, Goto, history
<1>4. ASSUME NEW c \in Calls, Extract(c) PROVE TypeOK'
  <2>1. UNCHANGED <<stores, sweep, over, history>> /\ used' \in Bounds
    BY <1>4, Spending DEF Extract
  <2>2. pc' \in [Calls -> Where] /\ answer' \in Answers
    BY <1>4, <1>none DEF Extract, Goto
  <2>3. CASE Raises /\ Goto(c, "fail") /\ UNCHANGED own
    BY <2>1, <2>2, <2>3 DEF stores, history
  <2>4. ASSUME NEW n \in 0 .. MaxFacts, NEW m \in 0 .. MaxEvents, NEW llm \in BOOLEAN,
               own' = [own EXCEPT ![c] = [old |-> @.old, next |-> n + 1, n |-> n,
                                          m |-> m, llm |-> llm, graph |-> FALSE]]
        PROVE  TypeOK'
    <3>1. own' \in [Calls -> Locals]
      BY <1>bound, <2>4 DEF Locals
    <3> QED BY <2>1, <2>2, <3>1 DEF stores, history
  <2> QED BY <1>4, <2>3, <2>4 DEF Extract
<1>5. ASSUME NEW c \in Calls, Graph(c) PROVE TypeOK'
  <2>1. UNCHANGED <<marker, cached, facts, sweep, over, history>> /\ used' \in Bounds
    BY <1>5, Spending DEF Graph
  <2>2. pc' \in [Calls -> Where] /\ answer' \in Answers
    BY <1>5, <1>none DEF Graph, Goto
  <2>3. own' \in [Calls -> Locals]
    <3>1. 0 \in 0 .. MaxFacts /\ 0 \in 0 .. MaxEvents
      BY DEF SessionAssumption
    <3>2. [own EXCEPT ![c].graph = TRUE] \in [Calls -> Locals]
      BY <3>1, Stepping
    <3> QED BY <1>5, <3>2 DEF Graph
  <2>4. events' \in [EventIds -> Entry]
    BY <1>5, Tables DEF Graph, EventIds
  <2> QED BY <2>1, <2>2, <2>3, <2>4 DEF history
<1>6. ASSUME NEW c \in Calls, Purge(c) PROVE TypeOK'
  <2>1. events' \in [EventIds -> Entry]
    BY <1>6, Tables DEF Purge, EventIds
  <2> QED BY <1>6, <1>none, <2>1, Spending DEF Purge, Goto, history
<1>7. ASSUME NEW c \in Calls, Write(c) PROVE TypeOK'
  <2>1. facts' \in [FactIds -> Entry]
    <3>1. \A k : /\ Written(facts, c, k) \in [FactIds -> Entry]
                 /\ Published(facts, k) \in [FactIds -> Entry]
      BY Tables DEF FactIds
    <3> QED BY <1>7, <3>1 DEF Write
  <2>2. pc' \in [Calls -> Where] /\ answer' \in Answers /\ used' \in Bounds
    BY <1>7, <1>none, Spending DEF Write, Goto
  <2> QED BY <1>7, <2>1, <2>2 DEF Write, history
<1>8. ASSUME NEW c \in Calls, Publish(c) PROVE TypeOK'
  <2>1. facts' \in [FactIds -> Entry]
    <3>1. \A k : /\ Written(facts, c, k) \in [FactIds -> Entry]
                 /\ Published(facts, k) \in [FactIds -> Entry]
      BY Tables DEF FactIds
    <3> QED BY <1>8, <3>1 DEF Publish
  <2> QED BY <1>8, <1>none, <2>1, Spending DEF Publish, Goto, history
<1>9. ASSUME NEW c \in Calls, Publish2(c) PROVE TypeOK'
  <2>1. events' \in [EventIds -> Entry]
    BY <1>9, Tables DEF Publish2, EventIds
  <2>2. last' \in 0 .. MaxFacts
    BY <1>9 DEF Publish2, Locals
  <2>3. used' \in Bounds
    BY <1>9, Spending DEF Publish2
  <2> QED BY <1>9, <1>none, <2>1, <2>2, <2>3 DEF Publish2, Goto
<1>10. ASSUME NEW c \in Calls, DeleteStale(c) PROVE TypeOK'
  <2>1. own[c] \in Locals
    OBVIOUS
  <2>2. own[c].next \in FactIds
    BY <1>10, <2>1, <1>bound DEF DeleteStale, Locals, FactIds
  <2>3. facts' \in [FactIds -> Entry]
    <3>1. [facts EXCEPT ![own[c].next] = Absent] \in [FactIds -> Entry]
      BY <2>2 DEF Absent, Entry
    <3> QED BY <1>10, <3>1 DEF DeleteStale
  <2>4. own' \in [Calls -> Locals]
    <3>1. 0 \in 0 .. MaxFacts /\ 0 \in 0 .. MaxEvents
      BY DEF SessionAssumption
    <3>2. own[c].next <= own[c].old =>
            [own EXCEPT ![c].next = @ + 1] \in [Calls -> Locals]
      BY <3>1, Stepping
    <3> QED BY <1>10, <3>2 DEF DeleteStale
  <2>5. pc' \in [Calls -> Where] /\ answer' \in Answers /\ used' \in Bounds
    BY <1>10, <1>none, Spending DEF DeleteStale, Goto
  <2> QED BY <1>10, <2>3, <2>4, <2>5 DEF DeleteStale, history
<1>11. ASSUME NEW c \in Calls, Finish(c) PROVE TypeOK'
  <2>1. [status |-> IF own[c].llm THEN "completed" ELSE "completed_no_llm",
         by |-> c, n |-> own[c].n] \in Marker
    BY DEF Marker, Locals
  <2>2. marker' \in Marker /\ cached' \in Marker /\ used' \in Bounds
    BY <1>11, <2>1, Saving DEF Finish
  <2>3. Return(c, "ok")
    BY <1>11 DEF Finish
  <2>4. clean' \in BOOLEAN /\ stored' \subseteq Calls
    BY <1>11 DEF Finish, Locals
  <2> QED BY <1>11, <2>2, <2>3, <2>4, Returning DEF Finish
<1>12. ASSUME NEW c \in Calls, Fail(c) PROVE TypeOK'
  <2>1. [status |-> "failed", by |-> c, n |-> 0] \in Marker
    BY <1>bound DEF Marker
  <2>2. marker' \in Marker /\ cached' \in Marker /\ used' \in Bounds
    BY <1>12, <2>1, Saving DEF Fail
  <2>3. Return(c, "failed")
    BY <1>12 DEF Fail
  <2> QED BY <1>12, <2>2, <2>3, Returning DEF Fail
<1>13. ASSUME NEW c \in Calls, Cut(c) PROVE TypeOK'
  <2>1. Return(c, "cut") /\ used' \in Bounds
    BY <1>13, Spending DEF Cut
  <2> QED BY <1>13, <2>1, Returning DEF Cut, stores
<1>14. CASE Restart
  <2>1. used' \in Bounds
    BY <1>14, Spending DEF Restart
  <2>2. clean' \in BOOLEAN
    BY <1>14 DEF Restart, Quiet
  <2> QED BY <1>14, <1>bound, <2>1, <2>2 DEF Restart
<1>15. CASE ClearVectors
  <2>1. used' \in Bounds
    BY <1>15, Spending DEF ClearVectors
  <2>2. intact' \in BOOLEAN /\ clean' \in BOOLEAN /\ last' \in 0 .. MaxFacts
    <3>1. 0 \in 0 .. MaxFacts
      BY <1>bound
    <3>2. Quiet \in BOOLEAN
      BY DEF Quiet
    <3> QED BY <1>15, <3>1, <3>2 DEF ClearVectors
  <2>3. [i \in FactIds |-> Absent] \in [FactIds -> Entry]
    BY DEF Absent, Entry
  <2> QED BY <1>15, <1>bound, <2>1, <2>2, <2>3 DEF ClearVectors, locals
<1>16. CASE ClearGraph
  <2>1. [i \in EventIds |-> Absent] \in [EventIds -> Entry]
    BY DEF Absent, Entry
  <2> QED BY <1>16, <2>1 DEF ClearGraph, locals, history
<1>17. CASE UNCHANGED vars
  BY <1>17 DEF vars, stores, locals, history
<1> QED
  BY <1>1, <1>2, <1>3, <1>4, <1>5, <1>6, <1>7, <1>8, <1>9, <1>10, <1>11, <1>12,
     <1>13, <1>14, <1>15, <1>16, <1>17 DEF Next, CallStep

-----------------------------------------------------------------------------
(* The inductive invariant.                                                *)

Trusted == intact /\ used.silent = 0

Alone == \A c, d \in Calls : Active(c) /\ Active(d) => c = d

\* What a call has done by the time it stands where it stands.
Progress(c) ==
  /\ pc[c] \in {"graph", "purge", "write", "publish", "publish2", "stale"} =>
       own[c].next > own[c].n
  /\ intact =>
       /\ pc[c] \in {"publish", "publish2", "stale"} =>
            \A i \in 1 .. own[c].n : facts[i].by = c
       /\ pc[c] = "stale" => last = own[c].n
  /\ Trusted =>
       /\ pc[c] \in {"publish2", "stale"} => \A i \in 1 .. own[c].n : facts[i].shown
       /\ pc[c] \notin {"new", "check", "mark", "ended"} => marker.status # "completed"

IInv ==
  /\ TypeOK /\ Alone
  /\ \A c \in Calls : Progress(c)
  /\ CompletedIsBacked /\ OverwriteKeepsData

\* A step of the active call leaves it alone and the others where they are.
LEMMA Others ==
  ASSUME IInv, NEW c \in Calls, Active(c) \/ Quiet, NEW where,
         pc' = [pc EXCEPT ![c] = where]
  PROVE  /\ Alone'
         /\ pc'[c] = where
         /\ \A d \in Calls : d # c => Progress(d)'
<1>1. \A d \in Calls : d # c => pc'[d] \in {"new", "ended"}
  BY DEF IInv, Alone, TypeOK, Active, Quiet
<1>2. Alone' /\ pc'[c] = where
  BY <1>1 DEF Alone, Active, IInv, TypeOK
<1> QED BY <1>1, <1>2 DEF Progress

\* A call that returns has nothing left to keep.
LEMMA Ending ==
  ASSUME IInv, NEW c \in Calls, Active(c), NEW r, Return(c, r)
  PROVE  Alone' /\ \A d \in Calls : Progress(d)'
<1>1. pc' = [pc EXCEPT ![c] = "ended"]
  BY DEF Return
<1>2. pc'[c] = "ended" => Progress(c)'
  BY DEF Progress
<1> QED BY <1>1, <1>2, Others

LEMMA FactsOf ==
  ASSUME TypeOK, SessionAssumption
  PROVE  /\ \A i \in FactIds : facts[i] \in Entry
         /\ \A i \in FactIds, c \in Calls : facts[i].by = c => facts[i] # Absent
         /\ \A c \in Calls : own[c] \in Locals
         /\ \A c \in Calls : own[c].n \in 0 .. MaxFacts /\ 1 .. own[c].n \subseteq FactIds
         /\ marker.n \in 0 .. MaxFacts /\ 1 .. marker.n \subseteq FactIds
         /\ last \in 0 .. MaxFacts /\ 1 .. last \subseteq FactIds
<1>1. \A i \in FactIds : facts[i] \in Entry
  BY DEF TypeOK
<1>2. \A i \in FactIds, c \in Calls : facts[i].by = c => facts[i] # Absent
  BY DEF Absent, SessionAssumption
<1>3. \A n \in 0 .. MaxFacts : 1 .. n \subseteq FactIds
  BY DEF FactIds, SessionAssumption
<1>4. \A c \in Calls : own[c] \in Locals /\ own[c].n \in 0 .. MaxFacts
  BY DEF TypeOK, Locals
<1>5. marker.n \in 0 .. MaxFacts /\ last \in 0 .. MaxFacts
  BY DEF TypeOK, Marker
<1> QED BY <1>1, <1>2, <1>3, <1>4, <1>5

\* A trusted state was trusted before: neither a clear that overlaps a call nor a
\* swallowed failure is forgotten.
LEMMA TrustLasts ==
  ASSUME TypeOK, SessionAssumption, Next
  PROVE  /\ intact' => intact
         /\ used'.silent = 0 => used.silent = 0
         /\ Trusted' => Trusted
<1> DEFINE Spends == \/ Works \/ Raises \/ FailsSilently
                     \/ Spend("cuts", MaxCuts) \/ Spend("restarts", MaxRestarts)
                     \/ Spend("clears", MaxClears)
<1>1. Spends => (used'.silent = 0 => used.silent = 0)
  BY Spending DEF TypeOK, Works
<1>2. ASSUME NEW c \in Calls, CallStep(c) PROVE Spends /\ (intact' => intact)
  <2>1. CASE Check(c)
    BY <2>1 DEF Check, Lookup
  <2>2. CASE Mark(c)
    BY <2>2 DEF Mark, Save, history
  <2>3. CASE Extract(c)
    BY <2>3 DEF Extract, history
  <2>4. CASE Graph(c)
    BY <2>4 DEF Graph, history
  <2>5. CASE Purge(c) \/ Write(c)
    BY <2>5 DEF Purge, Write, history
  <2>6. CASE Publish(c) \/ Publish2(c)
    BY <2>6 DEF Publish, Publish2, history
  <2>7. CASE DeleteStale(c)
    BY <2>7 DEF DeleteStale, history
  <2>8. CASE Finish(c) \/ Fail(c)
    BY <2>8 DEF Finish, Fail, Save
  <2> QED BY <1>2, <2>1, <2>2, <2>3, <2>4, <2>5, <2>6, <2>7, <2>8 DEF CallStep
<1>3. ASSUME NEW c \in Calls, Cut(c) PROVE Spends /\ (intact' => intact)
  BY <1>3 DEF Cut
<1>4. ASSUME NEW c \in Calls, NEW o \in BOOLEAN, Begin(c, o)
      PROVE  Spends /\ (intact' => intact)
  BY <1>4 DEF Begin, Works
<1>5. ASSUME Restart PROVE Spends /\ (intact' => intact)
  BY <1>5 DEF Restart
<1>6. ASSUME ClearVectors PROVE Spends /\ (intact' => intact)
  BY <1>6 DEF ClearVectors
<1>7. ASSUME ClearGraph PROVE Spends /\ (intact' => intact)
  BY <1>7 DEF ClearGraph, history, Works
<1>8. Spends /\ (intact' => intact)
  BY <1>2, <1>3, <1>4, <1>5, <1>6, <1>7 DEF Next
<1> QED BY <1>1, <1>8 DEF Trusted

\* What is left to show of a step that moves one call.
LEMMA Moved ==
  ASSUME IInv, SessionAssumption, [Next]_vars, NEW c \in Calls, Active(c) \/ Quiet,
         NEW where, pc' = [pc EXCEPT ![c] = where],
         Progress(c)', CompletedIsBacked', OverwriteKeepsData'
  PROVE  IInv'
<1>1. TypeOK'
  BY TypeStep DEF IInv
<1>2. Alone' /\ \A d \in Calls : d # c => Progress(d)'
  BY Others
<1> QED BY <1>1, <1>2 DEF IInv

LEMMA Ended ==
  ASSUME IInv, SessionAssumption, [Next]_vars, NEW c \in Calls, Active(c),
         NEW r, Return(c, r), CompletedIsBacked', OverwriteKeepsData'
  PROVE  IInv'
  BY TypeStep, Ending DEF IInv

\* A step that touches neither the facts nor the marker keeps what they say.
LEMMA Untouched ==
  ASSUME IInv, SessionAssumption, Next, UNCHANGED <<marker, facts, last>>
  PROVE  CompletedIsBacked' /\ OverwriteKeepsData'
  BY TrustLasts DEF IInv, CompletedIsBacked, OverwriteKeepsData

\* The inductive step, for callers that serialize their calls.
LEMMA InvStep ==
  ASSUME IInv, SessionAssumption, Exclusive, [Next]_vars
  PROVE  IInv'
<1> USE SessionAssumption
<1>trust. Next => (intact' => intact) /\ (Trusted' => Trusted)
  BY TrustLasts DEF IInv
<1>facts. /\ \A i \in FactIds : facts[i] \in Entry
          /\ \A i \in FactIds, c \in Calls : facts[i].by = c => facts[i] # Absent
          /\ \A c \in Calls : own[c] \in Locals
          /\ \A c \in Calls : own[c].n \in 0 .. MaxFacts /\ 1 .. own[c].n \subseteq FactIds
          /\ marker.n \in 0 .. MaxFacts /\ 1 .. marker.n \subseteq FactIds
          /\ last \in 0 .. MaxFacts /\ 1 .. last \subseteq FactIds
  BY FactsOf DEF IInv
<1>1. ASSUME NEW c \in Calls, NEW o \in BOOLEAN, Begin(c, o) PROVE IInv'
  <2>1. Quiet /\ pc' = [pc EXCEPT ![c] = "check"]
    BY <1>1 DEF Begin, Goto
  <2>2. CompletedIsBacked' /\ OverwriteKeepsData'
    BY <1>1, Untouched DEF Begin, Next, stores
  <2>3. Progress(c)'
    BY <2>1 DEF Progress, IInv, TypeOK
  <2> QED BY <1>1, <2>1, <2>2, <2>3, Moved DEF Next
<1>2. ASSUME NEW c \in Calls, Check(c) PROVE IInv'
  <2>1. Active(c) /\ UNCHANGED <<marker, facts, last>> /\ Next
    BY <1>2 DEF Check, Active, stores, Next, CallStep
  <2>2. CompletedIsBacked' /\ OverwriteKeepsData'
    BY <2>1, Untouched
  <2>3. CASE Return(c, "skipped")
    BY <2>1, <2>2, <2>3, Ended
  <2>4. CASE Goto(c, "mark")
    <3>1. pc' = [pc EXCEPT ![c] = "mark"]
      BY <2>4 DEF Goto
    <3>2. Progress(c)'
      BY <3>1 DEF Progress, IInv, TypeOK
    <3> QED BY <2>1, <2>2, <3>1, <3>2, Moved
  <2> QED BY <1>2, <2>3, <2>4 DEF Check
<1>3. ASSUME NEW c \in Calls, Mark(c) PROVE IInv'
  <2> DEFINE m == [status |-> "in_progress", by |-> c, n |-> 0]
  <2>1. Active(c) /\ UNCHANGED <<facts, last, intact>> /\ Next /\ Save(m)
        /\ pc' = [pc EXCEPT ![c] = "extract"]
    BY <1>3 DEF Mark, Active, history, Next, CallStep, Goto
  <2>2. m \in Marker
    BY DEF Marker
  <2>3. used'.silent = 0 => marker'.status = "in_progress"
    BY <2>1, <2>2, Saving DEF IInv
  <2>4. CompletedIsBacked'
    BY <2>3 DEF CompletedIsBacked
  <2>5. OverwriteKeepsData'
    BY <2>1 DEF IInv, OverwriteKeepsData
  <2>6. Progress(c)'
    BY <2>1, <2>3 DEF Progress, IInv, TypeOK, Trusted
  <2> QED BY <2>1, <2>4, <2>5, <2>6, Moved
<1>4. ASSUME NEW c \in Calls, Extract(c) PROVE IInv'
  <2>1. Active(c) /\ UNCHANGED <<marker, facts, last>> /\ Next
    BY <1>4 DEF Extract, Active, stores, history, Next, CallStep
  <2>2. CompletedIsBacked' /\ OverwriteKeepsData'
    BY <2>1, Untouched
  <2>3. Trusted' => marker.status # "completed"
    BY <1>4, <1>trust, <2>1 DEF Extract, IInv, Progress
  <2>4. ASSUME NEW n \in 0 .. MaxFacts, NEW k \in 0 .. MaxEvents, NEW llm \in BOOLEAN,
               Goto(c, "graph"),
               own' = [own EXCEPT ![c] = [old |-> @.old, next |-> n + 1, n |-> n,
                                          m |-> k, llm |-> llm, graph |-> FALSE]]
        PROVE  IInv'
    <3>1. pc' = [pc EXCEPT ![c] = "graph"] /\ pc'[c] = "graph"
      BY <2>4 DEF Goto, IInv, TypeOK
    <3>2. own'[c].next = n + 1 /\ own'[c].n = n
      BY <2>4 DEF IInv, TypeOK
    <3>3. Progress(c)'
      BY <2>1, <2>3, <3>1, <3>2 DEF Progress
    <3> QED BY <2>1, <2>2, <3>1, <3>3, Moved
  <2>5. CASE Goto(c, "fail")
    <3>1. pc' = [pc EXCEPT ![c] = "fail"] /\ pc'[c] = "fail"
      BY <2>5 DEF Goto, IInv, TypeOK
    <3>2. Progress(c)'
      BY <2>1, <2>3, <3>1 DEF Progress
    <3> QED BY <2>1, <2>2, <3>1, <3>2, Moved
  <2> QED BY <1>4, <2>4, <2>5 DEF Extract
<1>5. ASSUME NEW c \in Calls, Graph(c) PROVE IInv'
  <2>1. Active(c) /\ UNCHANGED <<marker, facts, last>> /\ Next
    BY <1>5 DEF Graph, Active, history, Next, CallStep
  <2>2. CompletedIsBacked' /\ OverwriteKeepsData'
    BY <2>1, Untouched
  <2>3. own'[c].next > own'[c].n
    BY <1>5, <1>facts DEF Graph, IInv, TypeOK, Progress, Locals
  <2>4. Trusted' => marker.status # "completed"
    BY <1>5, <1>trust, <2>1 DEF Graph, IInv, Progress
  <2>5. PICK w \in {"purge", "write", "fail"} : Goto(c, w)
    BY <1>5 DEF Graph
  <2>6. pc' = [pc EXCEPT ![c] = w] /\ pc'[c] = w
    BY <2>5 DEF Goto, IInv, TypeOK
  <2>7. Progress(c)'
    BY <2>1, <2>3, <2>4, <2>6 DEF Progress
  <2> QED BY <2>1, <2>2, <2>6, <2>7, Moved
<1>6. ASSUME NEW c \in Calls, Purge(c) PROVE IInv'
  <2>1. /\ Active(c) /\ UNCHANGED <<marker, facts, last, own>> /\ Next
        /\ pc' = [pc EXCEPT ![c] = "write"] /\ pc'[c] = "write"
    BY <1>6 DEF Purge, Active, history, Next, CallStep, Goto, IInv, TypeOK
  <2>2. CompletedIsBacked' /\ OverwriteKeepsData'
    BY <2>1, Untouched
  <2>3. Progress(c)'
    BY <1>6, <1>trust, <2>1 DEF Purge, IInv, Progress
  <2> QED BY <2>1, <2>2, <2>3, Moved
<1>7. ASSUME NEW c \in Calls, Write(c) PROVE IInv'
  <2>1. /\ Active(c) /\ UNCHANGED <<marker, last, own, intact>> /\ Next /\ pc[c] = "write"
    BY <1>7 DEF Write, Active, history, Next, CallStep
  <2>2. PICK k \in {0, own[c].n} :
          /\ facts' = Written(facts, c, k)
          /\ \/ k = own[c].n /\ Works /\ Goto(c, "publish")
             \/ Raises /\ Goto(c, "fail")
    BY <1>7 DEF Write
  <2>3. \A i \in FactIds : facts'[i] = IF i <= k THEN [by |-> c, shown |-> FALSE] ELSE facts[i]
    BY <2>2 DEF Written, IInv, TypeOK
  <2>4. Trusted' => marker.status # "completed"
    BY <1>trust, <2>1 DEF IInv, Progress
  <2>5. CompletedIsBacked'
    BY <2>1, <2>4 DEF CompletedIsBacked, Trusted
  <2>6. OverwriteKeepsData'
    <3>1. [by |-> c, shown |-> FALSE] # Absent
      BY DEF Absent
    <3> QED BY <1>facts, <2>1, <2>3, <3>1 DEF IInv, OverwriteKeepsData
  <2>7. CASE k = own[c].n /\ Goto(c, "publish")
    <3>1. pc' = [pc EXCEPT ![c] = "publish"] /\ pc'[c] = "publish"
      BY <2>7 DEF Goto, IInv, TypeOK
    <3>2. \A i \in 1 .. own[c].n : facts'[i].by = c
      BY <1>facts, <2>3, <2>7
    <3>3. Progress(c)'
      BY <2>1, <2>4, <3>1, <3>2 DEF IInv, Progress
    <3> QED BY <2>1, <2>5, <2>6, <3>1, <3>3, Moved
  <2>8. CASE Goto(c, "fail")
    <3>1. pc' = [pc EXCEPT ![c] = "fail"] /\ pc'[c] = "fail"
      BY <2>8 DEF Goto, IInv, TypeOK
    <3>2. Progress(c)'
      BY <2>1, <2>4, <3>1 DEF Progress
    <3> QED BY <2>1, <2>5, <2>6, <3>1, <3>2, Moved
  <2> QED BY <2>2, <2>7, <2>8
<1>8. ASSUME NEW c \in Calls, Publish(c) PROVE IInv'
  <2>1. /\ Active(c) /\ UNCHANGED <<marker, last, own, intact>> /\ Next /\ pc[c] = "publish"
        /\ pc' = [pc EXCEPT ![c] = "publish2"] /\ pc'[c] = "publish2"
    BY <1>8 DEF Publish, Active, history, Next, CallStep, Goto, IInv, TypeOK
  <2>2. CASE facts' = Published(facts, own[c].n)
    <3>1. \A i \in FactIds :
            facts'[i] = IF i <= own[c].n /\ facts[i] # Absent
                        THEN [facts[i] EXCEPT !.shown = TRUE] ELSE facts[i]
      BY <2>2 DEF Published, IInv, TypeOK
    <3>2. \A i \in FactIds : /\ facts'[i].by = facts[i].by
                             /\ facts[i] # Absent => facts'[i] # Absent
      <4>1. ASSUME NEW i \in FactIds
            PROVE  /\ facts'[i].by = facts[i].by
                   /\ facts[i] # Absent => facts'[i] # Absent
        <5>1. facts[i] \in Entry
          BY <1>facts
        <5>2. CASE facts'[i] = facts[i]
          BY <5>2
        <5>3. CASE facts'[i] = [facts[i] EXCEPT !.shown = TRUE]
          <6>1. facts'[i].by = facts[i].by /\ facts'[i].shown = TRUE
            BY <5>1, <5>3 DEF Entry
          <6>2. Absent.shown = FALSE
            BY DEF Absent
          <6> QED BY <6>1, <6>2
        <5> QED BY <3>1, <5>2, <5>3
      <4> QED BY <4>1
    <3>3. OverwriteKeepsData'
      BY <1>facts, <2>1, <3>2 DEF IInv, OverwriteKeepsData
    <3>4. intact => \A i \in 1 .. own[c].n : facts[i].by = c
      BY <2>1 DEF IInv, Progress
    <3>5. intact => \A i \in 1 .. own[c].n : facts'[i].by = c /\ facts'[i].shown
      <4>1. ASSUME intact, NEW i \in 1 .. own[c].n PROVE facts'[i].by = c /\ facts'[i].shown
        <5>1. i \in FactIds /\ i <= own[c].n /\ facts[i].by = c
          BY <1>facts, <3>4, <4>1
        <5>2. facts[i] # Absent /\ facts[i] \in Entry
          BY <1>facts, <5>1
        <5> QED BY <3>1, <5>1, <5>2 DEF Entry
      <4> QED BY <4>1
    <3>6. Trusted' => marker.status # "completed"
      BY <1>trust, <2>1 DEF IInv, Progress
    <3>7. CompletedIsBacked'
      BY <2>1, <3>6 DEF CompletedIsBacked, Trusted
    <3>8. Progress(c)'
      BY <2>1, <3>5, <3>6 DEF IInv, Progress, Trusted
    <3> QED BY <2>1, <3>3, <3>7, <3>8, Moved
  <2>3. CASE UNCHANGED facts /\ FailsSilently
    <3>1. ~Trusted'
      BY <2>3, Spending DEF Trusted, IInv, TypeOK
    <3>2. CompletedIsBacked' /\ OverwriteKeepsData'
      BY <2>1, <2>3, Untouched
    <3>3. Progress(c)'
      BY <2>1, <2>3, <3>1 DEF IInv, Progress
    <3> QED BY <2>1, <3>2, <3>3, Moved
  <2> QED BY <1>8, <2>2, <2>3 DEF Publish
<1>9. ASSUME NEW c \in Calls, Publish2(c) PROVE IInv'
  <2>1. /\ Active(c) /\ UNCHANGED <<marker, facts, own, intact>> /\ Next
        /\ pc[c] = "publish2" /\ last' = own[c].n
        /\ pc' = [pc EXCEPT ![c] = "stale"] /\ pc'[c] = "stale"
    BY <1>9 DEF Publish2, Active, Next, CallStep, Goto, IInv, TypeOK
  <2>2. CompletedIsBacked'
    BY <1>trust, <2>1 DEF IInv, CompletedIsBacked, Trusted
  <2>3. OverwriteKeepsData'
    BY <1>facts, <2>1 DEF IInv, OverwriteKeepsData, Progress
  <2>4. Progress(c)'
    BY <1>trust, <2>1 DEF IInv, Progress
  <2> QED BY <2>1, <2>2, <2>3, <2>4, Moved
<1>10. ASSUME NEW c \in Calls, DeleteStale(c) PROVE IInv'
  <2>1. /\ Active(c) /\ UNCHANGED <<marker, last, intact>> /\ Next /\ pc[c] = "stale"
    BY <1>10 DEF DeleteStale, Active, history, Next, CallStep
  <2>2. own[c].next > own[c].n /\ (intact => last = own[c].n)
    BY <2>1 DEF IInv, Progress
  <2>3. \A i \in FactIds : i < own[c].next => facts'[i] = facts[i]
    <3>1. facts' \in {facts, [facts EXCEPT ![own[c].next] = Absent]}
      BY <1>10 DEF DeleteStale
    <3>2. facts \in [FactIds -> Entry]
      BY DEF IInv, TypeOK
    <3>3. ASSUME NEW i \in FactIds, i < own[c].next PROVE facts'[i] = facts[i]
      <4>1. i # own[c].next
        BY <1>facts, <3>3 DEF FactIds, Locals
      <4> QED BY <3>1, <3>2, <4>1
    <3> QED BY <3>3
  <2>4. \A i \in 1 .. own[c].n : i \in FactIds /\ i < own[c].next
    BY <1>facts, <2>2 DEF Locals
  <2>5. OverwriteKeepsData'
    BY <2>1, <2>2, <2>3, <2>4 DEF IInv, OverwriteKeepsData
  <2>6. Trusted' => marker.status # "completed"
    BY <1>trust, <2>1 DEF IInv, Progress
  <2>7. CompletedIsBacked'
    BY <2>1, <2>6 DEF CompletedIsBacked, Trusted
  <2>8. CASE own' = [own EXCEPT ![c].next = @ + 1] /\ UNCHANGED pc
    <3>1. own'[c].n = own[c].n /\ own'[c].next = own[c].next + 1
      BY <2>8, <1>facts DEF IInv, TypeOK, Locals
    <3>2. own'[c].next > own'[c].n
      BY <1>facts, <2>2, <3>1 DEF Locals
    <3>3. /\ intact => \A i \in 1 .. own[c].n : facts'[i].by = c
          /\ Trusted => \A i \in 1 .. own[c].n : facts'[i].shown
      BY <2>1, <2>3, <2>4 DEF IInv, Progress
    <3>4. Progress(c)'
      BY <1>trust, <2>1, <2>2, <2>6, <2>8, <3>1, <3>2, <3>3 DEF Progress
    <3>5. pc' = [pc EXCEPT ![c] = "stale"]
      BY <2>1, <2>8 DEF IInv, TypeOK
    <3> QED BY <2>1, <2>5, <2>7, <3>4, <3>5, Moved
  <2>9. CASE Goto(c, "fail") /\ UNCHANGED own
    <3>1. pc' = [pc EXCEPT ![c] = "fail"] /\ pc'[c] = "fail"
      BY <2>9 DEF Goto, IInv, TypeOK
    <3>2. Progress(c)'
      BY <2>1, <2>6, <3>1 DEF Progress
    <3> QED BY <2>1, <2>5, <2>7, <3>1, <3>2, Moved
  <2> QED BY <1>10, <2>8, <2>9 DEF DeleteStale
<1>11. ASSUME NEW c \in Calls, Finish(c) PROVE IInv'
  <2> DEFINE m == [status |-> IF own[c].llm THEN "completed" ELSE "completed_no_llm",
                   by |-> c, n |-> own[c].n]
  <2>1. /\ Active(c) /\ UNCHANGED <<facts, last, intact>> /\ Next /\ pc[c] = "stale"
        /\ Save(m) /\ Return(c, "ok")
    BY <1>11 DEF Finish, Active, Next, CallStep
  <2>2. m \in Marker
    BY <1>facts DEF Marker
  <2>3. used'.silent = 0 => marker' = m
    BY <2>1, <2>2, Saving DEF IInv
  <2>4. Trusted => \A i \in 1 .. own[c].n : facts[i] = [by |-> c, shown |-> TRUE]
    <3>1. Trusted => \A i \in 1 .. own[c].n :
            facts[i] \in Entry /\ facts[i].by = c /\ facts[i].shown
      BY <1>facts, <2>1 DEF IInv, Progress, Trusted
    <3> QED BY <3>1 DEF Entry
  <2>5. CompletedIsBacked'
    <3>1. SUFFICES ASSUME intact', used'.silent = 0, marker'.status = "completed",
                          NEW i \in 1 .. marker'.n
                   PROVE  facts'[i] = [by |-> marker'.by, shown |-> TRUE]
      BY DEF CompletedIsBacked
    <3>2. marker'.by = c /\ marker'.n = own[c].n
      BY <2>3, <3>1
    <3>3. Trusted
      BY <1>trust, <2>1, <3>1 DEF Trusted
    <3> QED BY <2>1, <2>4, <3>1, <3>2, <3>3
  <2>6. OverwriteKeepsData'
    BY <2>1 DEF IInv, OverwriteKeepsData
  <2> QED BY <2>1, <2>5, <2>6, Ended
<1>12. ASSUME NEW c \in Calls, Fail(c) PROVE IInv'
  <2> DEFINE m == [status |-> "failed", by |-> c, n |-> 0]
  <2>1. /\ Active(c) /\ UNCHANGED <<facts, last, intact>> /\ Next
        /\ Save(m) /\ Return(c, "failed")
    BY <1>12 DEF Fail, Active, Next, CallStep
  <2>2. m \in Marker
    BY DEF Marker
  <2>3. used'.silent = 0 => marker' = m
    BY <2>1, <2>2, Saving DEF IInv
  <2>4. CompletedIsBacked'
    BY <2>3 DEF CompletedIsBacked
  <2>5. OverwriteKeepsData'
    BY <2>1 DEF IInv, OverwriteKeepsData
  <2> QED BY <2>1, <2>4, <2>5, Ended
<1>13. ASSUME NEW c \in Calls, Cut(c) PROVE IInv'
  <2>1. /\ Active(c) /\ Return(c, "cut") /\ UNCHANGED <<marker, facts, last>> /\ Next
    BY <1>13 DEF Cut, stores, Next
  <2> QED BY <2>1, Untouched, Ended
<1>14. CASE Restart
  <2>1. CompletedIsBacked' /\ OverwriteKeepsData'
    BY <1>14, Untouched DEF Restart, Next
  <2>2. \A c \in Calls : pc'[c] \in {"new", "ended"}
    BY <1>14 DEF Restart, Active
  <2>3. Alone' /\ \A c \in Calls : Progress(c)'
    BY <2>2 DEF Alone, Active, Progress
  <2> QED BY <2>1, <2>3, TypeStep DEF IInv
<1>15. CASE ClearVectors
  <2>1. UNCHANGED <<pc, own>> /\ intact' = (intact /\ Quiet) /\ Next
    BY <1>15 DEF ClearVectors, locals, Next
  <2>2. Alone'
    BY <2>1 DEF IInv, Alone, Active
  <2>3. \A c \in Calls : Progress(c)'
    BY <2>1 DEF IInv, Progress, Trusted, Quiet, Active
  <2>4. CASE UNCHANGED <<marker, facts, last>>
    BY <2>1, <2>2, <2>3, <2>4, Untouched, TypeStep DEF IInv
  <2>5. CASE marker' = NoMarker /\ last' = 0
    BY <2>1, <2>2, <2>3, <2>5, TypeStep
    DEF IInv, CompletedIsBacked, OverwriteKeepsData, NoMarker
  <2> QED BY <1>15, <2>4, <2>5 DEF ClearVectors
<1>16. CASE ClearGraph
  <2>1. UNCHANGED <<marker, facts, last, pc, own, intact, used>> /\ Next
    BY <1>16 DEF ClearGraph, locals, history, Next
  <2>2. Alone' /\ \A c \in Calls : Progress(c)'
    BY <2>1 DEF IInv, Alone, Active, Progress, Trusted
  <2> QED BY <2>1, <2>2, Untouched, TypeStep DEF IInv
<1>17. CASE UNCHANGED vars
  BY <1>17, TypeStep DEF IInv, Alone, Active, Progress, Trusted, CompletedIsBacked,
     OverwriteKeepsData, vars, stores, locals, history
<1> QED
  BY <1>1, <1>2, <1>3, <1>4, <1>5, <1>6, <1>7, <1>8, <1>9, <1>10, <1>11, <1>12,
     <1>13, <1>14, <1>15, <1>16, <1>17 DEF Next, CallStep

LEMMA InvInit ==
  ASSUME SessionInit, SessionAssumption
  PROVE  IInv
<1> USE DEF SessionInit
<1>1. MaxFacts \in Nat /\ MaxEvents \in Nat
  BY DEF SessionAssumption
<1>2. NoMarker \in Marker /\ NoLocals \in Locals /\ Absent \in Entry
  BY <1>1 DEF NoMarker, Marker, NoLocals, Locals, Absent, Entry
<1>3. answer \in Answers /\ used \in Bounds
  BY DEF NoAnswer, Answers, Bounds, SessionAssumption
<1>4. TypeOK
  <2>1. facts \in [FactIds -> Entry] /\ events \in [EventIds -> Entry]
    BY <1>2
  <2>2. pc \in [Calls -> {"new"}] /\ over \in [Calls -> BOOLEAN]
        /\ own \in [Calls -> Locals]
    BY <1>2
  <2>3. last \in 0 .. MaxFacts /\ stored \subseteq Calls
    BY <1>1
  <2> QED BY <1>2, <1>3, <2>1, <2>2, <2>3 DEF TypeOK
<1>5. Alone /\ \A c \in Calls : Progress(c)
  BY DEF Alone, Active, Progress
<1>6. CompletedIsBacked
  BY DEF CompletedIsBacked, NoMarker
<1>7. OverwriteKeepsData
  BY DEF OverwriteKeepsData
<1> QED BY <1>4, <1>5, <1>6, <1>7 DEF IInv

\* A session that its marker calls completed has its facts, for every extraction
\* and whatever is cancelled, raised or restarted, when one call of a session
\* runs at a time and no store swallows a failure: what a skipped call relies on.
THEOREM CompletedBacked == Exclusive => (Spec => []CompletedIsBacked)
<1> SUFFICES ASSUME Exclusive PROVE Spec => []CompletedIsBacked
  OBVIOUS
<1>1. SessionInit => IInv
  BY InvInit, SessionAssumption
<1>2. IInv /\ [Next]_vars => IInv'
  BY InvStep, SessionAssumption
<1>3. IInv => CompletedIsBacked
  BY DEF IInv
<1> QED BY <1>1, <1>2, <1>3, PTL DEF Spec

\* No run of session_write, failed or not, leaves a session with less than its
\* latest fully written version, whatever is swallowed too.
THEOREM OverwriteKeeps == Exclusive => (Spec => []OverwriteKeepsData)
<1> SUFFICES ASSUME Exclusive PROVE Spec => []OverwriteKeepsData
  OBVIOUS
<1>1. SessionInit => IInv
  BY InvInit, SessionAssumption
<1>2. IInv /\ [Next]_vars => IInv'
  BY InvStep, SessionAssumption
<1>3. IInv => OverwriteKeepsData
  BY DEF IInv
<1> QED BY <1>1, <1>2, <1>3, PTL DEF Spec

\* Type correctness, with no assumption on the callers.
THEOREM SessionTypes == Spec => []TypeOK
<1>1. SessionInit => TypeOK
  BY InvInit, SessionAssumption DEF IInv
<1>2. TypeOK /\ [Next]_vars => TypeOK'
  BY TypeStep, SessionAssumption
<1> QED BY <1>1, <1>2, PTL DEF Spec

-----------------------------------------------------------------------------
(* A session is there once, and as its marker says.                        *)

\* A call that has not decided yet to write.
Idle(c) == pc[c] \in {"new", "check", "ended"}

Writing == {"graph", "purge", "write", "publish", "publish2", "stale"}

\* No fact is outside those the call lists as old and those it writes.
Placed(c) ==
  /\ pc[c] \in {"mark", "extract"} =>
       \A i \in FactIds : facts[i] # Absent => i <= own[c].old
  /\ pc[c] \in Writing =>
       \A i \in FactIds : facts[i] # Absent =>
         i <= own[c].n \/ (own[c].next <= i /\ i <= own[c].old)

\* Between writes the marker lists every fact.
Listed ==
  \/ marker.status = "completed" /\ \A i \in FactIds : facts[i] # Absent => i <= marker.n
  \/ marker.status = "absent" /\ \A i \in FactIds : facts[i] = Absent

CleanFacts ==
  clean /\ Trusted =>
    /\ \A c \in Calls : Placed(c)
    /\ (\A c \in Calls : Idle(c)) => Listed

\* A session that was stored is completed, and nobody is writing it.
Once ==
  Trusted => \/ stored = {}
             \/ /\ marker.status = "completed"
                /\ \E c \in Calls : stored = {c}
                /\ \A c \in Calls : Idle(c)

\* The other calls of a session rest while one runs.
LEMMA OthersRest ==
  ASSUME IInv, NEW c \in Calls, Active(c) \/ Quiet, NEW where,
         pc' = [pc EXCEPT ![c] = where]
  PROVE  /\ pc'[c] = where
         /\ \A d \in Calls : d # c => pc[d] \in {"new", "ended"} /\ pc'[d] = pc[d]
  BY DEF IInv, Alone, TypeOK, Active, Quiet

\* What is left to show of a step of one call.
LEMMA CleanMoved ==
  ASSUME IInv, NEW c \in Calls, Active(c) \/ Quiet, NEW where,
         pc' = [pc EXCEPT ![c] = where],
         clean' /\ Trusted' =>
           /\ where \notin {"new", "check", "ended"} => Placed(c)'
           /\ where \in {"new", "check", "ended"} => Listed'
  PROVE  CleanFacts'
<1>1. /\ pc'[c] = where
      /\ \A d \in Calls : d # c => pc'[d] \in {"new", "ended"}
  BY OthersRest
<1>2. \A d \in Calls : d # c => Placed(d)'
  BY <1>1 DEF Placed, Writing
<1>3. where \in {"new", "check", "ended"} => Placed(c)'
  BY <1>1 DEF Placed, Writing
<1>4. (\A d \in Calls : Idle(d))' => where \in {"new", "check", "ended"}
  BY <1>1 DEF Idle
<1> QED BY <1>2, <1>3, <1>4 DEF CleanFacts

\* A step of a call that changes neither the facts nor what it knows of them.
LEMMA PlacedStays ==
  ASSUME NEW c \in Calls, Placed(c), UNCHANGED facts,
         own'[c].old = own[c].old, own'[c].n = own[c].n, own'[c].next = own[c].next,
         \/ pc[c] \in {"mark", "extract"} /\ pc'[c] \in {"mark", "extract"}
         \/ pc[c] \in Writing /\ pc'[c] \in Writing
         \/ pc'[c] = "fail"
  PROVE  Placed(c)'
  BY DEF Placed, Writing

LEMMA CleanStep ==
  ASSUME IInv, CleanFacts, SessionAssumption, Exclusive, [Next]_vars
  PROVE  CleanFacts'
<1> USE SessionAssumption
<1>trust. Next => (intact' => intact) /\ (Trusted' => Trusted)
  BY TrustLasts DEF IInv
<1>types. /\ facts \in [FactIds -> Entry] /\ own \in [Calls -> Locals] /\ marker \in Marker
          /\ pc \in [Calls -> {"new", "check", "mark", "extract", "graph", "purge", "write",
                               "publish", "publish2", "stale", "fail", "ended"}]
          /\ MaxFacts \in Nat
  BY DEF IInv, TypeOK
<1>own. \A c \in Calls : /\ own[c].old \in Nat /\ own[c].n \in Nat /\ own[c].next \in Nat
  BY <1>types DEF Locals
<1>idle. ASSUME NEW c \in Calls, Idle(c), clean, Trusted, Active(c) \/ Quiet PROVE Listed
  <2>1. \A d \in Calls : Idle(d)
    BY <1>idle DEF IInv, Alone, Active, Quiet, Idle
  <2> QED BY <1>idle, <2>1 DEF CleanFacts
<1>1. ASSUME NEW c \in Calls, NEW o \in BOOLEAN, Begin(c, o) PROVE CleanFacts'
  <2>1. /\ Quiet /\ pc' = [pc EXCEPT ![c] = "check"] /\ Idle(c)
        /\ UNCHANGED <<marker, facts, clean>> /\ Next
    BY <1>1 DEF Begin, Goto, stores, Idle, Next
  <2>2. clean' /\ Trusted' => Listed'
    BY <1>trust, <1>idle, <2>1 DEF Listed
  <2> QED BY <2>1, <2>2, CleanMoved
<1>2. ASSUME NEW c \in Calls, Check(c) PROVE CleanFacts'
  <2>1. /\ Active(c) /\ Idle(c) /\ UNCHANGED <<marker, cached, facts, clean>> /\ Next
    BY <1>2 DEF Check, Active, Idle, stores, Next, CallStep
  <2>2. PICK found \in {marker, cached} :
        /\ Lookup(found)
        /\ \/ /\ Blocks(found) /\ ~over[c]
              /\ Return(c, "skipped")
           \/ /\ ~Blocks(found) \/ over[c]
              /\ Goto(c, "mark")
              /\ own' = [own EXCEPT ![c].old =
                           IF found.status = "completed" THEN found.n ELSE 0]
    BY <1>2 DEF Check
  <2>3. clean' /\ Trusted' => Listed
    BY <1>trust, <1>idle, <2>1
  <2>4. CASE Return(c, "skipped")
    <3>1. pc' = [pc EXCEPT ![c] = "ended"]
      BY <2>4 DEF Return
    <3> QED BY <2>1, <2>3, <3>1, CleanMoved DEF Listed
  <2>5. CASE /\ Goto(c, "mark")
             /\ own' = [own EXCEPT ![c].old =
                          IF found.status = "completed" THEN found.n ELSE 0]
    <3>1. pc' = [pc EXCEPT ![c] = "mark"] /\ pc'[c] = "mark"
      BY <2>5, <1>types DEF Goto
    <3>2. own'[c].old = IF found.status = "completed" THEN found.n ELSE 0
      BY <2>5, <1>types DEF Locals
    <3>3. Trusted' => found = IF marker.status = "absent" THEN cached ELSE marker
      BY <2>2, Spending DEF Lookup, IInv, TypeOK, Trusted
    <3>4. clean' /\ Trusted' => \A i \in FactIds : facts[i] # Absent => i <= own'[c].old
      BY <2>3, <3>2, <3>3 DEF Listed
    <3>5. clean' /\ Trusted' => Placed(c)'
      BY <2>1, <3>1, <3>4 DEF Placed, Writing
    <3> QED BY <2>1, <3>1, <3>5, CleanMoved
  <2> QED BY <2>2, <2>4, <2>5
<1>3. ASSUME NEW c \in Calls, Mark(c) PROVE CleanFacts'
  <2>1. /\ Active(c) /\ UNCHANGED <<facts, own, clean>> /\ Next
        /\ pc[c] = "mark" /\ pc' = [pc EXCEPT ![c] = "extract"] /\ pc'[c] = "extract"
    BY <1>3, <1>types DEF Mark, Active, history, Next, CallStep, Goto
  <2>2. clean' /\ Trusted' => Placed(c)
    BY <1>trust, <2>1 DEF CleanFacts
  <2>3. clean' /\ Trusted' => Placed(c)'
    BY <2>1, <2>2, PlacedStays
  <2> QED BY <2>1, <2>3, CleanMoved
<1>4. ASSUME NEW c \in Calls, Extract(c) PROVE CleanFacts'
  <2>1. Active(c) /\ UNCHANGED <<facts, clean>> /\ Next /\ pc[c] = "extract"
    BY <1>4 DEF Extract, Active, stores, history, Next, CallStep
  <2>2. clean' /\ Trusted' => \A i \in FactIds : facts[i] # Absent => i <= own[c].old
    BY <1>trust, <2>1 DEF CleanFacts, Placed
  <2>3. ASSUME NEW n \in 0 .. MaxFacts, NEW k \in 0 .. MaxEvents, NEW llm \in BOOLEAN,
               Goto(c, "graph"),
               own' = [own EXCEPT ![c] = [old |-> @.old, next |-> n + 1, n |-> n,
                                          m |-> k, llm |-> llm, graph |-> FALSE]]
        PROVE  CleanFacts'
    <3>1. pc' = [pc EXCEPT ![c] = "graph"] /\ pc'[c] = "graph"
      BY <2>3, <1>types DEF Goto
    <3>2. own'[c].next = n + 1 /\ own'[c].n = n /\ own'[c].old = own[c].old
      BY <2>3, <1>types
    <3>3. \A i \in FactIds : i <= own[c].old => i <= n \/ (n + 1 <= i /\ i <= own[c].old)
      BY <1>own DEF FactIds
    <3>4. clean' /\ Trusted' =>
            \A i \in FactIds : facts'[i] # Absent =>
              i <= own'[c].n \/ (own'[c].next <= i /\ i <= own'[c].old)
      BY <2>1, <2>2, <3>2, <3>3
    <3>5. clean' /\ Trusted' => Placed(c)'
      BY <3>1, <3>4 DEF Placed, Writing
    <3> QED BY <2>1, <3>1, <3>5, CleanMoved
  <2>4. CASE Goto(c, "fail")
    <3>1. pc' = [pc EXCEPT ![c] = "fail"] /\ pc'[c] = "fail"
      BY <2>4, <1>types DEF Goto
    <3>2. Placed(c)'
      BY <3>1 DEF Placed, Writing
    <3> QED BY <2>1, <3>1, <3>2, CleanMoved
  <2> QED BY <1>4, <2>3, <2>4 DEF Extract
<1>5. ASSUME NEW c \in Calls, Graph(c) PROVE CleanFacts'
  <2>1. Active(c) /\ UNCHANGED <<facts, clean>> /\ Next /\ pc[c] = "graph"
    BY <1>5 DEF Graph, Active, history, Next, CallStep
  <2>2. PICK w \in {"purge", "write", "fail"} : Goto(c, w)
    BY <1>5 DEF Graph
  <2>3. pc' = [pc EXCEPT ![c] = w] /\ pc'[c] = w
    BY <2>2, <1>types DEF Goto
  <2>4. own'[c].old = own[c].old /\ own'[c].n = own[c].n /\ own'[c].next = own[c].next
    BY <1>5, <1>types DEF Graph, Locals
  <2>5. clean' /\ Trusted' => Placed(c)
    BY <1>trust, <2>1 DEF CleanFacts
  <2>6. clean' /\ Trusted' => Placed(c)'
    BY <2>1, <2>3, <2>4, <2>5, PlacedStays DEF Writing
  <2> QED BY <2>1, <2>3, <2>6, CleanMoved
<1>6. ASSUME NEW c \in Calls, Purge(c) \/ Publish2(c) PROVE CleanFacts'
  <2>1. Active(c) /\ UNCHANGED <<facts, own, clean>> /\ Next /\ pc[c] \in Writing
    BY <1>6 DEF Purge, Publish2, Active, history, Next, CallStep, Writing
  <2>2. PICK w \in {"write", "stale"} : Goto(c, w)
    BY <1>6 DEF Purge, Publish2
  <2>3. pc' = [pc EXCEPT ![c] = w] /\ pc'[c] = w
    BY <2>2, <1>types DEF Goto
  <2>4. clean' /\ Trusted' => Placed(c)
    BY <1>trust, <2>1 DEF CleanFacts
  <2>5. clean' /\ Trusted' => Placed(c)'
    BY <2>1, <2>3, <2>4, PlacedStays DEF Writing
  <2> QED BY <2>1, <2>3, <2>5, CleanMoved
<1>7. ASSUME NEW c \in Calls, Write(c) PROVE CleanFacts'
  <2>1. Active(c) /\ UNCHANGED <<own, clean>> /\ Next /\ pc[c] = "write"
    BY <1>7 DEF Write, Active, history, Next, CallStep
  <2>2. PICK k \in {0, own[c].n} :
          /\ facts' = Written(facts, c, k)
          /\ \/ k = own[c].n /\ Works /\ Goto(c, "publish")
             \/ Raises /\ Goto(c, "fail")
    BY <1>7 DEF Write
  <2>3. \A i \in FactIds : i > k => facts'[i] = facts[i]
    BY <2>2, <1>types, <1>own DEF Written, FactIds
  <2>4. clean' /\ Trusted' =>
          \A i \in FactIds : facts[i] # Absent =>
            i <= own[c].n \/ (own[c].next <= i /\ i <= own[c].old)
    BY <1>trust, <2>1 DEF CleanFacts, Placed, Writing
  <2>5. CASE k = own[c].n /\ Goto(c, "publish")
    <3>1. pc' = [pc EXCEPT ![c] = "publish"] /\ pc'[c] = "publish"
      BY <2>5, <1>types DEF Goto
    <3>2. \A i \in FactIds : i <= own[c].n \/ facts'[i] = facts[i]
      BY <2>3, <2>5, <1>own DEF FactIds
    <3>3. clean' /\ Trusted' => Placed(c)'
      BY <2>1, <2>4, <3>1, <3>2 DEF Placed, Writing
    <3> QED BY <2>1, <3>1, <3>3, CleanMoved
  <2>6. CASE Goto(c, "fail")
    <3>1. pc' = [pc EXCEPT ![c] = "fail"] /\ pc'[c] = "fail"
      BY <2>6, <1>types DEF Goto
    <3>2. Placed(c)'
      BY <3>1 DEF Placed, Writing
    <3> QED BY <2>1, <3>1, <3>2, CleanMoved
  <2> QED BY <2>2, <2>5, <2>6
<1>8. ASSUME NEW c \in Calls, Publish(c) PROVE CleanFacts'
  <2>1. /\ Active(c) /\ UNCHANGED <<own, clean>> /\ Next /\ pc[c] = "publish"
        /\ pc' = [pc EXCEPT ![c] = "publish2"] /\ pc'[c] = "publish2"
    BY <1>8, <1>types DEF Publish, Active, history, Next, CallStep, Goto
  <2>2. \A i \in FactIds : facts[i] = Absent => facts'[i] = Absent
    BY <1>8, <1>types DEF Publish, Published
  <2>3. clean' /\ Trusted' => Placed(c)
    BY <1>trust, <2>1 DEF CleanFacts
  <2>4. clean' /\ Trusted' => Placed(c)'
    BY <2>1, <2>2, <2>3 DEF Placed, Writing
  <2> QED BY <2>1, <2>4, CleanMoved
<1>9. ASSUME NEW c \in Calls, DeleteStale(c) PROVE CleanFacts'
  <2>1. Active(c) /\ UNCHANGED clean /\ Next /\ pc[c] = "stale"
    BY <1>9 DEF DeleteStale, Active, history, Next, CallStep
  <2>2. CASE /\ facts' = [facts EXCEPT ![own[c].next] = Absent] /\ Works
             /\ own' = [own EXCEPT ![c].next = @ + 1]
             /\ UNCHANGED pc
    <3>1. pc' = [pc EXCEPT ![c] = "stale"] /\ pc'[c] = "stale"
      BY <2>1, <2>2, <1>types
    <3>2. own'[c].n = own[c].n /\ own'[c].old = own[c].old /\ own'[c].next = own[c].next + 1
      BY <2>2, <1>types DEF Locals
    <3>3. \A i \in FactIds : facts'[i] # Absent => facts[i] # Absent /\ i # own[c].next
      BY <2>2, <1>types
    <3>4. clean' /\ Trusted' =>
            \A i \in FactIds : facts[i] # Absent =>
              i <= own[c].n \/ (own[c].next <= i /\ i <= own[c].old)
      BY <1>trust, <2>1 DEF CleanFacts, Placed, Writing
    <3>5. \A i \in FactIds : own[c].next <= i /\ i # own[c].next => own[c].next + 1 <= i
      BY <1>own DEF FactIds
    <3>6. clean' /\ Trusted' => Placed(c)'
      BY <3>1, <3>2, <3>3, <3>4, <3>5 DEF Placed, Writing
    <3> QED BY <2>1, <3>1, <3>6, CleanMoved
  <2>3. CASE Goto(c, "fail")
    <3>1. pc' = [pc EXCEPT ![c] = "fail"] /\ pc'[c] = "fail"
      BY <2>3, <1>types DEF Goto
    <3>2. Placed(c)'
      BY <3>1 DEF Placed, Writing
    <3> QED BY <2>1, <3>1, <3>2, CleanMoved
  <2>4. CASE FailsSilently /\ own' = [own EXCEPT ![c].next = @ + 1] /\ UNCHANGED pc
    <3>1. pc' = [pc EXCEPT ![c] = "stale"]
      BY <2>1, <2>4, <1>types
    <3>2. ~Trusted'
      BY <2>4, Spending DEF Trusted, IInv, TypeOK, Bounds
    <3>3. clean' /\ Trusted' => Placed(c)'
      BY <3>2
    <3> QED BY <2>1, <3>1, <3>3, CleanMoved
  <2> QED BY <1>9, <2>2, <2>3, <2>4 DEF DeleteStale
<1>10. ASSUME NEW c \in Calls, Finish(c) PROVE CleanFacts'
  <2> DEFINE m == [status |-> IF own[c].llm THEN "completed" ELSE "completed_no_llm",
                   by |-> c, n |-> own[c].n]
  <2>1. /\ Active(c) /\ UNCHANGED facts /\ Next /\ pc[c] = "stale"
        /\ own[c].next > own[c].old /\ clean' = (clean /\ own[c].llm)
        /\ Save(m) /\ pc' = [pc EXCEPT ![c] = "ended"]
    BY <1>10 DEF Finish, Active, Next, CallStep, Return
  <2>2. m \in Marker
    BY <1>types DEF Marker, Locals
  <2>3. used'.silent = 0 => marker' = m
    BY <2>1, <2>2, Saving DEF IInv
  <2>4. clean' /\ Trusted' =>
          \A i \in FactIds : facts[i] # Absent =>
            i <= own[c].n \/ (own[c].next <= i /\ i <= own[c].old)
    BY <1>trust, <2>1 DEF CleanFacts, Placed, Writing
  <2>5. \A i \in FactIds : ~ (own[c].next <= i /\ i <= own[c].old)
    BY <1>own, <2>1 DEF FactIds
  <2>6. clean' /\ Trusted' => Listed'
    <3>1. SUFFICES ASSUME clean', Trusted' PROVE Listed'
      OBVIOUS
    <3>2. marker' = m /\ own[c].llm
      BY <2>1, <2>3, <3>1 DEF Trusted
    <3>3. marker'.status = "completed" /\ marker'.n = own[c].n
      BY <3>2
    <3>4. \A i \in FactIds : facts'[i] # Absent => i <= own[c].n
      BY <2>1, <2>4, <2>5, <3>1
    <3> QED BY <3>3, <3>4 DEF Listed
  <2> QED BY <2>1, <2>6, CleanMoved
<1>11. ASSUME NEW c \in Calls, Fail(c) \/ Cut(c) PROVE CleanFacts'
  BY <1>11 DEF Fail, Cut, CleanFacts
<1>12. CASE Restart
  <2>1. UNCHANGED <<marker, facts>> /\ clean' = (clean /\ Quiet) /\ Next
    BY <1>12 DEF Restart, Next
  <2>2. \A c \in Calls : pc'[c] \in {"new", "ended"}
    BY <1>12 DEF Restart, Active
  <2>3. \A c \in Calls : Placed(c)'
    BY <2>2 DEF Placed, Writing
  <2>4. Quiet => \A c \in Calls : Idle(c)
    BY DEF Quiet, Active, Idle
  <2>5. clean' /\ Trusted' => Listed'
    BY <1>trust, <2>1, <2>4 DEF CleanFacts, Listed
  <2> QED BY <2>3, <2>5 DEF CleanFacts
<1>13. CASE ClearVectors
  <2>1. UNCHANGED <<pc, own>> /\ Next
    BY <1>13 DEF ClearVectors, locals, Next
  <2>2. CASE UNCHANGED <<marker, facts, clean>>
    BY <1>trust, <2>1, <2>2 DEF CleanFacts, Placed, Idle, Listed
  <2>3. CASE marker' = NoMarker /\ facts' = [i \in FactIds |-> Absent]
    <3>1. marker'.status = "absent" /\ \A i \in FactIds : facts'[i] = Absent
      BY <2>3 DEF NoMarker
    <3> QED BY <3>1 DEF CleanFacts, Placed, Listed
  <2> QED BY <1>13, <2>2, <2>3 DEF ClearVectors
<1>14. CASE ClearGraph
  <2>1. UNCHANGED <<marker, facts, clean, pc, own>> /\ Next
    BY <1>14 DEF ClearGraph, locals, history, Next
  <2> QED BY <1>trust, <2>1 DEF CleanFacts, Placed, Idle, Listed
<1>15. CASE UNCHANGED vars
  BY <1>15 DEF CleanFacts, Placed, Idle, Listed, Trusted, vars, stores, locals, history
<1> QED
  BY <1>1, <1>2, <1>3, <1>4, <1>5, <1>6, <1>7, <1>8, <1>9, <1>10, <1>11, <1>12,
     <1>13, <1>14, <1>15 DEF Next, CallStep

LEMMA OnceStep ==
  ASSUME IInv, Once, SessionAssumption, Exclusive, [Next]_vars
  PROVE  Once'
<1> USE SessionAssumption
<1>trust. Next => (intact' => intact) /\ (Trusted' => Trusted)
  BY TrustLasts DEF IInv
<1>types. pc \in [Calls -> {"new", "check", "mark", "extract", "graph", "purge", "write",
                            "publish", "publish2", "stale", "fail", "ended"}]
  BY DEF IInv, TypeOK
\* A step that leaves the marker alone and starts no write.
<1>stays. ASSUME Next, UNCHANGED <<marker, stored>>,
                 \A c \in Calls : pc'[c] = pc[c] \/ pc'[c] \in {"check", "ended"}
          PROVE  Once'
  BY <1>trust, <1>stays DEF Once, Idle
\* A step of a call that writes: there is nothing stored.
<1>none. ASSUME Next, NEW c \in Calls, ~Idle(c), UNCHANGED stored PROVE Once'
  BY <1>trust, <1>none DEF Once
<1>1. ASSUME NEW c \in Calls, NEW o \in BOOLEAN, Begin(c, o) PROVE Once'
  <2>1. UNCHANGED <<marker, stored>> /\ Next /\ pc' = [pc EXCEPT ![c] = "check"]
    BY <1>1 DEF Begin, Goto, stores, Next
  <2> QED BY <1>stays, <1>types, <2>1
<1>2. ASSUME NEW c \in Calls, Check(c) PROVE Once'
  <2>1. Active(c) /\ UNCHANGED <<marker, cached>> /\ Next
    BY <1>2 DEF Check, Active, stores, Next, CallStep
  <2>2. PICK found \in {marker, cached} :
        /\ Lookup(found)
        /\ \/ Return(c, "skipped") /\ UNCHANGED stored
           \/ /\ ~Blocks(found) \/ over[c]
              /\ stored' = IF over[c] THEN {} ELSE stored
    BY <1>2 DEF Check
  <2>3. CASE Return(c, "skipped") /\ UNCHANGED stored
    <3>1. pc' = [pc EXCEPT ![c] = "ended"]
      BY <2>3 DEF Return
    <3> QED BY <1>stays, <1>types, <2>1, <2>3, <3>1
  <2>4. CASE over[c] /\ stored' = {}
    BY <2>4 DEF Once
  <2>5. CASE ~over[c] /\ ~Blocks(found) /\ stored' = stored
    <3>1. Trusted' => found = IF marker.status = "absent" THEN cached ELSE marker
      BY <2>2, Spending DEF Lookup, IInv, TypeOK, Trusted
    <3>2. Trusted' => marker.status # "completed"
      BY <2>5, <3>1 DEF Blocks
    <3> QED BY <1>trust, <2>1, <2>5, <3>2 DEF Once
  <2> QED BY <2>2, <2>3, <2>4, <2>5
<1>3. ASSUME NEW c \in Calls, \/ Mark(c) \/ Extract(c) \/ Graph(c) \/ Purge(c) \/ Write(c)
                              \/ Publish(c) \/ Publish2(c) \/ DeleteStale(c) \/ Fail(c)
      PROVE  Once'
  <2>1. ~Idle(c)
    BY <1>3 DEF Idle, Mark, Extract, Graph, Purge, Write, Publish, Publish2, DeleteStale, Fail
  <2>2. UNCHANGED stored
    BY <1>3 DEF Mark, Extract, Graph, Purge, Write, Publish, Publish2, DeleteStale, Fail, history
  <2>3. Next
    BY <1>3 DEF Next, CallStep
  <2> QED BY <1>none, <2>1, <2>2, <2>3
<1>4. ASSUME NEW c \in Calls, Finish(c) PROVE Once'
  <2> DEFINE m == [status |-> IF own[c].llm THEN "completed" ELSE "completed_no_llm",
                   by |-> c, n |-> own[c].n]
  <2>1. /\ Active(c) /\ Next /\ ~Idle(c) /\ Save(m) /\ pc' = [pc EXCEPT ![c] = "ended"]
        /\ stored' = IF over[c] \/ ~own[c].llm THEN stored ELSE stored \cup {c}
    BY <1>4 DEF Finish, Active, Next, CallStep, Return, Idle
  <2>2. CASE UNCHANGED stored
    BY <1>none, <2>1, <2>2
  <2>3. CASE own[c].llm /\ stored' = stored \cup {c}
    <3>1. m \in Marker
      BY DEF Marker, IInv, TypeOK, Locals
    <3>2. Trusted' => marker'.status = "completed"
      BY <2>1, <2>3, <3>1, Saving DEF IInv, Trusted
    <3>3. Trusted' => stored' = {c}
      BY <1>trust, <2>1, <2>3 DEF Once
    <3>4. \A d \in Calls : Idle(d)'
      BY <2>1, OthersRest DEF Idle
    <3> QED BY <3>2, <3>3, <3>4 DEF Once
  <2> QED BY <2>1, <2>2, <2>3
<1>5. ASSUME NEW c \in Calls, Cut(c) PROVE Once'
  <2>1. UNCHANGED <<marker, stored>> /\ Next /\ pc' = [pc EXCEPT ![c] = "ended"]
    BY <1>5 DEF Cut, Return, stores, Next
  <2> QED BY <1>stays, <1>types, <2>1
<1>6. CASE Restart
  BY <1>6, <1>stays DEF Restart, Next
<1>7. CASE ClearVectors
  <2>1. UNCHANGED pc /\ Next
    BY <1>7 DEF ClearVectors, locals, Next
  <2>2. CASE UNCHANGED <<marker, stored>>
    BY <1>stays, <2>1, <2>2
  <2> QED BY <1>7, <2>2 DEF ClearVectors, Once
<1>8. CASE ClearGraph
  BY <1>8, <1>stays DEF ClearGraph, locals, history, Next
<1>9. CASE UNCHANGED vars
  BY <1>9 DEF Once, Idle, Trusted, vars, stores, locals, history
<1> QED
  BY <1>1, <1>2, <1>3, <1>4, <1>5, <1>6, <1>7, <1>8, <1>9 DEF Next, CallStep

\* When the callers run one call of a session at a time and no store swallows a
\* failure, a session is stored once until it is overwritten or cleared, and after
\* calls that all ended well it holds the facts its marker lists and no other: an
\* overwrite leaves no stale fact behind, for every extraction and every number of
\* calls, restarts and clears.
THEOREM SessionStaysCurrent == Exclusive => (Spec => []SessionIsCurrent)
<1> SUFFICES ASSUME Exclusive PROVE Spec => []SessionIsCurrent
  OBVIOUS
<1> DEFINE CurrentInv == IInv /\ CleanFacts /\ Once
<1>1. SessionInit => CurrentInv
  <2> SUFFICES ASSUME SessionInit PROVE CurrentInv
    OBVIOUS
  <2>1. IInv
    BY InvInit, SessionAssumption
  <2>2. CleanFacts
    BY DEF SessionInit, CleanFacts, Placed, Writing, Listed, NoMarker
  <2>3. Once
    BY DEF SessionInit, Once
  <2> QED BY <2>1, <2>2, <2>3
<1>2. CurrentInv /\ [Next]_vars => CurrentInv'
  BY InvStep, CleanStep, OnceStep, SessionAssumption
<1>3. CurrentInv => SessionIsCurrent
  <2> SUFFICES ASSUME CurrentInv PROVE SessionIsCurrent
    OBVIOUS
  <2>1. NoStaleFacts
    <3>1. Quiet => \A c \in Calls : Idle(c)
      BY DEF Quiet, Active, Idle
    <3> QED BY <3>1 DEF NoStaleFacts, CleanFacts, Listed, Trusted
  <2>2. StoredOnce
    <3>1. stored = {} => Cardinality(stored) = 0
      BY FS_EmptySet
    <3>2. \A c \in Calls : stored = {c} => Cardinality(stored) = 1
      BY FS_Singleton
    <3> QED BY <3>1, <3>2 DEF StoredOnce, Once, Trusted
  <2> QED BY <2>1, <2>2 DEF SessionIsCurrent
<1> QED BY <1>1, <1>2, <1>3, PTL DEF Spec

-----------------------------------------------------------------------------
(* What a call that returns ok has made visible.                           *)

\* The events of a call whose graph writes were accepted are its own, and are
\* published by the time it deletes.
Posted(c) ==
  /\ pc[c] = "graph" => ~own[c].graph
  /\ Trusted /\ own[c].graph /\ pc[c] \in Writing =>
       \A i \in 1 .. own[c].m : /\ events[i].by = c
                                /\ pc[c] = "stale" => events[i].shown

\* No clear is under way while a call runs, and what is answered is over.
Apart ==
  /\ intact /\ sweep => Quiet
  /\ \A c \in Calls : answer.call = c => pc[c] = "ended"

LEMMA ApartStep ==
  ASSUME IInv, Apart, SessionAssumption, [Next]_vars
  PROVE  Apart'
<1> USE SessionAssumption
<1>types. pc \in [Calls -> {"new", "check", "mark", "extract", "graph", "purge", "write",
                            "publish", "publish2", "stale", "fail", "ended"}]
  BY DEF IInv, TypeOK
<1>intact. Next => (intact' => intact)
  BY TrustLasts DEF IInv
\* A step of a call answers nothing, or ends it.
<1>moves. ASSUME NEW c \in Calls, Active(c), NEW w, Goto(c, w), UNCHANGED <<sweep, intact>>
          PROVE  Apart'
  <2>1. ~(intact /\ sweep)
    BY <1>moves DEF Apart, Quiet
  <2>2. \A d \in Calls : answer'.call # d
    BY <1>moves DEF Goto, NoAnswer, SessionAssumption
  <2> QED BY <1>moves, <2>1, <2>2 DEF Apart
<1>ends. ASSUME NEW c \in Calls, Active(c), NEW r, Return(c, r), UNCHANGED <<sweep, intact>>
         PROVE  Apart'
  <2>1. ~(intact /\ sweep)
    BY <1>ends DEF Apart, Quiet
  <2>2. \A d \in Calls : answer'.call = d => pc'[d] = "ended"
    BY <1>ends, <1>types DEF Return
  <2> QED BY <1>ends, <2>1, <2>2 DEF Apart
<1>1. ASSUME NEW c \in Calls, NEW o \in BOOLEAN, Begin(c, o) PROVE Apart'
  <2>1. \A d \in Calls : answer'.call # d
    BY <1>1 DEF Begin, Goto, NoAnswer, SessionAssumption
  <2>2. ~(intact' /\ sweep')
    BY <1>1 DEF Begin
  <2> QED BY <2>1, <2>2 DEF Apart
<1>2. ASSUME NEW c \in Calls, CallStep(c) PROVE Apart'
  <2>1. Active(c)
    BY <1>2 DEF Active, CallStep, Check, Mark, Extract, Graph, Purge, Write, Publish,
                Publish2, DeleteStale, Finish, Fail
  <2>2. UNCHANGED <<sweep, intact>>
    BY <1>2 DEF CallStep, Check, Mark, Extract, Graph, Purge, Write, Publish,
                Publish2, DeleteStale, Finish, Fail, history
  <2>3. \/ \E w : Goto(c, w)
        \/ \E r : Return(c, r)
        \/ UNCHANGED <<pc, answer>>
    BY <1>2 DEF CallStep, Check, Mark, Extract, Graph, Purge, Write, Publish,
                Publish2, DeleteStale, Finish, Fail
  <2>4. UNCHANGED <<pc, answer>> => Apart'
    BY <2>2 DEF Apart, Quiet, Active
  <2> QED BY <1>moves, <1>ends, <2>1, <2>2, <2>3, <2>4
<1>3. ASSUME NEW c \in Calls, Cut(c) PROVE Apart'
  BY <1>3, <1>ends DEF Cut
<1>4. CASE Restart
  <2>1. \A d \in Calls : pc[d] = "ended" => pc'[d] = "ended"
    BY <1>4 DEF Restart, Active
  <2> QED BY <1>4, <2>1 DEF Restart, Apart
<1>5. CASE ClearVectors
  BY <1>5 DEF ClearVectors, locals, Apart, Quiet, Active
<1>6. CASE ClearGraph
  BY <1>6 DEF ClearGraph, locals, Apart
<1>7. CASE UNCHANGED vars
  BY <1>7 DEF vars, locals, history, Apart, Quiet, Active
<1> QED BY <1>1, <1>2, <1>3, <1>4, <1>5, <1>6, <1>7 DEF Next

\* What is left to show of a step of one call.
LEMMA PostedMoved ==
  ASSUME IInv, NEW c \in Calls, Active(c) \/ Quiet, NEW where,
         pc' = [pc EXCEPT ![c] = where],
         where \in Writing => Posted(c)'
  PROVE  \A d \in Calls : Posted(d)'
<1>1. /\ pc'[c] = where
      /\ \A d \in Calls : d # c => pc'[d] \in {"new", "ended"}
  BY OthersRest
<1>2. where \notin Writing => Posted(c)'
  BY <1>1 DEF Posted, Writing
<1>3. \A d \in Calls : d # c => Posted(d)'
  BY <1>1 DEF Posted, Writing
<1> QED BY <1>2, <1>3

\* The steps that leave the events of a call and what it knows of them alone.
LEMMA PostedStays ==
  ASSUME NEW c \in Calls, Posted(c), Trusted' => Trusted,
         UNCHANGED <<events, own>>,
         pc[c] \in Writing, pc'[c] \in Writing \ {"graph", "stale"}
  PROVE  Posted(c)'
  BY DEF Posted, Writing

LEMMA PostedStep ==
  ASSUME IInv, Apart, \A c \in Calls : Posted(c), SessionAssumption, Exclusive, [Next]_vars
  PROVE  \A c \in Calls : Posted(c)'
<1> USE SessionAssumption
<1>trust. Next => (intact' => intact) /\ (Trusted' => Trusted)
  BY TrustLasts DEF IInv
<1>types. /\ events \in [EventIds -> Entry] /\ own \in [Calls -> Locals]
          /\ pc \in [Calls -> {"new", "check", "mark", "extract", "graph", "purge", "write",
                               "publish", "publish2", "stale", "fail", "ended"}]
          /\ MaxEvents \in Nat
  BY DEF IInv, TypeOK
<1>own. \A c \in Calls : own[c].m \in Nat /\ 1 .. own[c].m \subseteq EventIds
  BY <1>types DEF Locals, EventIds
<1>1. ASSUME NEW c \in Calls, NEW o \in BOOLEAN, Begin(c, o)
      PROVE  \A d \in Calls : Posted(d)'
  <2>1. Quiet /\ pc' = [pc EXCEPT ![c] = "check"]
    BY <1>1 DEF Begin, Goto
  <2> QED BY <2>1, PostedMoved DEF Writing
<1>2. ASSUME NEW c \in Calls, Check(c) \/ Mark(c) \/ Fail(c) \/ Finish(c) \/ Cut(c)
      PROVE  \A d \in Calls : Posted(d)'
  <2>1. Active(c)
    BY <1>2 DEF Check, Mark, Fail, Finish, Cut, Active
  <2>2. PICK w \in {"mark", "extract", "ended"} : pc' = [pc EXCEPT ![c] = w]
    BY <1>2 DEF Check, Mark, Fail, Finish, Cut, Goto, Return
  <2> QED BY <2>1, <2>2, PostedMoved DEF Writing
<1>3. ASSUME NEW c \in Calls, Extract(c) PROVE \A d \in Calls : Posted(d)'
  <2>1. Active(c)
    BY <1>3 DEF Extract, Active
  <2>2. CASE Goto(c, "fail")
    <3>1. pc' = [pc EXCEPT ![c] = "fail"]
      BY <2>2 DEF Goto
    <3> QED BY <2>1, <3>1, PostedMoved DEF Writing
  <2>3. CASE Goto(c, "graph") /\ own'[c].graph = FALSE
    <3>1. pc' = [pc EXCEPT ![c] = "graph"] /\ pc'[c] = "graph"
      BY <2>3, <1>types DEF Goto
    <3>2. Posted(c)'
      BY <2>3, <3>1 DEF Posted
    <3> QED BY <2>1, <3>1, <3>2, PostedMoved
  <2>4. ASSUME NEW n, NEW k, NEW llm,
               own' = [own EXCEPT ![c] = [old |-> @.old, next |-> n + 1, n |-> n,
                                          m |-> k, llm |-> llm, graph |-> FALSE]]
        PROVE  own'[c].graph = FALSE
    BY <2>4, <1>types
  <2> QED BY <1>3, <2>2, <2>3, <2>4 DEF Extract
<1>4. ASSUME NEW c \in Calls, Graph(c) PROVE \A d \in Calls : Posted(d)'
  <2>1. Active(c) /\ Next /\ pc[c] = "graph"
    BY <1>4 DEF Graph, Active, Next, CallStep
  <2>2. PICK k \in {0, own[c].m} :
       /\ events' = Written(events, c, k)
       /\ \/ /\ \/ k = own[c].m /\ Works
                \/ FailsSilently
             /\ own' = [own EXCEPT ![c].graph = TRUE]
             /\ Goto(c, IF over[c] THEN "purge" ELSE "write")
          \/ /\ Goto(c, IF over[c] THEN "fail" ELSE "write")
             /\ UNCHANGED own
    BY <1>4 DEF Graph
  <2>3. PICK w \in {"purge", "write", "fail"} : pc' = [pc EXCEPT ![c] = w]
    BY <2>2 DEF Goto
  <2>4. pc'[c] = w
    BY <2>3, <1>types
  <2>5. CASE UNCHANGED own
    <3>1. ~own'[c].graph
      BY <2>1, <2>5 DEF Posted
    <3>2. Posted(c)'
      BY <2>4, <3>1 DEF Posted
    <3> QED BY <2>1, <2>3, <3>2, PostedMoved
  <2>6. CASE FailsSilently
    <3>1. ~Trusted'
      BY <2>6, Spending DEF Trusted, IInv, TypeOK
    <3>2. Posted(c)'
      BY <2>4, <3>1 DEF Posted
    <3> QED BY <2>1, <2>3, <3>2, PostedMoved
  <2>7. CASE k = own[c].m /\ own' = [own EXCEPT ![c].graph = TRUE]
    <3>1. own'[c].m = own[c].m
      BY <2>7, <1>types DEF Locals
    <3>2. \A i \in 1 .. own[c].m : events'[i].by = c
      <4>1. \A i \in EventIds : i <= own[c].m => events'[i] = [by |-> c, shown |-> FALSE]
        BY <2>2, <2>7, <1>types DEF Written
      <4> QED BY <4>1, <1>own
    <3>3. Posted(c)'
      BY <2>4, <3>1, <3>2 DEF Posted
    <3> QED BY <2>1, <2>3, <3>3, PostedMoved
  <2> QED BY <2>2, <2>5, <2>6, <2>7
<1>5. ASSUME NEW c \in Calls, Purge(c) PROVE \A d \in Calls : Posted(d)'
  <2>1. /\ Active(c) /\ Next /\ pc[c] = "purge" /\ UNCHANGED own
        /\ pc' = [pc EXCEPT ![c] = "write"] /\ pc'[c] = "write"
    BY <1>5, <1>types DEF Purge, Active, Next, CallStep, Goto
  <2>2. \A i \in 1 .. own[c].m : events'[i] = events[i]
    <3>1. \A i \in EventIds : i <= own[c].m => events'[i] = events[i]
      BY <1>5, <1>types DEF Purge, Kept
    <3> QED BY <3>1, <1>own
  <2>3. Posted(c)'
    BY <1>trust, <2>1, <2>2 DEF Posted, Writing
  <2> QED BY <2>1, <2>3, PostedMoved
<1>6. ASSUME NEW c \in Calls, Write(c) \/ Publish(c) PROVE \A d \in Calls : Posted(d)'
  <2>1. /\ Active(c) /\ Next /\ pc[c] \in Writing /\ UNCHANGED <<own, events>>
    BY <1>6 DEF Write, Publish, Active, Next, CallStep, Writing
  <2>2. PICK w \in {"publish", "publish2", "fail"} : pc' = [pc EXCEPT ![c] = w]
    BY <1>6 DEF Write, Publish, Goto
  <2>3. pc'[c] = w
    BY <2>2, <1>types
  <2>4. w \in Writing => Posted(c)'
    BY <1>trust, <2>1, <2>3, PostedStays DEF Writing
  <2> QED BY <2>1, <2>2, <2>4, PostedMoved
<1>7. ASSUME NEW c \in Calls, Publish2(c) PROVE \A d \in Calls : Posted(d)'
  <2>1. /\ Active(c) /\ Next /\ pc[c] = "publish2" /\ UNCHANGED own
        /\ pc' = [pc EXCEPT ![c] = "stale"] /\ pc'[c] = "stale"
    BY <1>7, <1>types DEF Publish2, Active, Next, CallStep, Goto
  <2>2. CASE own[c].graph /\ events' = Published(events, own[c].m)
    <3>1. ASSUME Trusted, NEW i \in 1 .. own[c].m
          PROVE  events'[i].by = c /\ events'[i].shown
      <4>1. i \in EventIds /\ i <= own[c].m /\ events[i] \in Entry
        BY <1>own, <1>types
      <4>2. events[i].by = c
        BY <2>1, <2>2, <3>1 DEF Posted, Writing
      <4>3. events[i] # Absent
        BY <4>2 DEF Absent, SessionAssumption
      <4>4. events'[i] = [events[i] EXCEPT !.shown = TRUE]
        BY <2>2, <1>types, <4>1, <4>3 DEF Published
      <4> QED BY <4>1, <4>2, <4>4 DEF Entry
    <3>2. Posted(c)'
      BY <1>trust, <2>1, <3>1 DEF Posted
    <3> QED BY <2>1, <3>2, PostedMoved
  <2>3. CASE FailsSilently
    <3>1. ~Trusted'
      BY <2>3, Spending DEF Trusted, IInv, TypeOK
    <3>2. Posted(c)'
      BY <2>1, <3>1 DEF Posted
    <3> QED BY <2>1, <3>2, PostedMoved
  <2>4. CASE ~own[c].graph
    <3>1. Posted(c)'
      BY <2>1, <2>4 DEF Posted
    <3> QED BY <2>1, <3>1, PostedMoved
  <2> QED BY <1>7, <2>2, <2>3, <2>4 DEF Publish2
<1>8. ASSUME NEW c \in Calls, DeleteStale(c) PROVE \A d \in Calls : Posted(d)'
  <2>1. Active(c) /\ Next /\ pc[c] = "stale" /\ UNCHANGED events
    BY <1>8 DEF DeleteStale, Active, Next, CallStep
  <2>2. CASE Goto(c, "fail")
    <3>1. pc' = [pc EXCEPT ![c] = "fail"]
      BY <2>2 DEF Goto
    <3> QED BY <2>1, <3>1, PostedMoved DEF Writing
  <2>3. CASE own' = [own EXCEPT ![c].next = @ + 1] /\ UNCHANGED pc
    <3>1. own'[c].graph = own[c].graph /\ own'[c].m = own[c].m
      BY <2>3, <1>types DEF Locals
    <3>2. pc' = [pc EXCEPT ![c] = "stale"] /\ pc'[c] = "stale"
      BY <2>1, <2>3, <1>types
    <3>3. Posted(c)'
      BY <1>trust, <2>1, <3>1, <3>2 DEF Posted, Writing
    <3> QED BY <2>1, <3>2, <3>3, PostedMoved
  <2> QED BY <1>8, <2>2, <2>3 DEF DeleteStale
<1>9. CASE Restart
  <2>1. \A c \in Calls : pc'[c] \in {"new", "ended"}
    BY <1>9 DEF Restart, Active
  <2> QED BY <2>1 DEF Posted, Writing
<1>10. CASE ClearVectors
  <2>1. UNCHANGED <<pc, own, events>> /\ Next
    BY <1>10 DEF ClearVectors, locals, Next
  <2> QED BY <1>trust, <2>1 DEF Posted
<1>11. CASE ClearGraph
  <2>1. UNCHANGED <<pc, own, intact>> /\ sweep
    BY <1>11 DEF ClearGraph, locals, history
  <2>2. Trusted' => \A c \in Calls : pc'[c] \notin Writing
    BY <2>1 DEF Trusted, Apart, Quiet, Active, Writing
  <2> QED BY <2>1, <2>2 DEF Posted
<1>12. CASE UNCHANGED vars
  BY <1>12 DEF Posted, Trusted, vars, stores, locals, history
<1> QED
  BY <1>1, <1>2, <1>3, <1>4, <1>5, <1>6, <1>7, <1>8, <1>9, <1>10, <1>11, <1>12
  DEF Next, CallStep

\* Only Finish answers ok.
LEMMA OkIsFinish ==
  ASSUME IInv, Apart, Next, NEW c \in Calls, Returns(c)
  PROVE  pc[c] = "stale"
<1> USE DEF Returns
<1>1. ASSUME NEW d \in Calls, Check(d) \/ Fail(d) \/ Cut(d) PROVE FALSE
  BY <1>1 DEF Check, Fail, Cut, Return, Goto, NoAnswer
<1>2. ASSUME NEW d \in Calls, \/ Mark(d) \/ Extract(d) \/ Graph(d) \/ Purge(d) \/ Write(d)
                              \/ Publish(d) \/ Publish2(d)
      PROVE  FALSE
  BY <1>2 DEF Mark, Extract, Graph, Purge, Write, Publish, Publish2, Goto, NoAnswer
<1>3. ASSUME NEW d \in Calls, DeleteStale(d) PROVE FALSE
  BY <1>3 DEF DeleteStale, Goto, NoAnswer
<1>4. ASSUME NEW d \in Calls, Finish(d) PROVE pc[c] = "stale"
  <2>1. answer' = [call |-> d, status |-> "ok"] /\ pc[d] = "stale"
    BY <1>4 DEF Finish, Return
  <2>2. c = d
    BY <2>1
  <2> QED BY <2>1, <2>2
<1>5. ASSUME NEW d \in Calls, NEW o \in BOOLEAN, Begin(d, o) PROVE FALSE
  BY <1>5 DEF Begin, Goto, NoAnswer
<1>6. CASE Restart
  <2>1. answer.call = c
    BY <1>6 DEF Restart
  <2> QED BY <2>1 DEF Apart
<1>7. CASE ClearVectors \/ ClearGraph
  BY <1>7 DEF ClearVectors, ClearGraph, locals
<1> QED BY <1>1, <1>2, <1>3, <1>4, <1>5, <1>6, <1>7 DEF Next, CallStep

\* A call that returns ok has every fact of its extraction published and of its own
\* text, and so its events when the graph took them: whatever earlier calls left
\* behind, whatever was cancelled, raised or restarted before, unless a failure
\* was swallowed or a clear overlapped a call.
THEOREM OkShowsAll == Exclusive => (Spec => OkIsVisible)
<1> SUFFICES ASSUME Exclusive PROVE Spec => OkIsVisible
  OBVIOUS
<1> DEFINE VisibleInv == IInv /\ Apart /\ \A c \in Calls : Posted(c)
           Shows == \A c \in Calls : Returns(c) /\ intact /\ used.silent = 0 => Visible(c)
<1>1. SessionInit => VisibleInv
  <2> SUFFICES ASSUME SessionInit PROVE VisibleInv
    OBVIOUS
  <2>1. IInv
    BY InvInit, SessionAssumption
  <2>2. Apart
    BY SessionAssumption DEF SessionInit, Apart, NoAnswer
  <2>3. \A c \in Calls : Posted(c)
    BY DEF SessionInit, Posted, Writing
  <2> QED BY <2>1, <2>2, <2>3
<1>2. VisibleInv /\ [Next]_vars => VisibleInv'
  <2> SUFFICES ASSUME VisibleInv, [Next]_vars PROVE VisibleInv'
    OBVIOUS
  <2>1. IInv' /\ Apart'
    BY InvStep, ApartStep, SessionAssumption
  <2>2. \A c \in Calls : Posted(c)'
    BY PostedStep, SessionAssumption
  <2> QED BY <2>1, <2>2
<1>3. VisibleInv /\ [Next]_vars => [Shows]_vars
  <2> SUFFICES ASSUME VisibleInv, Next, NEW c \in Calls, Returns(c), intact, used.silent = 0
               PROVE  Visible(c)
    BY DEF Shows
  <2>1. pc[c] = "stale" /\ Trusted
    BY OkIsFinish DEF Trusted
  <2>2. \A i \in 1 .. own[c].n : i \in FactIds /\ facts[i] \in Entry
    BY FactsOf, SessionAssumption DEF IInv
  <2>3. \A i \in 1 .. own[c].n : facts[i].by = c /\ facts[i].shown
    BY <2>1 DEF IInv, Progress, Trusted
  <2>4. \A i \in 1 .. own[c].m : events[i] \in Entry
    BY SessionAssumption DEF IInv, TypeOK, Locals, EventIds
  <2>5. own[c].graph => \A i \in 1 .. own[c].m : events[i].by = c /\ events[i].shown
    BY <2>1 DEF Posted, Writing
  <2>6. \A i \in 1 .. own[c].n : facts[i] = [by |-> c, shown |-> TRUE]
    BY <2>2, <2>3 DEF Entry
  <2>7. own[c].graph => \A i \in 1 .. own[c].m : events[i] = [by |-> c, shown |-> TRUE]
    BY <2>4, <2>5 DEF Entry
  <2> QED BY <2>6, <2>7 DEF Visible
<1> QED BY <1>1, <1>2, <1>3, PTL DEF Spec, OkIsVisible
=============================================================================
