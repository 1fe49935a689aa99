--------------------- MODULE IngestPipelineProofs ---------------------
(***************************************************************************)
(* What the ingest pipeline promises, for every value of the constants:    *)
(* its variables keep their types, a job that was deleted stays deleted; a *)
(* job has one runner at a time, a commit runs once, a finished job stays  *)
(* finished and an accepted one is in somebody's hands - in a deployment   *)
(* of one server process, and in one of any number of processes that all   *)
(* started before the first job.  Last, the pipeline does with a commit    *)
(* what the module IngestCommits promises of it.                           *)
(*                                                                         *)
(* A claim needs a RECEIVED job, so what has to be shown first is that a   *)
(* job whose claim is still held is not RECEIVED.  Three things make a     *)
(* claimed job RECEIVED: the retry of a timeout, written by its own        *)
(* holder; such a write left behind when its process stops, which lands    *)
(* when no worker is left; and recovery, which looks only at jobs that its *)
(* own process does not have anywhere in memory.                           *)
(***************************************************************************)
EXTENDS IngestPipeline, TLAPS

\* A worker away from the queue has a job, and so does a request in progress.
JobsInHand ==
  /\ \A w \in Workers : wpc[w] \notin {"idle", "exited"} => wjob[w] \in Jobs
  /\ \A h \in Handlers : hpc[h] # "idle" => hjob[h] \in Jobs

TypeInv == TypeOK /\ JobsInHand
-----------------------------------------------------------------------------
(* The rows of the store.                                                  *)

Ops == UpdateOps \cup {"enqfail", "stale"}

\* No job id is the empty tuple.
LEMMA NoJobIsNoJob == NoJob \notin Jobs
  BY DEF NoJob, Jobs

\* A patch of a row is a row.
LEMMA PatchedType == \A r \in Row, op \in Ops : Patched(r, op) \in Row
<1> SUFFICES ASSUME NEW r \in Row, NEW op \in Ops PROVE Patched(r, op) \in Row
  OBVIOUS
<1>1. \A st \in Statuses : [r EXCEPT !.status = st] \in Row
  BY DEF Row
<1>2. \A n \in Nat : /\ [r EXCEPT !.stage2 = n] \in Row
                     /\ [r EXCEPT !.status = "STAGE3_RUNNING", !.stage3 = n] \in Row
  BY DEF Row, Statuses, Pending
<1>3. r.stage2 + 1 \in Nat /\ r.stage3 + 1 \in Nat
  BY DEF Row
<1>4. /\ [r EXCEPT !.marks = TRUE] \in Row
      /\ [r EXCEPT !.status = "STAGE3_FAILED", !.retry = "none"] \in Row
      /\ [r EXCEPT !.status = "RECEIVED", !.retry = "future"] \in Row
  BY DEF Row, Statuses, Pending, Failures
<1>5. {"COMPLETED", "STAGE2_FAILED", "ENQUEUE_FAILED", "STAGE3_FAILED"}
        \subseteq Statuses
  BY DEF Statuses, Failures
<1> QED BY <1>1, <1>2, <1>3, <1>4, <1>5 DEF Patched

\* Only a retry makes a row RECEIVED that was not.
LEMMA PatchedReceived ==
  \A r \in Row, op \in Ops :
    r.status # "RECEIVED" /\ op # "retry" => Patched(r, op).status # "RECEIVED"
  BY DEF Row, Patched, Ops, UpdateOps

LEMMA RowConstants ==
  /\ Absent \in Row
  /\ \A text \in BOOLEAN : NewRow(text) \in Row
  BY DEF Row, Absent, NewRow, Statuses, Pending, Failures

\* What a write leaves behind is a row.
LEMMA LandedType ==
  ASSUME StoreTypeOK, NEW u \in Write
  PROVE  Landed(u) \in Row
  BY RowConstants DEF Landed, StoreTypeOK, Write, Row, Present

\* Landing a write keeps the tables well typed.
LEMMA LandType ==
  ASSUME StoreTypeOK, NEW u \in Write, Land(u), StoreAssumption
  PROVE  StoreTypeOK'
<1>1. row' \in [Jobs -> Row]
  BY LandedType DEF Land, StoreTypeOK, Write
<1>2. session' \in [Sessions ->
        [job : Jobs \cup {NoJob}, status : Statuses \cup {"ABSENT"}]]
  BY DEF Land, StoreTypeOK, Write, Row, SessionAfter, Jobs, StoreAssumption
<1> QED BY <1>1, <1>2 DEF Land, StoreTypeOK

LEMMA TransitionType ==
  ASSUME StoreTypeOK, NEW j \in Jobs, NEW from, NEW to \in Statuses,
         Transition(j, from, to), StoreAssumption
  PROVE  StoreTypeOK' /\ writes' = writes
<1>1. row' \in [Jobs -> Row]
  BY DEF Transition, StoreTypeOK, Row
<1>2. session' \in [Sessions ->
        [job : Jobs \cup {NoJob}, status : Statuses \cup {"ABSENT"}]]
  BY DEF Transition, StoreTypeOK, SessionAfter, Jobs, StoreAssumption
<1> QED BY <1>1, <1>2 DEF Transition, StoreTypeOK

\* A read keeps the tables, and adds one well-typed write.
LEMMA ReadType ==
  ASSUME StoreTypeOK, \A u \in writes : u \in Write,
         NEW by \in Actors, NEW p \in Pods, NEW j \in Jobs, NEW op \in Ops,
         Read(by, p, j, op)
  PROVE  StoreTypeOK' /\ \A u \in writes' : u \in Write
<1>1. Patched(row[j], op) \in Row
  BY PatchedType DEF StoreTypeOK
<1>2. [by |-> by, pod |-> p, live |-> TRUE, job |-> j, op |-> op,
       row |-> Patched(row[j], op)] \in Write
  BY <1>1 DEF Write, Ops
<1> QED BY <1>2 DEF Read, StoreTypeOK

LEMMA CreateType ==
  ASSUME StoreTypeOK, NEW c \in Commits, NEW text \in BOOLEAN, Create(c, text),
         StoreAssumption
  PROVE  /\ StoreTypeOK' /\ writes' = writes
         /\ <<c, index'[c]>> \in Jobs
<1>1. <<c, created[c] + 1>> \in Jobs /\ created[c] + 1 \in 0 .. MaxGen
  BY DEF Create, Jobs, StoreTypeOK, StoreAssumption
<1>2. row' \in [Jobs -> Row]
  BY RowConstants DEF Create, StoreTypeOK
<1>3. session' \in [Sessions ->
        [job : Jobs \cup {NoJob}, status : Statuses \cup {"ABSENT"}]]
  BY <1>1 DEF Create, StoreTypeOK, SessionAfter, StoreAssumption, Statuses, Pending
<1>4. index' \in [Commits -> 0 .. MaxGen] /\ created' \in [Commits -> 0 .. MaxGen]
  BY <1>1 DEF Create, StoreTypeOK
<1> QED BY <1>1, <1>2, <1>3, <1>4 DEF Create, StoreTypeOK
-----------------------------------------------------------------------------
(* Every step keeps the types.                                             *)

WritesOK == \A u \in writes : u \in Write

\* The part of the type invariant that is about one process's memory.
MemoryOK ==
  /\ pod \in [Pods -> {"down", "recovering", "up", "stopping", "exiting"}]
  /\ listed \in [Pods -> [Jobs -> Pending \cup {"ABSENT"}]]
  /\ poisons \in [Pods -> 0 .. WorkerCount]
  /\ queue \in [Pods -> Seq(Jobs \cup {Poison})]
  /\ delayed \in [Pods -> [Jobs -> Nat]]

WorkersOK ==
  /\ wpc \in [Workers -> WorkerPc]
  /\ wjob \in [Workers -> Jobs \cup {NoJob}]
  /\ wmarks \in [Workers -> BOOLEAN]
  /\ \A w \in Workers : wpc[w] \notin {"idle", "exited"} => wjob[w] \in Jobs

HandlersOK ==
  /\ hpc \in [Handlers -> {"idle", "created", "enqfail"}]
  /\ hpod \in [Handlers -> Pods]
  /\ hjob \in [Handlers -> Jobs \cup {NoJob}]
  /\ \A h \in Handlers : hpc[h] # "idle" => hjob[h] \in Jobs

HistoryOK ==
  /\ accepted \subseteq Jobs
  /\ used \in [requests : 0 .. MaxRequests, starts : 0 .. MaxStarts,
               timeouts : 0 .. MaxTimeouts, faults : 0 .. MaxFaults,
               clears : 0 .. MaxClears]

LEMMA TypeInvParts ==
  TypeInv <=> /\ StoreTypeOK /\ WritesOK /\ MemoryOK
              /\ WorkersOK /\ HandlersOK /\ HistoryOK
  BY DEF TypeInv, TypeOK, JobsInHand, WritesOK, MemoryOK, WorkersOK, HandlersOK, HistoryOK

LEMMA TypeInvPartsNext ==
  TypeInv' <=> /\ StoreTypeOK' /\ WritesOK' /\ MemoryOK'
               /\ WorkersOK' /\ HandlersOK' /\ HistoryOK'
  BY DEF TypeInv, TypeOK, JobsInHand, WritesOK, MemoryOK, WorkersOK, HandlersOK, HistoryOK

LEMMA DelayType ==
  ASSUME MemoryOK, NEW p \in Pods, NEW j \in Jobs, Delay(p, j)
  PROVE  delayed' \in [Pods -> [Jobs -> Nat]]
<1>1. delayed[p] \in [Jobs -> Nat] /\ delayed[p][j] + 1 \in Nat
  BY DEF MemoryOK
<1>2. [delayed[p] EXCEPT ![j] = delayed[p][j] + 1] \in [Jobs -> Nat]
  BY <1>1
<1> QED BY <1>2 DEF Delay, MemoryOK

LEMMA OfferType ==
  ASSUME MemoryOK, NEW p \in Pods, NEW j \in Jobs, Offer(p, j)
  PROVE  queue' \in [Pods -> Seq(Jobs \cup {Poison})]
<1>1. Append(queue[p], j) \in Seq(Jobs \cup {Poison})
  BY DEF MemoryOK
<1> QED BY <1>1 DEF Offer, MemoryOK

LEMMA QueueStep ==
  ASSUME WorkersOK, MemoryOK, NEW w \in Workers,
         Get(w) \/ Fetch(w) \/ AcquireGlobal(w) \/ AcquireTenant(w)
  PROVE  WorkersOK' /\ MemoryOK'
<1>0. w[1] \in Pods /\ Jobs \cup {Poison} = Jobs \cup {NoJob}
  BY DEF Workers, Poison, NoJob
<1>1. CASE Get(w)
  <2>1. queue[w[1]] \in Seq(Jobs \cup {Poison}) /\ queue[w[1]] # << >>
    BY <1>0, <1>1 DEF Get, MemoryOK
  <2>2. Head(queue[w[1]]) \in Jobs \cup {Poison}
        /\ Tail(queue[w[1]]) \in Seq(Jobs \cup {Poison})
    BY <2>1
  <2>3. MemoryOK'
    BY <1>1, <2>2 DEF Get, MemoryOK, podVars
  <2>4. WorkersOK'
    BY <1>0, <1>1, <2>2 DEF Get, WorkersOK, Goto, WorkerPc
  <2> QED BY <2>3, <2>4
<1>2. CASE Fetch(w)
  <2>1. WorkersOK'
    BY <1>2 DEF Fetch, Finish, Goto, WorkersOK, WorkerPc
  <2>2. MemoryOK'
    <3>1. wjob[w] \in Jobs
      BY <1>2 DEF Fetch, WorkersOK
    <3>2. delayed' \in [Pods -> [Jobs -> Nat]]
      BY <1>0, <1>2, <3>1, DelayType DEF Fetch, MemoryOK
    <3> QED BY <1>2, <3>2 DEF Fetch, MemoryOK, podVars
  <2> QED BY <2>1, <2>2
<1>3. CASE AcquireGlobal(w)
  BY <1>3 DEF AcquireGlobal, Goto, WorkersOK, MemoryOK, WorkerPc, podVars, queueVars
<1>4. CASE AcquireTenant(w)
  BY <1>4 DEF AcquireTenant, Goto, WorkersOK, MemoryOK, WorkerPc, Inside, podVars, queueVars
<1> QED BY <1>1, <1>2, <1>3, <1>4

LEMMA RunStep ==
  ASSUME StoreTypeOK, WorkersOK, NEW w \in Workers,
         Load(w) \/ Prepare(w) \/ Extract(w) \/ SessionWrite(w) \/ JudgeTimeout(w)
  PROVE  WorkersOK'
<1>1. CASE Load(w)
  <2>1. row[wjob[w]].marks \in BOOLEAN
    BY <1>1 DEF Load, WorkersOK, StoreTypeOK, Row
  <2>2. wmarks' \in [Workers -> BOOLEAN]
    BY <1>1, <2>1 DEF Load, WorkersOK
  <2> QED BY <1>1, <2>2 DEF Load, Finish, Goto, WorkersOK, WorkerPc, Inside
<1>2. CASE Prepare(w)
  BY <1>2 DEF Prepare, Goto, WorkersOK, WorkerPc, Inside, Owning
<1>3. CASE Extract(w)
  BY <1>3 DEF Extract, Goto, WorkersOK, WorkerPc, Inside, Owning
<1>4. CASE SessionWrite(w)
  BY <1>4 DEF SessionWrite, Goto, WorkersOK, WorkerPc, Inside, Owning
<1>5. CASE JudgeTimeout(w)
  BY <1>5 DEF JudgeTimeout, Goto, WorkersOK, WorkerPc, Inside, Settling
<1> QED BY <1>1, <1>2, <1>3, <1>4, <1>5

LEMMA ClaimStep ==
  ASSUME StoreTypeOK, WritesOK, WorkersOK, StoreAssumption, NEW w \in Workers, Claim(w)
  PROVE  StoreTypeOK' /\ WritesOK' /\ WorkersOK'
<1>1. wjob[w] \in Jobs
  BY DEF Claim, WorkersOK
<1>2. StoreTypeOK' /\ writes' = writes
  <2>1. CASE Transition(wjob[w], "RECEIVED", "STAGE2_RUNNING")
    BY <1>1, <2>1, TransitionType DEF Statuses, Pending
  <2>2. CASE UNCHANGED storeVars
    BY <2>2 DEF storeVars, StoreTypeOK
  <2> QED BY <2>1, <2>2 DEF Claim
<1>3. WorkersOK'
  BY DEF Claim, Finish, Goto, WorkersOK, WorkerPc, Inside, Owning
<1> QED BY <1>2, <1>3 DEF WritesOK

\* Where an update leaves its worker.
LEMMA AfterUpdateType ==
  ASSUME WorkersOK, MemoryOK, NEW w \in Workers, wpc[w] \in UpdateOps,
         AfterUpdate(w), UNCHANGED <<podVars, queue, wmarks>>
  PROVE  WorkersOK' /\ MemoryOK'
<1>1. wjob[w] \in Jobs /\ w[1] \in Pods
  BY DEF WorkersOK, UpdateOps, Workers
<1>2. delayed' \in [Pods -> [Jobs -> Nat]]
  BY <1>1, DelayType DEF AfterUpdate, MemoryOK
<1>3. MemoryOK'
  BY <1>2 DEF MemoryOK, podVars
<1>4. WorkersOK'
  BY DEF AfterUpdate, Finish, Goto, WorkersOK, WorkerPc, Inside, Owning
<1> QED BY <1>3, <1>4

LEMMA UpdateStep ==
  ASSUME StoreTypeOK, WritesOK, WorkersOK, MemoryOK, StoreAssumption, NEW w \in Workers,
         BeginUpdate(w) \/ EndUpdate(w) \/ SkipUpdate(w)
  PROVE  StoreTypeOK' /\ WritesOK' /\ WorkersOK' /\ MemoryOK'
<1>1. CASE BeginUpdate(w)
  <2>1. /\ wjob[w] \in Jobs /\ w[1] \in Pods /\ wpc[w] \in Ops
        /\ <<"worker", w>> \in Actors
    BY <1>1 DEF BeginUpdate, WorkersOK, Workers, UpdateOps, Ops, Actors
  <2>2. StoreTypeOK' /\ WritesOK'
    BY <1>1, <2>1, ReadType DEF BeginUpdate, WritesOK
  <2> QED BY <1>1, <2>2 DEF BeginUpdate, podVars, queueVars, workerVars, WorkersOK, MemoryOK
<1>2. CASE EndUpdate(w)
  <2>1. PICK u \in AwaitedBy(<<"worker", w>>) : Land(u)
    BY <1>2 DEF EndUpdate
  <2>2. u \in Write
    BY <2>1 DEF AwaitedBy, WritesOK
  <2>3. StoreTypeOK' /\ WritesOK'
    BY <2>1, <2>2, LandType DEF Land, WritesOK
  <2>4. wpc[w] \in UpdateOps
    BY <1>2 DEF EndUpdate
  <2> QED BY <1>2, <2>3, <2>4, AfterUpdateType DEF EndUpdate
<1>3. CASE SkipUpdate(w)
  <2>1. WorkersOK' /\ MemoryOK'
    BY <1>3, AfterUpdateType DEF SkipUpdate
  <2> QED BY <1>3, <2>1 DEF SkipUpdate, storeVars, StoreTypeOK, WritesOK
<1> QED BY <1>1, <1>2, <1>3

\* Cancelling a caller changes nothing in its write but who waits for it.
LEMMA OrphanedType ==
  ASSUME WritesOK, NEW by
  PROVE  \A u \in Orphaned(by) : u \in Write
<1>1. \A u \in Write : [u EXCEPT !.live = FALSE] \in Write
  BY DEF Write
<1> QED BY <1>1 DEF Orphaned, WritesOK

\* What a step may do to the counters of the bounds.
LEMMA CounterType ==
  ASSUME HistoryOK,
         \/ used.requests < MaxRequests /\ used' = [used EXCEPT !.requests = @ + 1]
         \/ used.starts < MaxStarts /\ used' = [used EXCEPT !.starts = @ + 1]
         \/ used.timeouts < MaxTimeouts /\ used' = [used EXCEPT !.timeouts = @ + 1]
         \/ used.faults < MaxFaults /\ used' = [used EXCEPT !.faults = @ + 1]
         \/ used.clears < MaxClears /\ used' = [used EXCEPT !.clears = @ + 1],
         UNCHANGED accepted, BoundAssumption
  PROVE  HistoryOK'
<1> DEFINE Next1(m, n) == n < m => n + 1 \in 0 .. m
<1>1. /\ used.requests \in 0 .. MaxRequests /\ used.starts \in 0 .. MaxStarts
      /\ used.timeouts \in 0 .. MaxTimeouts /\ used.faults \in 0 .. MaxFaults
      /\ used.clears \in 0 .. MaxClears
  BY DEF HistoryOK
<1>2. /\ Next1(MaxRequests, used.requests) /\ Next1(MaxStarts, used.starts)
      /\ Next1(MaxTimeouts, used.timeouts) /\ Next1(MaxFaults, used.faults)
      /\ Next1(MaxClears, used.clears)
  BY <1>1 DEF BoundAssumption
<1> QED BY <1>1, <1>2 DEF HistoryOK

LEMMA FaultStep ==
  ASSUME TypeInv, StoreAssumption, BoundAssumption, NEW w \in Workers,
         Expire(w) \/ StoreFails(w)
  PROVE  StoreTypeOK' /\ WritesOK' /\ WorkersOK' /\ HistoryOK'
<1>0. StoreTypeOK /\ WritesOK /\ WorkersOK /\ HistoryOK
  BY TypeInvParts
<1>1. CASE Expire(w)
  <2>1. WritesOK'
    BY <1>0, <1>1, OrphanedType DEF Expire, WritesOK
  <2>2. HistoryOK'
    BY <1>0, <1>1, CounterType DEF Expire
  <2>3. WorkersOK'
    BY <1>0, <1>1, PipelineAssumption
    DEF Expire, Goto, WorkersOK, WorkerPc, Inside, Settling, Owning
  <2> QED BY <1>0, <1>1, <2>1, <2>2, <2>3 DEF Expire, StoreTypeOK
<1>2. CASE StoreFails(w)
  <2>1. WritesOK'
    BY <1>0, <1>2 DEF StoreFails, WritesOK
  <2>2. HistoryOK'
    BY <1>0, <1>2, CounterType DEF StoreFails
  <2>3. WorkersOK'
    BY <1>0, <1>2 DEF StoreFails, Goto, Finish, WorkersOK, WorkerPc, Inside, Owning
  <2> QED BY <1>0, <1>2, <2>1, <2>2, <2>3 DEF StoreFails, StoreTypeOK
<1> QED BY <1>1, <1>2

LEMMA RequestStep ==
  ASSUME TypeInv, StoreAssumption, PipelineAssumption, BoundAssumption,
         NEW h \in Handlers, Request(h)
  PROVE  TypeInv'
<1>0. StoreTypeOK /\ WritesOK /\ MemoryOK /\ WorkersOK /\ HandlersOK /\ HistoryOK
  BY TypeInvParts
<1>1. ASSUME NEW p \in Pods, NEW c \in Commits, NEW text \in Texts,
             NEW wait \in BOOLEAN, Submit(h, p, c, text, wait)
      PROVE  TypeInv'
  <2>1. text \in BOOLEAN
    BY PipelineAssumption
  <2>2. StoreTypeOK' /\ writes' = writes /\ <<c, index'[c]>> \in Jobs
    <3>1. CASE Create(c, text)
      BY <1>0, <2>1, <3>1, CreateType
    <3>2. CASE Reusable(c) /\ UNCHANGED storeVars
      <4>1. index[c] \in 1 .. MaxGen
        BY <1>0, <3>2 DEF Reusable, StoreTypeOK, StoreAssumption
      <4> QED BY <1>0, <3>2, <4>1 DEF storeVars, StoreTypeOK, Jobs
    <3> QED BY <1>1, <3>1, <3>2 DEF Submit
  <2>3. HandlersOK'
    BY <1>0, <1>1, <2>2 DEF Submit, Respond, HandlersOK
  <2>4. HistoryOK'
    BY <1>0, <1>1, CounterType DEF Submit
  <2>5. MemoryOK' /\ WorkersOK'
    BY <1>0, <1>1 DEF Submit, MemoryOK, WorkersOK, podVars, queueVars, workerVars
  <2>6. WritesOK'
    BY <1>0, <2>2 DEF WritesOK
  <2> QED BY <2>2, <2>3, <2>4, <2>5, <2>6, TypeInvPartsNext
<1>2. ASSUME NEW p \in Pods, NEW j \in Jobs, Execute(h, p, j)
      PROVE  TypeInv'
  <2>1. HandlersOK'
    BY <1>0, <1>2 DEF Execute, Respond, HandlersOK
  <2>2. HistoryOK'
    BY <1>0, <1>2, CounterType DEF Execute
  <2>3. StoreTypeOK' /\ WritesOK' /\ MemoryOK' /\ WorkersOK'
    BY <1>0, <1>2 DEF Execute, storeVars, podVars, queueVars, workerVars,
                      StoreTypeOK, WritesOK, MemoryOK, WorkersOK
  <2> QED BY <1>0, <2>1, <2>2, <2>3, TypeInvPartsNext
<1> QED BY <1>1, <1>2 DEF Request

LEMMA HandlerStepType ==
  ASSUME TypeInv, StoreAssumption, NEW h \in Handlers, HandlerStep(h)
  PROVE  TypeInv'
<1>0. StoreTypeOK /\ WritesOK /\ MemoryOK /\ WorkersOK /\ HandlersOK /\ HistoryOK
  BY TypeInvParts
<1>1. CASE Accept(h)
  <2>1. hjob[h] \in Jobs /\ hpod[h] \in Pods
    BY <1>0, <1>1 DEF Accept, HandlersOK
  <2>2. MemoryOK'
    BY <1>0, <1>1, <2>1, OfferType DEF Accept, MemoryOK, podVars
  <2>3. HandlersOK' /\ HistoryOK'
    BY <1>0, <1>1, <2>1 DEF Accept, Respond, HandlersOK, HistoryOK
  <2>4. StoreTypeOK' /\ WritesOK' /\ WorkersOK'
    BY <1>0, <1>1 DEF Accept, storeVars, workerVars, StoreTypeOK, WritesOK, WorkersOK
  <2> QED BY <2>2, <2>3, <2>4, TypeInvPartsNext
<1>2. CASE BeginRefusal(h)
  <2>1. hjob[h] \in Jobs /\ hpod[h] \in Pods /\ <<"handler", h>> \in Actors /\ "enqfail" \in Ops
    BY <1>0, <1>2 DEF BeginRefusal, HandlersOK, Actors, Ops
  <2>2. StoreTypeOK' /\ WritesOK'
    BY <1>0, <1>2, <2>1, ReadType DEF BeginRefusal, WritesOK
  <2>3. HandlersOK'
    BY <1>0, <1>2, <2>1 DEF BeginRefusal, Respond, HandlersOK
  <2>4. MemoryOK' /\ WorkersOK' /\ HistoryOK'
    BY <1>0, <1>2 DEF BeginRefusal, podVars, queueVars, workerVars, history,
                      MemoryOK, WorkersOK, HistoryOK
  <2> QED BY <2>2, <2>3, <2>4, TypeInvPartsNext
<1>3. CASE EndRefusal(h)
  <2>1. PICK u \in AwaitedBy(<<"handler", h>>) : Land(u)
    BY <1>3 DEF EndRefusal
  <2>2. u \in Write
    BY <1>0, <2>1 DEF AwaitedBy, WritesOK
  <2>3. StoreTypeOK' /\ WritesOK'
    BY <1>0, <2>1, <2>2, LandType DEF Land, WritesOK
  <2>4. HandlersOK'
    BY <1>0, <1>3 DEF EndRefusal, Respond, HandlersOK
  <2>5. MemoryOK' /\ WorkersOK' /\ HistoryOK'
    BY <1>0, <1>3 DEF EndRefusal, podVars, queueVars, workerVars, history,
                      MemoryOK, WorkersOK, HistoryOK
  <2> QED BY <2>3, <2>4, <2>5, TypeInvPartsNext
<1>4. CASE SkipRefusal(h)
  <2>1. HandlersOK'
    BY <1>0, <1>4 DEF SkipRefusal, Respond, HandlersOK
  <2>2. StoreTypeOK' /\ WritesOK' /\ MemoryOK' /\ WorkersOK' /\ HistoryOK'
    BY <1>0, <1>4 DEF SkipRefusal, storeVars, podVars, queueVars, workerVars, history,
                      StoreTypeOK, WritesOK, MemoryOK, WorkersOK, HistoryOK
  <2> QED BY <2>1, <2>2, TypeInvPartsNext
<1> QED BY <1>1, <1>2, <1>3, <1>4 DEF HandlerStep

\* Time, orphaned statements and the tenant clear.
LEMMA OutsideStep ==
  ASSUME TypeInv, StoreAssumption, BoundAssumption,
         \/ \E j \in Jobs : RetryDue(j)
         \/ \E u \in writes : LandOrphan(u)
         \/ \E t \in Tenants : Clear(t)
  PROVE  TypeInv'
<1>0. StoreTypeOK /\ WritesOK /\ MemoryOK /\ WorkersOK /\ HandlersOK /\ HistoryOK
  BY TypeInvParts
<1>1. ASSUME NEW j \in Jobs, RetryDue(j) PROVE TypeInv'
  <2>1. \A r \in Row : [r EXCEPT !.retry = "due"] \in Row
    BY DEF Row
  <2>2. \A u \in Write : [u EXCEPT !.row.retry = "due"] \in Write
    BY <2>1 DEF Write
  <2>3. WritesOK'
    BY <1>0, <1>1, <2>2 DEF RetryDue, WritesOK
  <2>4. row' \in [Jobs -> Row]
    BY <1>0, <1>1, <2>1 DEF RetryDue, StoreTypeOK
  <2>5. StoreTypeOK'
    BY <1>0, <1>1, <2>4 DEF RetryDue, StoreTypeOK
  <2>6. MemoryOK' /\ WorkersOK' /\ HandlersOK' /\ HistoryOK'
    BY <1>0, <1>1 DEF RetryDue, podVars, queueVars, workerVars, handlerVars, history,
                      MemoryOK, WorkersOK, HandlersOK, HistoryOK
  <2> QED BY <2>3, <2>5, <2>6, TypeInvPartsNext
<1>2. ASSUME NEW u \in writes, LandOrphan(u) PROVE TypeInv'
  <2>1. StoreTypeOK' /\ WritesOK'
    BY <1>0, <1>2, LandType DEF LandOrphan, Land, WritesOK
  <2>2. MemoryOK' /\ WorkersOK' /\ HandlersOK' /\ HistoryOK'
    BY <1>0, <1>2 DEF LandOrphan, podVars, queueVars, workerVars, handlerVars, history,
                      MemoryOK, WorkersOK, HandlersOK, HistoryOK
  <2> QED BY <2>1, <2>2, TypeInvPartsNext
<1>3. ASSUME NEW t \in Tenants, Clear(t) PROVE TypeInv'
  <2>1. StoreTypeOK' /\ WritesOK'
    <3>1. row' \in [Jobs -> Row]
      BY <1>0, <1>3, RowConstants DEF Clear, ClearTenant, StoreTypeOK
    <3>2. index' \in [Commits -> 0 .. MaxGen]
      BY <1>0, <1>3 DEF Clear, ClearTenant, StoreTypeOK, StoreAssumption
    <3>3. session' \in [Sessions ->
            [job : Jobs \cup {NoJob}, status : Statuses \cup {"ABSENT"}]]
      BY <1>0, <1>3 DEF Clear, ClearTenant, StoreTypeOK, NoSession
    <3> QED BY <1>0, <1>3, <3>1, <3>2, <3>3 DEF Clear, ClearTenant, StoreTypeOK, WritesOK
  <2>2. HistoryOK'
    BY <1>0, <1>3, CounterType DEF Clear
  <2>3. MemoryOK' /\ WorkersOK' /\ HandlersOK'
    BY <1>0, <1>3 DEF Clear, podVars, queueVars, workerVars, handlerVars,
                      MemoryOK, WorkersOK, HandlersOK
  <2> QED BY <2>1, <2>2, <2>3, TypeInvPartsNext
<1> QED BY <1>1, <1>2, <1>3

\* Recovery and delayed tasks of one pod.
LEMMA RecoveryStep ==
  ASSUME TypeInv, StoreAssumption, NEW p \in Pods, NEW j \in Jobs,
         Recover(p, j) \/ BeginStale(p, j) \/ EndStale(p) \/ DelayedEnqueue(p, j)
  PROVE  TypeInv'
<1>0. StoreTypeOK /\ WritesOK /\ MemoryOK /\ WorkersOK /\ HandlersOK /\ HistoryOK
  BY TypeInvParts
<1>1. CASE Recover(p, j)
  <2>1. StoreTypeOK' /\ writes' = writes
    <3>1. CASE UNCHANGED storeVars
      BY <1>0, <3>1 DEF storeVars, StoreTypeOK
    <3>2. CASE Transition(j, listed[p][j], "RECEIVED")
      BY <1>0, <3>2, TransitionType DEF Statuses, Pending
    <3> QED BY <1>1, <3>1, <3>2 DEF Recover
  <2>2. delayed' \in [Pods -> [Jobs -> Nat]]
    BY <1>0, <1>1, DelayType DEF Recover, MemoryOK, queueVars
  <2>3. queue' \in [Pods -> Seq(Jobs \cup {Poison})]
    BY <1>0, <1>1, OfferType DEF Recover, MemoryOK, queueVars
  <2>4. listed' \in [Pods -> [Jobs -> Pending \cup {"ABSENT"}]]
    BY <1>0, <1>1 DEF Recover, Recovered, MemoryOK
  <2>5. MemoryOK'
    BY <1>0, <1>1, <2>2, <2>3, <2>4 DEF Recover, MemoryOK
  <2>6. WritesOK' /\ WorkersOK' /\ HandlersOK' /\ HistoryOK'
    BY <1>0, <1>1, <2>1 DEF Recover, workerVars, handlerVars, history,
                            WritesOK, WorkersOK, HandlersOK, HistoryOK
  <2> QED BY <2>1, <2>5, <2>6, TypeInvPartsNext
<1>2. CASE BeginStale(p, j)
  <2>1. <<"recovery", p>> \in Actors /\ "stale" \in Ops
    BY DEF Actors, Ops
  <2>2. StoreTypeOK' /\ WritesOK'
    BY <1>0, <1>2, <2>1, ReadType DEF BeginStale, WritesOK
  <2>3. MemoryOK' /\ WorkersOK' /\ HandlersOK' /\ HistoryOK'
    BY <1>0, <1>2 DEF BeginStale, podVars, queueVars, workerVars, handlerVars, history,
                      MemoryOK, WorkersOK, HandlersOK, HistoryOK
  <2> QED BY <2>2, <2>3, TypeInvPartsNext
<1>3. CASE EndStale(p)
  <2>1. PICK u \in AwaitedBy(<<"recovery", p>>) : Land(u) /\ Recovered(p, u.job)
    BY <1>3 DEF EndStale
  <2>2. u \in Write /\ u.job \in Jobs
    BY <1>0, <2>1 DEF AwaitedBy, WritesOK, Write
  <2>3. StoreTypeOK' /\ WritesOK'
    BY <1>0, <2>1, <2>2, LandType DEF Land, WritesOK
  <2>4. MemoryOK'
    BY <1>0, <1>3, <2>1, <2>2 DEF EndStale, Recovered, MemoryOK, queueVars
  <2>5. WorkersOK' /\ HandlersOK' /\ HistoryOK'
    BY <1>0, <1>3 DEF EndStale, workerVars, handlerVars, history,
                      WorkersOK, HandlersOK, HistoryOK
  <2> QED BY <2>3, <2>4, <2>5, TypeInvPartsNext
<1>4. CASE DelayedEnqueue(p, j)
  <2>1. delayed[p] \in [Jobs -> Nat] /\ delayed[p][j] - 1 \in Nat
    BY <1>0, <1>4 DEF DelayedEnqueue, MemoryOK
  <2>2. [delayed[p] EXCEPT ![j] = delayed[p][j] - 1] \in [Jobs -> Nat]
    BY <2>1
  <2>3. delayed' \in [Pods -> [Jobs -> Nat]]
    BY <1>0, <1>4, <2>2 DEF DelayedEnqueue, MemoryOK
  <2>4. MemoryOK'
    BY <1>0, <1>4, <2>3, OfferType DEF DelayedEnqueue, MemoryOK, podVars
  <2>5. StoreTypeOK' /\ WritesOK' /\ WorkersOK' /\ HandlersOK' /\ HistoryOK'
    BY <1>0, <1>4 DEF DelayedEnqueue, storeVars, workerVars, handlerVars, history,
                      StoreTypeOK, WritesOK, WorkersOK, HandlersOK, HistoryOK
  <2> QED BY <2>4, <2>5, TypeInvPartsNext
<1> QED BY <1>1, <1>2, <1>3, <1>4

\* The start of a pod, and its ends.
LEMMA LifeStep ==
  ASSUME TypeInv, StoreAssumption, PipelineAssumption, BoundAssumption, NEW p \in Pods,
         \/ Start(p) \/ Serve(p) \/ RecoveryFails(p)
         \/ Stop(p) \/ StopStep(p) \/ Crash(p)
  PROVE  TypeInv'
<1>0. StoreTypeOK /\ WritesOK /\ MemoryOK /\ WorkersOK /\ HandlersOK /\ HistoryOK
  BY TypeInvParts
<1>1. CASE Start(p)
  <2>1. listed' \in [Pods -> [Jobs -> Pending \cup {"ABSENT"}]]
    BY <1>0, <1>1 DEF Start, Recoverable, MemoryOK
  <2>2. MemoryOK'
    BY <1>0, <1>1, <2>1 DEF Start, Recoverable, MemoryOK, queueVars
  <2>3. WorkersOK'
    BY <1>0, <1>1 DEF Start, Recoverable, IdleWorkers, WorkersOK, WorkerPc
  <2>4. HistoryOK'
    BY <1>0, <1>1, CounterType DEF Start, Recoverable
  <2>5. StoreTypeOK' /\ WritesOK' /\ HandlersOK'
    BY <1>0, <1>1 DEF Start, Recoverable, storeVars, handlerVars, StoreTypeOK, WritesOK, HandlersOK
  <2> QED BY <2>2, <2>3, <2>4, <2>5, TypeInvPartsNext
<1>2. CASE Serve(p)
  <2>1. MemoryOK'
    BY <1>0, <1>2 DEF Serve, MemoryOK, queueVars
  <2>2. StoreTypeOK' /\ WritesOK' /\ WorkersOK' /\ HandlersOK' /\ HistoryOK'
    BY <1>0, <1>2 DEF Serve, storeVars, workerVars, handlerVars, history,
                      StoreTypeOK, WritesOK, WorkersOK, HandlersOK, HistoryOK
  <2> QED BY <2>1, <2>2, TypeInvPartsNext
<1>3. CASE RecoveryFails(p)
  <2>1. MemoryOK'
    BY <1>0, <1>3 DEF RecoveryFails, MemoryOK, queueVars
  <2>2. HistoryOK'
    BY <1>0, <1>3, CounterType DEF RecoveryFails
  <2>3. StoreTypeOK' /\ WritesOK' /\ WorkersOK' /\ HandlersOK'
    BY <1>0, <1>3 DEF RecoveryFails, workerVars, handlerVars,
                      StoreTypeOK, WritesOK, WorkersOK, HandlersOK
  <2> QED BY <2>1, <2>2, <2>3, TypeInvPartsNext
<1>4. CASE Stop(p)
  <2>1. WorkerCount \in 0 .. WorkerCount
    BY PipelineAssumption
  <2>2. MemoryOK'
    BY <1>0, <1>4, <2>1 DEF Stop, MemoryOK, queueVars
  <2>3. StoreTypeOK' /\ WritesOK' /\ WorkersOK' /\ HandlersOK' /\ HistoryOK'
    BY <1>0, <1>4 DEF Stop, storeVars, workerVars, handlerVars, history,
                      StoreTypeOK, WritesOK, WorkersOK, HandlersOK, HistoryOK
  <2> QED BY <2>2, <2>3, TypeInvPartsNext
<1>5. CASE PutPoison(p)
  <2>1. poisons[p] - 1 \in 0 .. WorkerCount
    BY <1>0, <1>5, PipelineAssumption DEF PutPoison, MemoryOK
  <2>2. Append(queue[p], Poison) \in Seq(Jobs \cup {Poison})
    BY <1>0 DEF MemoryOK
  <2>3. MemoryOK'
    BY <1>0, <1>5, <2>1, <2>2 DEF PutPoison, MemoryOK
  <2>4. StoreTypeOK' /\ WritesOK' /\ WorkersOK' /\ HandlersOK' /\ HistoryOK'
    BY <1>0, <1>5 DEF PutPoison, storeVars, workerVars, handlerVars, history,
                      StoreTypeOK, WritesOK, WorkersOK, HandlersOK, HistoryOK
  <2> QED BY <2>3, <2>4, TypeInvPartsNext
<1>6. CASE StopEnds(p)
  <2>1. WritesOK'
    <3>1. \A u \in Write : [u EXCEPT !.live = FALSE] \in Write
      BY DEF Write
    <3> QED BY <1>0, <1>6, <3>1 DEF StopEnds, WritesOK
  <2>2. MemoryOK'
    BY <1>0, <1>6 DEF StopEnds, MemoryOK
  <2>3. WorkersOK'
    BY <1>0, <1>6 DEF StopEnds, NoWorkers, WorkersOK, WorkerPc
  <2>4. StoreTypeOK' /\ HandlersOK' /\ HistoryOK'
    BY <1>0, <1>6 DEF StopEnds, handlerVars, history, StoreTypeOK, HandlersOK, HistoryOK
  <2> QED BY <2>1, <2>2, <2>3, <2>4, TypeInvPartsNext
<1>7. CASE Exit(p)
  <2>1. MemoryOK'
    BY <1>0, <1>7 DEF Exit, MemoryOK, queueVars
  <2>2. StoreTypeOK' /\ WritesOK' /\ WorkersOK' /\ HandlersOK' /\ HistoryOK'
    BY <1>0, <1>7 DEF Exit, storeVars, workerVars, handlerVars, history,
                      StoreTypeOK, WritesOK, WorkersOK, HandlersOK, HistoryOK
  <2> QED BY <2>1, <2>2, TypeInvPartsNext
<1>8. CASE Crash(p)
  <2>1. MemoryOK'
    BY <1>0, <1>8, PipelineAssumption DEF Crash, MemoryOK
  <2>2. WorkersOK'
    BY <1>0, <1>8 DEF Crash, NoWorkers, WorkersOK, WorkerPc
  <2>3. HandlersOK'
    BY <1>0, <1>8 DEF Crash, HandlersOK
  <2>4. StoreTypeOK' /\ WritesOK' /\ HistoryOK'
    BY <1>0, <1>8 DEF Crash, history, StoreTypeOK, WritesOK, HistoryOK
  <2> QED BY <2>1, <2>2, <2>3, <2>4, TypeInvPartsNext
<1> QED BY <1>1, <1>2, <1>3, <1>4, <1>5, <1>6, <1>7, <1>8 DEF StopStep

LEMMA TypeInitially ==
  ASSUME StoreAssumption, PipelineAssumption, BoundAssumption, PipelineInit
  PROVE  TypeInv
<1>1. StoreTypeOK /\ WritesOK
  BY RowConstants
  DEF PipelineInit, StoreInit, StoreTypeOK, WritesOK, NoSession, StoreAssumption
<1>2. MemoryOK
  BY PipelineAssumption DEF PipelineInit, MemoryOK
<1>3. WorkersOK /\ HandlersOK
  BY DEF PipelineInit, WorkersOK, HandlersOK, WorkerPc
<1>4. HistoryOK
  BY BoundAssumption DEF PipelineInit, HistoryOK
<1> QED BY <1>1, <1>2, <1>3, <1>4, TypeInvParts

LEMMA TypeStep ==
  ASSUME StoreAssumption, PipelineAssumption, BoundAssumption, TypeInv, [Next]_vars
  PROVE  TypeInv'
<1>0. StoreTypeOK /\ WritesOK /\ MemoryOK /\ WorkersOK /\ HandlersOK /\ HistoryOK
  BY TypeInvParts
<1>1. ASSUME NEW w \in Workers, WorkerStep(w) PROVE TypeInv'
  <2>1. CASE Get(w) \/ Fetch(w) \/ AcquireGlobal(w) \/ AcquireTenant(w)
    <3>1. WorkersOK' /\ MemoryOK'
      BY <1>0, <2>1, QueueStep
    <3>2. StoreTypeOK' /\ WritesOK' /\ HandlersOK' /\ HistoryOK'
      BY <1>0, <2>1 DEF Get, Fetch, AcquireGlobal, AcquireTenant, storeVars, handlerVars,
                        history, StoreTypeOK, WritesOK, HandlersOK, HistoryOK
    <3> QED BY <3>1, <3>2, TypeInvPartsNext
  <2>2. CASE Load(w) \/ Prepare(w) \/ Extract(w) \/ SessionWrite(w) \/ JudgeTimeout(w)
    <3>1. WorkersOK'
      BY <1>0, <2>2, RunStep
    <3>2. StoreTypeOK' /\ WritesOK' /\ MemoryOK' /\ HandlersOK' /\ HistoryOK'
      BY <1>0, <2>2 DEF Load, Prepare, Extract, SessionWrite, JudgeTimeout, storeVars,
                        podVars, queueVars, handlerVars, history,
                        StoreTypeOK, WritesOK, MemoryOK, HandlersOK, HistoryOK
    <3> QED BY <3>1, <3>2, TypeInvPartsNext
  <2>3. CASE Claim(w)
    <3>1. StoreTypeOK' /\ WritesOK' /\ WorkersOK'
      BY <1>0, <2>3, ClaimStep
    <3>2. MemoryOK' /\ HandlersOK' /\ HistoryOK'
      BY <1>0, <2>3 DEF Claim, podVars, queueVars, handlerVars, history,
                        MemoryOK, HandlersOK, HistoryOK
    <3> QED BY <3>1, <3>2, TypeInvPartsNext
  <2>4. CASE BeginUpdate(w) \/ EndUpdate(w) \/ SkipUpdate(w)
    <3>1. StoreTypeOK' /\ WritesOK' /\ WorkersOK' /\ MemoryOK'
      BY <1>0, <2>4, UpdateStep
    <3>2. HandlersOK' /\ HistoryOK'
      BY <1>0, <2>4 DEF BeginUpdate, EndUpdate, SkipUpdate, handlerVars, history,
                        HandlersOK, HistoryOK
    <3> QED BY <3>1, <3>2, TypeInvPartsNext
  <2> QED BY <1>1, <2>1, <2>2, <2>3, <2>4 DEF WorkerStep
<1>2. ASSUME NEW w \in Workers, Expire(w) \/ StoreFails(w) PROVE TypeInv'
  <2>1. StoreTypeOK' /\ WritesOK' /\ WorkersOK' /\ HistoryOK'
    BY <1>2, FaultStep
  <2>2. MemoryOK' /\ HandlersOK'
    BY <1>0, <1>2 DEF Expire, StoreFails, podVars, queueVars, handlerVars, MemoryOK, HandlersOK
  <2> QED BY <2>1, <2>2, TypeInvPartsNext
<1>3. ASSUME NEW h \in Handlers, Request(h) \/ HandlerStep(h) PROVE TypeInv'
  BY <1>3, RequestStep, HandlerStepType
<1>4. ASSUME \/ \E j \in Jobs : RetryDue(j)
             \/ \E u \in writes : LandOrphan(u)
             \/ \E t \in Tenants : Clear(t)
      PROVE  TypeInv'
  BY <1>4, OutsideStep
<1>5. ASSUME NEW p \in Pods, EndStale(p) PROVE TypeInv'
  <2>1. Jobs # {}
    <3>1. PICK u \in AwaitedBy(<<"recovery", p>>) : TRUE
      BY <1>5 DEF EndStale
    <3> QED BY <1>0, <3>1 DEF AwaitedBy, WritesOK, Write
  <2> QED BY <1>5, <2>1, RecoveryStep
<1>6. ASSUME NEW p \in Pods, NEW j \in Jobs,
             Recover(p, j) \/ DelayedEnqueue(p, j) \/ BeginStale(p, j)
      PROVE  TypeInv'
  BY <1>6, RecoveryStep
<1>7. ASSUME NEW p \in Pods, Start(p) \/ Serve(p) \/ RecoveryFails(p)
                             \/ Stop(p) \/ StopStep(p) \/ Crash(p)
      PROVE  TypeInv'
  BY <1>7, LifeStep
<1>8. CASE UNCHANGED vars
  BY <1>0, <1>8, TypeInvPartsNext
  DEF vars, storeVars, podVars, queueVars, workerVars, handlerVars, history,
      StoreTypeOK, WritesOK, MemoryOK, WorkersOK, HandlersOK, HistoryOK
<1> QED BY <1>1, <1>2, <1>3, <1>4, <1>5, <1>6, <1>7, <1>8 DEF Next, PodStep

\* Every reachable state is well typed: in particular every queue entry, delayed
\* task, listed job and pending write refers to a job id the store handed out.
THEOREM TypeCorrect == Spec => []TypeOK
<1>1. PipelineInit => TypeInv
  BY TypeInitially, StoreAssumption, PipelineAssumption, BoundAssumption
<1>2. TypeInv /\ [Next]_vars => TypeInv'
  BY TypeStep, StoreAssumption, PipelineAssumption, BoundAssumption
<1>3. TypeInv => TypeOK
  BY DEF TypeInv
<1> QED BY <1>1, <1>2, <1>3, PTL DEF Spec
-----------------------------------------------------------------------------
(* With PostgreSQL a deleted job stays deleted.                            *)

LEMMA SameRowsDeleted == UNCHANGED row => StaysDeleted
  BY DEF StaysDeleted, Present

LEMMA LandDeleted ==
  ASSUME Backend = "pg", TypeInv, NEW u \in writes, Land(u)
  PROVE  StaysDeleted
<1>1. u \in Write /\ row \in [Jobs -> Row]
  BY DEF TypeInv, TypeOK, StoreTypeOK
<1>2. \A j \in Jobs : j # u.job => row'[j] = row[j]
  BY <1>1 DEF Land
<1>3. ~Present(u.job) => row'[u.job].status = "ABSENT"
  BY <1>1 DEF Land, Landed, Absent, Present
<1> QED BY <1>2, <1>3 DEF StaysDeleted, Present

LEMMA TransitionDeleted ==
  ASSUME TypeInv, NEW k \in Jobs, NEW from \in Statuses, NEW to, Transition(k, from, to)
  PROVE  StaysDeleted
<1>1. row \in [Jobs -> Row] /\ from # "ABSENT"
  BY DEF TypeInv, TypeOK, StoreTypeOK, Statuses, Pending, Failures
<1> QED BY <1>1 DEF Transition, StaysDeleted, Present

LEMMA DeletedStep ==
  ASSUME Backend = "pg", TypeInv, [Next]_vars
  PROVE  StaysDeleted
<1>0. /\ row \in [Jobs -> Row] /\ created \in [Commits -> 0 .. MaxGen]
      /\ listed \in [Pods -> [Jobs -> Pending \cup {"ABSENT"}]]
  BY DEF TypeInv, TypeOK, StoreTypeOK
<1>1. ASSUME NEW w \in Workers, WorkerStep(w) \/ Expire(w) \/ StoreFails(w)
      PROVE  StaysDeleted
  <2>1. CASE Claim(w)
    <3>1. wjob[w] \in Jobs /\ "RECEIVED" \in Statuses
      BY <2>1 DEF Claim, TypeInv, JobsInHand, Statuses, Pending
    <3> QED BY <2>1, <3>1, SameRowsDeleted, TransitionDeleted DEF Claim, storeVars
  <2>2. CASE EndUpdate(w)
    BY <2>2, LandDeleted DEF EndUpdate, AwaitedBy
  <2>3. CASE UNCHANGED row
    BY <2>3, SameRowsDeleted
  <2>4. ~Claim(w) /\ ~EndUpdate(w) => UNCHANGED row
    BY <1>1 DEF WorkerStep, Get, Fetch, AcquireGlobal, AcquireTenant, Load, Prepare, Extract,
                SessionWrite, BeginUpdate, SkipUpdate, JudgeTimeout, Expire, StoreFails,
                Read, storeVars
  <2> QED BY <2>1, <2>2, <2>3, <2>4
<1>2. ASSUME NEW h \in Handlers, Request(h) PROVE StaysDeleted
  <2>1. ASSUME NEW c \in Commits, NEW text \in Texts, Create(c, text) PROVE StaysDeleted
    <3>1. SUFFICES ASSUME NEW j \in Jobs, ~Present(j), j[2] <= created[j[1]]
                   PROVE  row'[j].status = "ABSENT"
      BY DEF StaysDeleted
    <3>2. created[c] \in Nat /\ ~(created[c] + 1 <= created[c])
      BY <1>0, StoreAssumption
    <3>3. j # <<c, created[c] + 1>>
      BY <3>1, <3>2
    <3> QED BY <2>1, <3>1, <3>3 DEF Create, Present, Absent
  <2> QED BY <1>2, <2>1, SameRowsDeleted DEF Request, Submit, Execute, storeVars
<1>3. ASSUME NEW h \in Handlers, HandlerStep(h) PROVE StaysDeleted
  BY <1>3, LandDeleted, SameRowsDeleted
  DEF HandlerStep, Accept, BeginRefusal, EndRefusal, SkipRefusal, AwaitedBy, Read, storeVars
<1>4. ASSUME NEW k \in Jobs, RetryDue(k) PROVE StaysDeleted
  BY <1>0, <1>4 DEF RetryDue, StaysDeleted, Present, Row
<1>5. ASSUME NEW u \in writes, LandOrphan(u) PROVE StaysDeleted
  BY <1>5, LandDeleted DEF LandOrphan
<1>6. ASSUME NEW t \in Tenants, Clear(t) PROVE StaysDeleted
  BY <1>6 DEF Clear, ClearTenant, StaysDeleted, Present, Absent
<1>7. ASSUME NEW p \in Pods, NEW k \in Jobs, Recover(p, k) PROVE StaysDeleted
  <2>1. CASE Transition(k, listed[p][k], "RECEIVED")
    <3>1. listed[p][k] \in Statuses
      BY <1>0, <1>7 DEF Recover, Recovering, Statuses
    <3> QED BY <2>1, <3>1, TransitionDeleted
  <2> QED BY <1>7, <2>1, SameRowsDeleted DEF Recover, storeVars
<1>8. ASSUME NEW p \in Pods, EndStale(p) PROVE StaysDeleted
  BY <1>8, LandDeleted DEF EndStale, AwaitedBy
<1>9. ASSUME NEW p \in Pods,
             \/ Start(p) \/ Serve(p) \/ RecoveryFails(p) \/ Stop(p) \/ StopStep(p) \/ Crash(p)
             \/ \E k \in Jobs : DelayedEnqueue(p, k) \/ BeginStale(p, k)
      PROVE  StaysDeleted
  BY <1>9, SameRowsDeleted
  DEF Start, Recoverable, Serve, RecoveryFails, Stop, StopStep, PutPoison, StopEnds, Exit, Crash,
      DelayedEnqueue, BeginStale, Read, storeVars
<1>10. CASE UNCHANGED vars
  BY <1>10, SameRowsDeleted DEF vars, storeVars
<1> QED BY <1>1, <1>2, <1>3, <1>4, <1>5, <1>6, <1>7, <1>8, <1>9, <1>10 DEF Next, PodStep

\* With the PostgreSQL store a job that create_job dropped, or that was cleared
\* with its tenant, never comes back, whichever runner, handler, orphaned
\* statement or recovery still works on it: the UPDATE finds no row.  (SQLite
\* upserts the whole row, and there it does come back.)
THEOREM DeletedForGood == ASSUME Backend = "pg" PROVE Spec => DeletedStaysDeleted
<1>1. PipelineInit => TypeInv
  BY TypeInitially, StoreAssumption, PipelineAssumption, BoundAssumption
<1>2. TypeInv /\ [Next]_vars => TypeInv'
  BY TypeStep, StoreAssumption, PipelineAssumption, BoundAssumption
<1>3. TypeInv /\ [Next]_vars => [StaysDeleted]_vars
  BY DeletedStep
<1> QED BY <1>1, <1>2, <1>3, PTL DEF Spec, DeletedStaysDeleted
-----------------------------------------------------------------------------
(* The runners of a job.                                                    *)

\* A worker that has claimed a job and has not let go of it.
Engaged(w) == wpc[w] \in Owning \cup Settling

Known(j) == j[2] <= created[j[1]]

\* Jobs that are stored, or written back, or run, have been created.
Created ==
  /\ \A j \in Jobs : Present(j) => Known(j)
  /\ \A u \in writes : Known(u.job)
  /\ \A w \in Workers : Engaged(w) => Known(wjob[w])

\* An engaged worker has its job for itself, and the job is not up for a claim.
Exclusive ==
  /\ \A v, w \in Workers : Engaged(v) /\ Engaged(w) /\ wjob[v] = wjob[w] => v = w
  /\ \A w \in Workers : Engaged(w) => row[wjob[w]].status # "RECEIVED"

\* A write that makes a job RECEIVED again comes from the worker that holds it,
\* or from a pod whose workers are gone.
Release(u) ==
  \/ /\ u.live
     /\ \E w \in Workers : /\ u.by = <<"worker", w>> /\ u.pod = w[1]
                           /\ wpc[w] = "retry" /\ wjob[w] = u.job
  \/ ~u.live /\ pod[u.pod] = "exiting"

ReleasesOK == \A u \in writes : u.row.status = "RECEIVED" => Release(u)

\* A worker awaits one write at a time.
OneWrite == \A w \in Workers : \A u, v \in AwaitedBy(<<"worker", w>>) : u = v

\* A pod that is not running has no work in memory.
Gone ==
  \A p \in Pods : pod[p] \in {"down", "exiting"} =>
    /\ queue[p] = << >>
    /\ \A j \in Jobs : delayed[p][j] = 0
    /\ \A w \in Workers : w[1] = p => wpc[w] = "exited" /\ wjob[w] = NoJob

\* A request is in progress only while its pod serves.
Served == \A h \in Handlers : hpc[h] # "idle" => pod[hpod[h]] = "up"

\* A job that recovery still has to look at is nowhere else in that pod.
Unseen(p, j) ==
  /\ \A i \in 1 .. Len(queue[p]) : queue[p][i] # j
  /\ delayed[p][j] = 0
  /\ \A w \in Workers : w[1] = p => wjob[w] # j

ListedUnseen ==
  \A p \in Pods, j \in Jobs :
    pod[p] = "recovering" /\ listed[p][j] # "ABSENT" => Unseen(p, j)

\* Without restarts no pod ever leaves the state it started in.
NoRestart ==
  MaxStarts = 0 => \A p \in Pods : pod[p] \in {"up", "down"}

MemoryInv == Gone /\ Served /\ ListedUnseen /\ NoRestart
ClaimInv == Created /\ Exclusive /\ ReleasesOK /\ OneWrite
IInv == TypeInv /\ MemoryInv /\ ClaimInv

\* The deployments the theorem is about.
OneProcess == \E p \in Pods : Pods = {p}
NoneRestarts == MaxStarts = 0
-----------------------------------------------------------------------------
(* What a step of a worker leaves alone.                                   *)

WorkerMove(w) == WorkerStep(w) \/ Expire(w) \/ StoreFails(w)

LEMMA WorkerAlone ==
  ASSUME TypeInv, NEW w \in Workers, WorkerMove(w)
  PROVE  /\ \A v \in Workers : v # w => wpc'[v] = wpc[v] /\ wjob'[v] = wjob[v]
         /\ wpc[w] # "exited"
         /\ UNCHANGED <<pod, listed, hpc, hpod>>
<1>0. wpc \in [Workers -> WorkerPc] /\ wjob \in [Workers -> Jobs \cup {NoJob}]
  BY DEF TypeInv, TypeOK
<1>1. CASE Get(w) \/ Fetch(w) \/ AcquireGlobal(w) \/ AcquireTenant(w)
  BY <1>0, <1>1 DEF Get, Fetch, AcquireGlobal, AcquireTenant, Goto, Finish, podVars, handlerVars
<1>2. CASE Load(w) \/ Claim(w) \/ Prepare(w) \/ Extract(w) \/ SessionWrite(w)
  BY <1>0, <1>2 DEF Load, Claim, Prepare, Extract, SessionWrite, Goto, Finish, podVars, handlerVars
<1>3. CASE BeginUpdate(w)
  BY <1>0, <1>3 DEF BeginUpdate, UpdateOps, workerVars, podVars, handlerVars
<1>4. CASE EndUpdate(w)
  BY <1>0, <1>4 DEF EndUpdate, AfterUpdate, Goto, Finish, UpdateOps, podVars, handlerVars
<1>5. CASE SkipUpdate(w)
  BY <1>0, <1>5 DEF SkipUpdate, AfterUpdate, Goto, Finish, UpdateOps, podVars, handlerVars
<1>6. CASE JudgeTimeout(w)
  BY <1>0, <1>6 DEF JudgeTimeout, Goto, podVars, handlerVars
<1>7. CASE Expire(w)
  BY <1>0, <1>7, PipelineAssumption DEF Expire, Goto, Owning, podVars, handlerVars
<1>8. CASE StoreFails(w)
  BY <1>0, <1>8 DEF StoreFails, Goto, Finish, UpdateOps, podVars, handlerVars
<1> QED BY <1>1, <1>2, <1>3, <1>4, <1>5, <1>6, <1>7, <1>8 DEF WorkerMove, WorkerStep

LEMMA WorkerQueue ==
  ASSUME TypeInv, NEW w \in Workers, WorkerMove(w)
  PROVE  \/ Get(w)
         \/ /\ queue' = queue
            /\ wjob'[w] \in {wjob[w], NoJob}
            /\ delayed' = delayed \/ (wjob[w] \in Jobs /\ Delay(w[1], wjob[w]))
<1>0. /\ wjob \in [Workers -> Jobs \cup {NoJob}]
      /\ wpc[w] \notin {"idle", "exited"} => wjob[w] \in Jobs
  BY DEF TypeInv, TypeOK, JobsInHand
<1>1. CASE Get(w) \/ Fetch(w) \/ AcquireGlobal(w) \/ AcquireTenant(w)
  BY <1>0, <1>1 DEF Fetch, AcquireGlobal, AcquireTenant, Goto, Finish, queueVars
<1>2. CASE Load(w) \/ Claim(w) \/ Prepare(w) \/ Extract(w) \/ SessionWrite(w)
  BY <1>0, <1>2 DEF Load, Claim, Prepare, Extract, SessionWrite, Goto, Finish, queueVars
<1>3. CASE BeginUpdate(w)
  BY <1>0, <1>3 DEF BeginUpdate, workerVars, queueVars
<1>4. CASE EndUpdate(w)
  BY <1>0, <1>4 DEF EndUpdate, AfterUpdate, Goto, Finish, UpdateOps
<1>5. CASE SkipUpdate(w)
  BY <1>0, <1>5 DEF SkipUpdate, AfterUpdate, Goto, Finish, UpdateOps
<1>6. CASE JudgeTimeout(w)
  BY <1>0, <1>6 DEF JudgeTimeout, Goto, queueVars
<1>7. CASE Expire(w)
  BY <1>0, <1>7 DEF Expire, Goto, queueVars
<1>8. CASE StoreFails(w)
  BY <1>0, <1>8 DEF StoreFails, Goto, Finish, queueVars
<1> QED BY <1>1, <1>2, <1>3, <1>4, <1>5, <1>6, <1>7, <1>8 DEF WorkerMove, WorkerStep
-----------------------------------------------------------------------------
(* What a process has in memory.                                           *)

\* A pod where j is unseen and that queues or delays another job still does not
\* have j.
LEMMA OfferUnseen ==
  ASSUME TypeInv, NEW p \in Pods, NEW q \in Pods, NEW j \in Jobs, NEW k \in Jobs \cup {Poison},
         Unseen(p, j), q = p => k # j,
         queue' = queue \/ queue' = [queue EXCEPT ![q] = Append(@, k)]
  PROVE  \A i \in 1 .. Len(queue'[p]) : queue'[p][i] # j
<1>1. queue \in [Pods -> Seq(Jobs \cup {Poison})]
  BY DEF TypeInv, TypeOK
<1>2. CASE queue' = queue
  BY <1>2 DEF Unseen
<1>3. CASE queue' = [queue EXCEPT ![q] = Append(@, k)]
  <2>1. CASE q = p
    <3>1. queue'[p] = Append(queue[p], k) /\ queue[p] \in Seq(Jobs \cup {Poison})
      BY <1>1, <1>3, <2>1
    <3> QED BY <2>1, <3>1 DEF Unseen
  <2>2. CASE q # p
    BY <1>1, <1>3, <2>2 DEF Unseen
  <2> QED BY <2>1, <2>2
<1> QED BY <1>2, <1>3

LEMMA DelayUnseen ==
  ASSUME TypeInv, NEW p \in Pods, NEW q \in Pods, NEW j \in Jobs, NEW k \in Jobs,
         Unseen(p, j), q = p => k # j, Delay(q, k)
  PROVE  delayed'[p][j] = 0
<1>1. delayed \in [Pods -> [Jobs -> Nat]]
  BY DEF TypeInv, TypeOK
<1> QED BY <1>1 DEF Delay, Unseen

\* A worker takes what its queue has, and delays what it has taken.
LEMMA WorkerUnseen ==
  ASSUME TypeInv, NEW w \in Workers, WorkerMove(w), NEW p \in Pods, NEW j \in Jobs,
         Unseen(p, j)
  PROVE  Unseen(p, j)'
<1>0. /\ w[1] \in Pods
      /\ queue \in [Pods -> Seq(Jobs \cup {Poison})]
      /\ wjob \in [Workers -> Jobs \cup {NoJob}]
  BY DEF TypeInv, TypeOK, Workers
<1>1. \A v \in Workers : v # w => wjob'[v] = wjob[v]
  BY WorkerAlone
<1>2. CASE Get(w)
  <2>1. delayed' = delayed
    BY <1>2 DEF Get
  <2>2. queue[w[1]] \in Seq(Jobs \cup {Poison}) /\ queue[w[1]] # << >>
    BY <1>0, <1>2 DEF Get
  <2>3. \A i \in 1 .. Len(Tail(queue[w[1]])) :
          Tail(queue[w[1]])[i] = queue[w[1]][i + 1] /\ i + 1 \in 1 .. Len(queue[w[1]])
    BY <2>2
  <2>4. \A i \in 1 .. Len(queue'[p]) : queue'[p][i] # j
    BY <1>0, <1>2, <2>3 DEF Get, Unseen
  <2>5. w[1] = p => Head(queue[p]) # j
    BY <2>2 DEF Unseen
  <2>6. w[1] = p => wjob'[w] # j
    BY <1>0, <1>2, <2>5 DEF Get, Unseen
  <2> QED BY <1>1, <2>1, <2>4, <2>6 DEF Unseen
<1>3. CASE ~Get(w)
  <2>1. /\ queue' = queue
        /\ wjob'[w] \in {wjob[w], NoJob}
        /\ delayed' = delayed \/ (wjob[w] \in Jobs /\ Delay(w[1], wjob[w]))
    BY <1>3, WorkerQueue
  <2>2. delayed'[p][j] = 0
    BY <1>0, <2>1, DelayUnseen DEF Unseen
  <2>3. w[1] = p => wjob'[w] # j
    BY <2>1, NoJobIsNoJob DEF Unseen
  <2> QED BY <1>1, <2>1, <2>2, <2>3 DEF Unseen
<1> QED BY <1>2, <1>3

LEMMA WorkerMemory ==
  ASSUME TypeInv, MemoryInv, NEW w \in Workers, WorkerMove(w)
  PROVE  MemoryInv'
<1>0. w[1] \in Pods /\ wpc[w] # "exited"
  BY WorkerAlone DEF Workers
<1>1. UNCHANGED <<pod, listed, hpc, hpod>>
  BY WorkerAlone
<1>2. pod[w[1]] \notin {"down", "exiting"}
  BY <1>0 DEF MemoryInv, Gone
<1>3. \A p \in Pods : p # w[1] => queue'[p] = queue[p] /\ delayed'[p] = delayed[p]
  <2>1. queue \in [Pods -> Seq(Jobs \cup {Poison})] /\ delayed \in [Pods -> [Jobs -> Nat]]
    BY DEF TypeInv, TypeOK
  <2>2. CASE Get(w)
    BY <2>1, <2>2 DEF Get
  <2>3. CASE ~Get(w)
    BY <2>1, <2>3, WorkerQueue DEF Delay
  <2> QED BY <2>2, <2>3
<1>4. Gone'
  BY <1>1, <1>2, <1>3, WorkerAlone DEF MemoryInv, Gone
<1>5. ListedUnseen'
  BY <1>1, WorkerUnseen DEF MemoryInv, ListedUnseen
<1> QED BY <1>1, <1>4, <1>5 DEF MemoryInv, Served, NoRestart

\* Nothing that is only about the store or the counters matters to the memory.
LEMMA SameMemory ==
  ASSUME MemoryInv, UNCHANGED <<pod, listed, queue, delayed, wpc, wjob, hpc, hpod>>
  PROVE  MemoryInv'
  BY DEF MemoryInv, Gone, Served, ListedUnseen, Unseen, NoRestart

LEMMA HandlerMemory ==
  ASSUME TypeInv, MemoryInv, NEW h \in Handlers, Request(h) \/ HandlerStep(h)
  PROVE  MemoryInv'
<1>0. /\ hpc \in [Handlers -> {"idle", "created", "enqfail"}]
      /\ hpod \in [Handlers -> Pods]
      /\ queue \in [Pods -> Seq(Jobs \cup {Poison})]
  BY DEF TypeInv, TypeOK
<1>1. UNCHANGED <<pod, listed, delayed, wpc, wjob>>
  BY DEF Request, HandlerStep, Submit, Execute, Accept, BeginRefusal, EndRefusal,
         SkipRefusal, podVars, queueVars, workerVars
<1>2. Served'
  <2>1. \A g \in Handlers : g # h => hpc'[g] = hpc[g] /\ hpod'[g] = hpod[g]
    BY <1>0 DEF Request, HandlerStep, Submit, Execute, Accept, BeginRefusal, EndRefusal,
                SkipRefusal, Respond
  <2>2. pod[hpod'[h]] = "up"
    <3>1. CASE Request(h)
      BY <1>0, <3>1 DEF Request, Submit, Execute
    <3>2. CASE HandlerStep(h)
      <4>1. hpc[h] # "idle" /\ hpod' = hpod
        BY <3>2 DEF HandlerStep, Accept, BeginRefusal, EndRefusal, SkipRefusal
      <4> QED BY <4>1 DEF MemoryInv, Served
    <3> QED BY <3>1, <3>2
  <2> QED BY <1>1, <2>1, <2>2 DEF MemoryInv, Served
<1>3. \A p \in Pods : pod[p] # "up" => queue'[p] = queue[p]
  <2>1. CASE Accept(h)
    <3>1. pod[hpod[h]] = "up"
      BY <2>1 DEF MemoryInv, Served, Accept
    <3> QED BY <1>0, <2>1, <3>1 DEF Accept, Offer
  <2>2. CASE ~Accept(h)
    BY <2>2 DEF Request, HandlerStep, Submit, Execute, BeginRefusal, EndRefusal,
                SkipRefusal, queueVars
  <2> QED BY <2>1, <2>2
<1>4. Gone' /\ ListedUnseen'
  BY <1>1, <1>3 DEF MemoryInv, Gone, ListedUnseen, Unseen
<1> QED BY <1>1, <1>2, <1>4 DEF MemoryInv, NoRestart

LEMMA OutsideMemory ==
  ASSUME MemoryInv,
         \/ \E j \in Jobs : RetryDue(j)
         \/ \E u \in writes : LandOrphan(u)
         \/ \E t \in Tenants : Clear(t)
  PROVE  MemoryInv'
  BY SameMemory DEF RetryDue, LandOrphan, Clear, podVars, queueVars, workerVars, handlerVars

LEMMA RecoveryMemory ==
  ASSUME TypeInv, MemoryInv, NEW p \in Pods, NEW j \in Jobs,
         Recover(p, j) \/ BeginStale(p, j) \/ EndStale(p) \/ DelayedEnqueue(p, j)
  PROVE  MemoryInv'
<1>0. /\ queue \in [Pods -> Seq(Jobs \cup {Poison})]
      /\ delayed \in [Pods -> [Jobs -> Nat]]
      /\ listed \in [Pods -> [Jobs -> Pending \cup {"ABSENT"}]]
      /\ \A u \in writes : u \in Write
  BY DEF TypeInv, TypeOK
<1>1. UNCHANGED <<pod, wpc, wjob, hpc, hpod>>
  BY DEF Recover, BeginStale, EndStale, DelayedEnqueue, podVars, workerVars, handlerVars
<1>2. CASE BeginStale(p, j)
  BY <1>2, SameMemory DEF BeginStale, podVars, queueVars, workerVars, handlerVars
<1>3. CASE EndStale(p)
  <2>1. UNCHANGED <<queue, delayed>>
    BY <1>3 DEF EndStale, queueVars
  <2>2. PICK k \in Jobs : Recovered(p, k)
    BY <1>0, <1>3 DEF EndStale, AwaitedBy, Write
  <2>3. \A q \in Pods, i \in Jobs : listed'[q][i] # "ABSENT" => listed[q][i] # "ABSENT"
    BY <1>0, <2>2 DEF Recovered
  <2> QED BY <1>1, <2>1, <2>3 DEF MemoryInv, Gone, Served, ListedUnseen, Unseen, NoRestart
<1>4. CASE Recover(p, j)
  <2>1. pod[p] = "recovering" /\ listed[p][j] # "ABSENT"
    BY <1>4 DEF Recover, Recovering
  <2>2. /\ queue' = queue \/ queue' = [queue EXCEPT ![p] = Append(@, j)]
        /\ delayed' = delayed \/ Delay(p, j)
    BY <1>4 DEF Recover, Offer, queueVars
  <2>3. Gone'
    BY <1>0, <1>1, <2>1, <2>2 DEF MemoryInv, Gone, Delay
  <2>4. ListedUnseen'
    <3>1. SUFFICES ASSUME NEW q \in Pods, NEW i \in Jobs,
                          pod[q] = "recovering", listed'[q][i] # "ABSENT"
                   PROVE  Unseen(q, i)'
      BY <1>1 DEF ListedUnseen
    <3>2. listed[q][i] # "ABSENT" /\ (p = q => j # i)
      BY <1>0, <1>4, <3>1 DEF Recover, Recovered
    <3>3. Unseen(q, i)
      BY <3>1, <3>2 DEF MemoryInv, ListedUnseen
    <3>4. \A n \in 1 .. Len(queue'[q]) : queue'[q][n] # i
      BY <2>2, <3>2, <3>3, OfferUnseen
    <3>5. delayed'[q][i] = 0
      BY <2>2, <3>2, <3>3, DelayUnseen DEF Unseen
    <3> QED BY <1>1, <3>3, <3>4, <3>5 DEF Unseen
  <2> QED BY <1>1, <2>3, <2>4 DEF MemoryInv, Served, NoRestart
<1>5. CASE DelayedEnqueue(p, j)
  <2>1. pod[p] \in {"recovering", "up"} /\ delayed[p][j] > 0 /\ listed' = listed
    BY <1>5 DEF DelayedEnqueue, Enqueues, podVars
  <2>2. /\ queue' = queue \/ queue' = [queue EXCEPT ![p] = Append(@, j)]
        /\ delayed' = [delayed EXCEPT ![p][j] = @ - 1]
    BY <1>5 DEF DelayedEnqueue, Offer
  <2>3. Gone'
    BY <1>0, <1>1, <2>1, <2>2 DEF MemoryInv, Gone
  <2>4. ListedUnseen'
    <3>1. SUFFICES ASSUME NEW q \in Pods, NEW i \in Jobs,
                          pod[q] = "recovering", listed[q][i] # "ABSENT"
                   PROVE  Unseen(q, i)'
      BY <1>1, <2>1 DEF ListedUnseen
    <3>2. Unseen(q, i)
      BY <3>1 DEF MemoryInv, ListedUnseen
    <3>3. p = q => j # i
      BY <2>1, <3>2 DEF Unseen
    <3>4. \A n \in 1 .. Len(queue'[q]) : queue'[q][n] # i
      BY <2>2, <3>2, <3>3, OfferUnseen
    <3>5. delayed'[q][i] = 0
      BY <1>0, <2>2, <3>2, <3>3 DEF Unseen
    <3> QED BY <1>1, <3>2, <3>4, <3>5 DEF Unseen
  <2> QED BY <1>1, <2>1, <2>3, <2>4 DEF MemoryInv, Served, NoRestart
<1> QED BY <1>2, <1>3, <1>4, <1>5

\* The parts of the memory invariant that speak of a pod p, to be shown for the
\* pod that starts or ends; the other pods keep what they have.
PodMemory(p) ==
  /\ pod[p] \in {"down", "exiting"} =>
       /\ queue[p] = << >>
       /\ \A j \in Jobs : delayed[p][j] = 0
       /\ \A w \in Workers : w[1] = p => wpc[w] = "exited" /\ wjob[w] = NoJob
  /\ \A h \in Handlers : hpc[h] # "idle" /\ hpod[h] = p => pod[p] = "up"
  /\ \A j \in Jobs : pod[p] = "recovering" /\ listed[p][j] # "ABSENT" => Unseen(p, j)
  /\ MaxStarts = 0 => pod[p] \in {"up", "down"}

LEMMA MemoryByPod ==
  /\ HandlersOK  => (MemoryInv <=> \A p \in Pods : PodMemory(p))
  /\ HandlersOK' => (MemoryInv' <=> \A p \in Pods : PodMemory(p)')
  BY DEF MemoryInv, Gone, Served, ListedUnseen, NoRestart, PodMemory, HandlersOK

OnlyPod(p) ==
  /\ \A q \in Pods : q # p =>
       /\ pod'[q] = pod[q] /\ listed'[q] = listed[q]
       /\ queue'[q] = queue[q] /\ delayed'[q] = delayed[q]
  /\ \A w \in Workers : w[1] # p => wpc'[w] = wpc[w] /\ wjob'[w] = wjob[w]
  /\ \A h \in Handlers : hpod[h] # p => hpc'[h] = hpc[h]
  /\ hpod' = hpod

LEMMA LifeAlone ==
  ASSUME TypeInv, NEW p \in Pods,
         \/ Start(p) \/ Serve(p) \/ RecoveryFails(p)
         \/ Stop(p) \/ StopStep(p) \/ Crash(p)
  PROVE  OnlyPod(p)
<1>0. /\ MemoryOK /\ WorkersOK /\ HandlersOK
  BY TypeInvParts
<1>1. CASE Start(p)
  BY <1>0, <1>1 DEF OnlyPod, Start, Recoverable, IdleWorkers, queueVars, handlerVars,
                    MemoryOK, WorkersOK, HandlersOK
<1>2. CASE Serve(p) \/ RecoveryFails(p) \/ Stop(p)
  BY <1>0, <1>2 DEF OnlyPod, Serve, RecoveryFails, Stop, queueVars, workerVars, handlerVars,
                    MemoryOK, WorkersOK, HandlersOK
<1>3. CASE PutPoison(p) \/ Exit(p)
  BY <1>0, <1>3 DEF OnlyPod, PutPoison, Exit, queueVars, workerVars, handlerVars,
                    MemoryOK, WorkersOK, HandlersOK
<1>4. CASE StopEnds(p)
  BY <1>0, <1>4 DEF OnlyPod, StopEnds, NoWorkers, handlerVars,
                    MemoryOK, WorkersOK, HandlersOK
<1>5. CASE Crash(p)
  BY <1>0, <1>5 DEF OnlyPod, Crash, NoWorkers, MemoryOK, WorkersOK, HandlersOK
<1> QED BY <1>1, <1>2, <1>3, <1>4, <1>5 DEF StopStep

LEMMA LifeMemory ==
  ASSUME TypeInv, TypeInv', MemoryInv, NEW p \in Pods,
         \/ Start(p) \/ Serve(p) \/ RecoveryFails(p)
         \/ Stop(p) \/ StopStep(p) \/ Crash(p)
  PROVE  MemoryInv'
<1>0. /\ MemoryOK /\ WorkersOK /\ HandlersOK /\ HistoryOK /\ HandlersOK'
  BY TypeInvParts, TypeInvPartsNext
<1>1. \A q \in Pods : PodMemory(q)
  BY <1>0, MemoryByPod
<1>2. ASSUME NEW q \in Pods, q # p PROVE PodMemory(q)'
  BY <1>0, <1>1, <1>2, LifeAlone DEF OnlyPod, PodMemory, Unseen, HandlersOK
<1>3. PodMemory(p)'
  <2>0. PodMemory(p) /\ (MaxStarts = 0 => ~(used.starts < MaxStarts))
    BY <1>0, <1>1, BoundAssumption DEF HistoryOK
  <2>1. CASE Start(p)
    <3>1. pod[p] = "down" /\ pod'[p] = "recovering" /\ MaxStarts # 0
      BY <1>0, <2>0, <2>1 DEF Start, Recoverable, MemoryOK
    <3>2. /\ queue'[p] = << >>
          /\ \A j \in Jobs : delayed'[p][j] = 0
          /\ \A w \in Workers : w[1] = p => wjob'[w] = NoJob
          /\ \A h \in Handlers : ~(hpc'[h] # "idle" /\ hpod'[h] = p)
      BY <2>0, <2>1, <3>1 DEF Start, Recoverable, PodMemory, queueVars, handlerVars
    <3>3. \A j \in Jobs : Unseen(p, j)'
      BY <3>2, NoJobIsNoJob DEF Unseen
    <3> QED BY <3>1, <3>2, <3>3 DEF PodMemory
  <2>2. CASE Serve(p) \/ RecoveryFails(p)
    BY <1>0, <2>0, <2>2 DEF PodMemory, Serve, RecoveryFails, queueVars, workerVars, handlerVars,
                            MemoryOK
  <2>3. CASE Stop(p)
    BY <1>0, <2>0, <2>3 DEF PodMemory, Stop, Quiet, queueVars, workerVars, handlerVars,
                            MemoryOK
  <2>4. CASE PutPoison(p)
    BY <1>0, <2>0, <2>4 DEF PodMemory, PutPoison, workerVars, handlerVars, MemoryOK
  <2>5. CASE StopEnds(p)
    BY <1>0, <2>0, <2>5 DEF PodMemory, StopEnds, NoWorkers, handlerVars, MemoryOK, WorkersOK
  <2>6. CASE Exit(p)
    BY <1>0, <2>0, <2>6 DEF PodMemory, Exit, queueVars, workerVars, handlerVars, MemoryOK
  <2>7. CASE Crash(p)
    BY <1>0, <2>0, <2>7 DEF PodMemory, Crash, NoWorkers, MemoryOK, WorkersOK, HandlersOK
  <2> QED BY <2>1, <2>2, <2>3, <2>4, <2>5, <2>6, <2>7 DEF StopStep
<1> QED BY <1>0, <1>2, <1>3, MemoryByPod

LEMMA MemoryStep ==
  ASSUME TypeInv, TypeInv', MemoryInv, [Next]_vars
  PROVE  MemoryInv'
<1>1. ASSUME NEW w \in Workers, WorkerStep(w) \/ Expire(w) \/ StoreFails(w)
      PROVE  MemoryInv'
  BY <1>1, WorkerMemory DEF WorkerMove
<1>2. ASSUME NEW h \in Handlers, Request(h) \/ HandlerStep(h) PROVE MemoryInv'
  BY <1>2, HandlerMemory
<1>3. ASSUME \/ \E j \in Jobs : RetryDue(j)
             \/ \E u \in writes : LandOrphan(u)
             \/ \E t \in Tenants : Clear(t)
      PROVE  MemoryInv'
  BY <1>3, OutsideMemory
<1>4. ASSUME NEW p \in Pods, EndStale(p) PROVE MemoryInv'
  <2>1. Jobs # {}
    BY <1>4 DEF EndStale, AwaitedBy, TypeInv, TypeOK, Write
  <2> QED BY <1>4, <2>1, RecoveryMemory
<1>5. ASSUME NEW p \in Pods, NEW j \in Jobs,
             Recover(p, j) \/ DelayedEnqueue(p, j) \/ BeginStale(p, j)
      PROVE  MemoryInv'
  BY <1>5, RecoveryMemory
<1>6. ASSUME NEW p \in Pods, Start(p) \/ Serve(p) \/ RecoveryFails(p)
                             \/ Stop(p) \/ StopStep(p) \/ Crash(p)
      PROVE  MemoryInv'
  BY <1>6, LifeMemory
<1>7. CASE UNCHANGED vars
  BY <1>7, SameMemory DEF vars, podVars, queueVars, workerVars, handlerVars
<1> QED BY <1>1, <1>2, <1>3, <1>4, <1>5, <1>6, <1>7 DEF Next, PodStep

LEMMA MemoryInitially == ASSUME PipelineInit PROVE MemoryInv
  BY PipelineAssumption
  DEF PipelineInit, MemoryInv, Gone, Served, ListedUnseen, NoRestart, Workers
-----------------------------------------------------------------------------
(* Who holds a job.                                                        *)

OnlyWorker(w) ==
  \A v \in Workers : v # w => wpc'[v] = wpc[v] /\ wjob'[v] = wjob[v]

\* A worker that claims nothing and leaves the store alone disturbs no claim.
LEMMA QuietClaims ==
  ASSUME TypeInv, ClaimInv, NEW w \in Workers, OnlyWorker(w),
         UNCHANGED storeVars, UNCHANGED pod,
         Engaged(w)' => Engaged(w) /\ wjob'[w] = wjob[w],
         wpc[w] = "retry" => AwaitedBy(<<"worker", w>>) = {}
  PROVE  ClaimInv'
<1>1. Created' /\ OneWrite'
  BY DEF ClaimInv, Created, OneWrite, AwaitedBy, Present, Known, Engaged, OnlyWorker, storeVars
<1>2. Exclusive'
  BY DEF ClaimInv, Exclusive, Engaged, OnlyWorker, storeVars
<1>3. ReleasesOK'
  <2>1. SUFFICES ASSUME NEW u \in writes, u.row.status = "RECEIVED" PROVE Release(u)'
    BY DEF ReleasesOK, storeVars
  <2>2. Release(u)
    BY <2>1 DEF ClaimInv, ReleasesOK
  <2>3. CASE u.live
    <3>1. PICK v \in Workers : /\ u.by = <<"worker", v>> /\ u.pod = v[1]
                               /\ wpc[v] = "retry" /\ wjob[v] = u.job
      BY <2>2, <2>3 DEF Release
    <3>2. u \in AwaitedBy(<<"worker", v>>)
      BY <2>3, <3>1 DEF AwaitedBy
    <3>3. v # w
      BY <3>1, <3>2
    <3> QED BY <2>3, <3>1, <3>3 DEF Release, OnlyWorker
  <2>4. CASE ~u.live
    BY <2>2, <2>4 DEF Release
  <2> QED BY <2>3, <2>4
<1> QED BY <1>1, <1>2, <1>3 DEF ClaimInv

Claimless(w) ==
  \/ Get(w) \/ Fetch(w) \/ AcquireGlobal(w) \/ AcquireTenant(w) \/ Load(w)
  \/ Prepare(w) \/ Extract(w) \/ SessionWrite(w) \/ SkipUpdate(w) \/ JudgeTimeout(w)

LEMMA ClaimlessEffect ==
  ASSUME TypeInv, NEW w \in Workers, Claimless(w)
  PROVE  /\ UNCHANGED storeVars
         /\ Engaged(w)' => Engaged(w) /\ wjob'[w] = wjob[w]
<1>0. wpc \in [Workers -> WorkerPc] /\ wjob \in [Workers -> Jobs \cup {NoJob}]
  BY DEF TypeInv, TypeOK
<1>2. UNCHANGED storeVars
  BY DEF Claimless, Get, Fetch, AcquireGlobal, AcquireTenant, Load, Prepare, Extract,
         SessionWrite, SkipUpdate, JudgeTimeout
<1>3. Engaged(w)' => Engaged(w) /\ wjob'[w] = wjob[w]
  <2>1. CASE Get(w) \/ Fetch(w) \/ AcquireGlobal(w) \/ AcquireTenant(w) \/ Load(w)
    BY <1>0, <2>1 DEF Get, Fetch, AcquireGlobal, AcquireTenant, Load, Goto, Finish,
                      Engaged, Owning, Settling
  <2>2. CASE Prepare(w) \/ Extract(w) \/ SessionWrite(w) \/ JudgeTimeout(w)
    BY <1>0, <2>2 DEF Prepare, Extract, SessionWrite, JudgeTimeout, Goto,
                      Engaged, Owning, Settling
  <2>3. CASE SkipUpdate(w)
    BY <1>0, <2>3 DEF SkipUpdate, AfterUpdate, UpdateOps, Goto, Finish,
                      Engaged, Owning, Settling
  <2> QED BY <2>1, <2>2, <2>3 DEF Claimless
<1> QED BY <1>2, <1>3

LEMMA QuietStep ==
  ASSUME TypeInv, ClaimInv, NEW w \in Workers, Claimless(w)
  PROVE  ClaimInv'
<1>1. OnlyWorker(w) /\ UNCHANGED pod
  BY WorkerAlone DEF Claimless, WorkerMove, WorkerStep, OnlyWorker
<1>4. wpc[w] = "retry" => AwaitedBy(<<"worker", w>>) = {}
  BY DEF Claimless, Get, Fetch, AcquireGlobal, AcquireTenant, Load, Prepare, Extract,
         SessionWrite, SkipUpdate, JudgeTimeout
<1> QED BY <1>1, <1>4, ClaimlessEffect, QuietClaims

\* The claim: of a job that is RECEIVED, hence of nobody.
LEMMA ClaimClaims ==
  ASSUME TypeInv, ClaimInv, NEW w \in Workers, Claim(w)
  PROVE  ClaimInv'
<1>0. /\ wpc \in [Workers -> WorkerPc] /\ wjob \in [Workers -> Jobs \cup {NoJob}]
      /\ row \in [Jobs -> Row] /\ wjob[w] \in Jobs
  BY DEF TypeInv, TypeOK, StoreTypeOK, JobsInHand, Claim
<1>1. OnlyWorker(w) /\ UNCHANGED pod /\ wpc[w] = "claim"
  BY WorkerAlone DEF WorkerMove, WorkerStep, OnlyWorker, Claim
<1>2. CASE UNCHANGED storeVars /\ Finish(w)
  <2>1. Engaged(w)' => Engaged(w) /\ wjob'[w] = wjob[w]
    BY <1>0, <1>2 DEF Finish, Goto, Engaged, Owning, Settling
  <2> QED BY <1>1, <1>2, <2>1, QuietClaims
<1>3. CASE Transition(wjob[w], "RECEIVED", "STAGE2_RUNNING") /\ Goto(w, "stage2") /\ wjob' = wjob
  <2>1. /\ row[wjob[w]].status = "RECEIVED" /\ created' = created /\ writes' = writes
        /\ row' = [row EXCEPT ![wjob[w]].status = "STAGE2_RUNNING"]
        /\ wpc' = [wpc EXCEPT ![w] = "stage2"]
    BY <1>3 DEF Transition, Goto
  <2>2. row'[wjob[w]].status = "STAGE2_RUNNING"
    BY <1>0, <2>1 DEF Row
  <2>3. \A j \in Jobs : j # wjob[w] => row'[j] = row[j]
    BY <1>0, <2>1
  <2>4. Known(wjob[w])
    BY <1>0, <2>1 DEF ClaimInv, Created, Present
  <2>5. \A v \in Workers : Engaged(v) => wjob[v] # wjob[w]
    BY <2>1 DEF ClaimInv, Exclusive
  <2>6. \A v \in Workers : v # w => (Engaged(v)' <=> Engaged(v))
    BY <1>1 DEF Engaged, OnlyWorker
  <2>7. Created'
    BY <1>3, <2>1, <2>2, <2>3, <2>4, <2>6 DEF ClaimInv, Created, Present, Known
  <2>8. Exclusive'
    <3>1. \A v \in Workers : Engaged(v) => wjob[v] \in Jobs
      BY DEF TypeInv, JobsInHand, Engaged, Owning, Settling
    <3> QED BY <1>0, <1>3, <2>2, <2>3, <2>5, <2>6, <3>1 DEF ClaimInv, Exclusive
  <2>9. ReleasesOK' /\ OneWrite'
    BY <1>0, <1>1, <1>3, <2>1 DEF ClaimInv, ReleasesOK, Release, OneWrite, AwaitedBy
  <2> QED BY <2>7, <2>8, <2>9 DEF ClaimInv
<1> QED BY <1>2, <1>3 DEF Claim

EngagedHasJob == \A w \in Workers : Engaged(w) => wjob[w] \in Jobs

LEMMA EngagedJob == TypeInv => EngagedHasJob
  BY DEF EngagedHasJob, TypeInv, JobsInHand, Engaged, Owning, Settling

\* A read is followed by a write of the same job, with the patched status.
LEMMA ReadClaims ==
  ASSUME TypeInv, ClaimInv, NEW by \in Actors, NEW p \in Pods, NEW j \in Jobs, NEW op \in Ops,
         Read(by, p, j, op), UNCHANGED <<pod, wpc, wjob>>,
         \A w \in Workers : by = <<"worker", w>> => AwaitedBy(by) = {},
         Patched(row[j], op).status = "RECEIVED" =>
           \E w \in Workers : /\ by = <<"worker", w>> /\ p = w[1]
                              /\ wpc[w] = "retry" /\ wjob[w] = j
  PROVE  ClaimInv'
<1> DEFINE new == [by |-> by, pod |-> p, live |-> TRUE, job |-> j, op |-> op,
                   row |-> Patched(row[j], op)]
<1>1. /\ writes' = writes \cup {new} /\ Present(j)
      /\ row' = row /\ created' = created
  BY DEF Read
<1>2. Created' /\ Exclusive'
  BY <1>1 DEF ClaimInv, Created, Exclusive, Present, Known, Engaged
<1>3. ReleasesOK'
  BY <1>1 DEF ClaimInv, ReleasesOK, Release
<1>4. OneWrite'
  <2>1. SUFFICES ASSUME NEW w \in Workers,
                        NEW u \in AwaitedBy(<<"worker", w>>)',
                        NEW v \in AwaitedBy(<<"worker", w>>)'
                 PROVE  u = v
    BY DEF OneWrite
  <2>2. CASE by = <<"worker", w>>
    <3>1. AwaitedBy(<<"worker", w>>) = {}
      BY <2>2
    <3> QED BY <1>1, <2>1, <3>1 DEF AwaitedBy
  <2>3. CASE by # <<"worker", w>>
    <3>1. u \in AwaitedBy(<<"worker", w>>) /\ v \in AwaitedBy(<<"worker", w>>)
      BY <1>1, <2>1, <2>3 DEF AwaitedBy
    <3> QED BY <3>1 DEF ClaimInv, OneWrite
  <2> QED BY <2>2, <2>3
<1> QED BY <1>2, <1>3, <1>4 DEF ClaimInv

LEMMA BeginUpdateClaims ==
  ASSUME TypeInv, ClaimInv, NEW w \in Workers, BeginUpdate(w)
  PROVE  ClaimInv'
<1>1. /\ wjob[w] \in Jobs /\ w[1] \in Pods /\ wpc[w] \in Ops
      /\ <<"worker", w>> \in Actors /\ row[wjob[w]] \in Row
  BY DEF BeginUpdate, TypeInv, TypeOK, JobsInHand, StoreTypeOK, Workers, UpdateOps, Ops, Actors
<1>2. Engaged(w)
  BY DEF BeginUpdate, UpdateOps, Engaged, Owning, Settling
<1>3. row[wjob[w]].status # "RECEIVED"
  BY <1>2 DEF ClaimInv, Exclusive
<1>4. Patched(row[wjob[w]], wpc[w]).status = "RECEIVED" => wpc[w] = "retry"
  BY <1>1, <1>3, PatchedReceived
<1>5. UNCHANGED <<pod, wpc, wjob>>
  BY DEF BeginUpdate, podVars, workerVars
<1>6. AwaitedBy(<<"worker", w>>) = {} /\ Read(<<"worker", w>>, w[1], wjob[w], wpc[w])
  BY DEF BeginUpdate
<1>7. \A v \in Workers : <<"worker", w>> = <<"worker", v>> => AwaitedBy(<<"worker", w>>) = {}
  BY <1>6
<1> QED BY <1>1, <1>4, <1>5, <1>6, <1>7, ReadClaims

LEMMA BeginOtherClaims ==
  ASSUME TypeInv, ClaimInv,
         \/ \E h \in Handlers : BeginRefusal(h)
         \/ \E p \in Pods, j \in Jobs : BeginStale(p, j)
  PROVE  ClaimInv'
<1>0. \A r \in Row : /\ Patched(r, "enqfail").status = "ENQUEUE_FAILED"
                     /\ Patched(r, "stale").status = "STAGE3_FAILED"
  BY DEF Patched, Row
<1>1. ASSUME NEW h \in Handlers, BeginRefusal(h) PROVE ClaimInv'
  <2>1. /\ hjob[h] \in Jobs /\ hpod[h] \in Pods /\ "enqfail" \in Ops
        /\ <<"handler", h>> \in Actors /\ row[hjob[h]] \in Row
    BY <1>1 DEF BeginRefusal, TypeInv, TypeOK, JobsInHand, StoreTypeOK, Ops, Actors
  <2>2. UNCHANGED <<pod, wpc, wjob>> /\ Read(<<"handler", h>>, hpod[h], hjob[h], "enqfail")
    BY <1>1 DEF BeginRefusal, podVars, workerVars
  <2>3. \A w : <<"handler", h>> # <<"worker", w>>
    OBVIOUS
  <2> QED BY <1>0, <2>1, <2>2, <2>3, ReadClaims
<1>2. ASSUME NEW p \in Pods, NEW j \in Jobs, BeginStale(p, j) PROVE ClaimInv'
  <2>1. "stale" \in Ops /\ <<"recovery", p>> \in Actors /\ row[j] \in Row
    BY DEF TypeInv, TypeOK, StoreTypeOK, Ops, Actors
  <2>2. UNCHANGED <<pod, wpc, wjob>> /\ Read(<<"recovery", p>>, p, j, "stale")
    BY <1>2 DEF BeginStale, podVars, workerVars
  <2>3. \A w : <<"recovery", p>> # <<"worker", w>>
    OBVIOUS
  <2> QED BY <1>0, <2>1, <2>2, <2>3, ReadClaims
<1> QED BY <1>1, <1>2

LEMMA LandEffect ==
  ASSUME TypeInv, NEW u \in writes, Land(u)
  PROVE  /\ created' = created /\ writes' = writes \ {u} /\ u.job \in Jobs
         /\ \A j \in Jobs : j # u.job => row'[j] = row[j]
         /\ row'[u.job].status \in {"ABSENT", row[u.job].status, u.row.status}
<1>1. u \in Write /\ u.job \in Jobs /\ u.row \in Row /\ row \in [Jobs -> Row]
  BY DEF TypeInv, TypeOK, StoreTypeOK, Write
<1>2. Landed(u).status \in {"ABSENT", row[u.job].status, u.row.status}
  BY <1>1 DEF Landed, Row, Absent
<1> QED BY <1>1, <1>2 DEF Land

\* A write that lands without freeing a job that somebody still holds.
LEMMA LandClaims ==
  ASSUME TypeInv, ClaimInv, NEW u \in writes, Land(u), UNCHANGED pod,
         \A w \in Workers : Engaged(w)' => Engaged(w) /\ wjob'[w] = wjob[w],
         \A w \in Workers : Engaged(w)' /\ wjob[w] = u.job => u.row.status # "RECEIVED",
         \A w \in Workers : (AwaitedBy(<<"worker", w>>) \ {u}) # {} =>
           wpc'[w] = wpc[w] /\ wjob'[w] = wjob[w]
  PROVE  ClaimInv'
<1>1. /\ created' = created /\ writes' = writes \ {u} /\ u.job \in Jobs
      /\ \A j \in Jobs : j # u.job => row'[j] = row[j]
      /\ row'[u.job].status \in {"ABSENT", row[u.job].status, u.row.status}
  BY LandEffect
<1>2. Created'
  BY <1>1 DEF ClaimInv, Created, Present, Known
<1>3. Exclusive'
  BY <1>1, EngagedJob DEF ClaimInv, Exclusive, EngagedHasJob
<1>4. ReleasesOK'
  <2>1. SUFFICES ASSUME NEW v \in writes \ {u}, v.row.status = "RECEIVED" PROVE Release(v)'
    BY <1>1 DEF ReleasesOK
  <2>2. Release(v)
    BY <2>1 DEF ClaimInv, ReleasesOK
  <2>3. \A w \in Workers : v.live /\ v.by = <<"worker", w>> =>
          wpc'[w] = wpc[w] /\ wjob'[w] = wjob[w]
    BY DEF AwaitedBy
  <2> QED BY <2>2, <2>3 DEF Release
<1>5. OneWrite'
  BY <1>1 DEF ClaimInv, OneWrite, AwaitedBy
<1> QED BY <1>2, <1>3, <1>4, <1>5 DEF ClaimInv

LEMMA EndUpdateClaims ==
  ASSUME TypeInv, ClaimInv, NEW w \in Workers, EndUpdate(w)
  PROVE  ClaimInv'
<1>0. wpc \in [Workers -> WorkerPc] /\ wjob \in [Workers -> Jobs \cup {NoJob}]
  BY DEF TypeInv, TypeOK
<1>1. PICK u \in AwaitedBy(<<"worker", w>>) : Land(u)
  BY DEF EndUpdate
<1>2. u \in writes /\ u.live /\ u.by = <<"worker", w>>
  BY <1>1 DEF AwaitedBy
<1>3. OnlyWorker(w) /\ UNCHANGED pod
  BY WorkerAlone DEF WorkerMove, WorkerStep, OnlyWorker
<1>4. /\ Engaged(w)' => Engaged(w) /\ wjob'[w] = wjob[w]
      /\ wpc[w] = "retry" => ~Engaged(w)'
  BY <1>0 DEF EndUpdate, AfterUpdate, UpdateOps, Goto, Finish, Engaged, Owning, Settling
<1>5. \A v \in Workers : Engaged(v)' => Engaged(v) /\ wjob'[v] = wjob[v]
  BY <1>3, <1>4 DEF OnlyWorker, Engaged
<1>6. u.row.status = "RECEIVED" => wpc[w] = "retry" /\ wjob[w] = u.job
  <2>1. \A v : <<"worker", v>> = <<"worker", w>> => v = w
    OBVIOUS
  <2> QED BY <1>2, <2>1 DEF ClaimInv, ReleasesOK, Release
<1>7. \A v \in Workers : Engaged(v)' /\ wjob[v] = u.job => u.row.status # "RECEIVED"
  <2>1. SUFFICES ASSUME NEW v \in Workers, Engaged(v)', wjob[v] = u.job,
                        u.row.status = "RECEIVED"
                 PROVE  FALSE
    OBVIOUS
  <2>2. wpc[w] = "retry" /\ wjob[w] = u.job /\ Engaged(w) /\ Engaged(v)
    BY <1>5, <1>6, <2>1 DEF Engaged, Settling
  <2>3. v = w
    BY <2>1, <2>2 DEF ClaimInv, Exclusive
  <2> QED BY <1>4, <2>1, <2>2, <2>3
<1>8. \A v \in Workers : (AwaitedBy(<<"worker", v>>) \ {u}) # {} => v # w
  BY <1>1 DEF ClaimInv, OneWrite
<1>9. \A v \in Workers : (AwaitedBy(<<"worker", v>>) \ {u}) # {} =>
        wpc'[v] = wpc[v] /\ wjob'[v] = wjob[v]
  BY <1>3, <1>8 DEF OnlyWorker
<1> QED BY <1>1, <1>2, <1>3, <1>5, <1>7, <1>9, LandClaims

\* The writes of the others: a handler or recovery never makes a job RECEIVED
\* this way, and an orphan that does finds no worker in a process that ends.
LEMMA OtherLandClaims ==
  ASSUME TypeInv, MemoryInv, ClaimInv, OneProcess \/ NoneRestarts,
         \/ \E u \in writes : LandOrphan(u)
         \/ \E h \in Handlers : EndRefusal(h)
         \/ \E p \in Pods : EndStale(p)
  PROVE  ClaimInv'
<1>1. PICK u \in writes :
        Land(u) /\ \A w \in Workers : ~(u.live /\ u.by = <<"worker", w>>)
  BY DEF LandOrphan, EndRefusal, EndStale, AwaitedBy
<1>2. UNCHANGED <<pod, wpc, wjob>>
  BY DEF LandOrphan, EndRefusal, EndStale, podVars, workerVars
<1>3. ASSUME NEW w \in Workers, Engaged(w) PROVE u.row.status # "RECEIVED"
  <2>1. u.pod \in Pods /\ w[1] \in Pods
    BY DEF TypeInv, TypeOK, Write, Workers
  <2>2. wpc[w] # "exited"
    BY <1>3 DEF Engaged, Owning, Settling
  <2>3. pod[w[1]] # "exiting"
    BY <2>1, <2>2 DEF MemoryInv, Gone
  <2>4. pod[u.pod] # "exiting"
    <3>1. CASE OneProcess
      BY <2>1, <2>3, <3>1 DEF OneProcess
    <3>2. CASE NoneRestarts
      BY <2>1, <3>2 DEF NoneRestarts, MemoryInv, NoRestart
    <3> QED BY <3>1, <3>2
  <2> QED BY <1>1, <2>4 DEF ClaimInv, ReleasesOK, Release
<1> QED BY <1>1, <1>2, <1>3, LandClaims DEF Engaged

\* Writes that are lost or left behind, and workers that let go.  What is left
\* of them was there before, awaited by the same caller or by nobody.
LEMMA DropClaims ==
  ASSUME TypeInv, ClaimInv, UNCHANGED <<row, created>>,
         \A w \in Workers : Engaged(w)' => Engaged(w) /\ wjob'[w] = wjob[w],
         \A u \in writes' : u \in writes \/ ~u.live,
         \A u \in writes' : Known(u.job),
         \A u \in writes' : u.row.status = "RECEIVED" => Release(u)'
  PROVE  ClaimInv'
<1>1. Created' /\ Exclusive'
  BY DEF ClaimInv, Created, Exclusive, Present, Known
<1>2. ReleasesOK'
  BY DEF ReleasesOK
<1>3. OneWrite'
  BY DEF ClaimInv, OneWrite, AwaitedBy
<1> QED BY <1>1, <1>2, <1>3 DEF ClaimInv

LEMMA FaultClaims ==
  ASSUME TypeInv, ClaimInv, NEW w \in Workers, Expire(w) \/ StoreFails(w)
  PROVE  ClaimInv'
<1>0. /\ wpc \in [Workers -> WorkerPc] /\ wjob \in [Workers -> Jobs \cup {NoJob}]
      /\ \A u \in writes : u \in Write
  BY DEF TypeInv, TypeOK
<1>1. OnlyWorker(w) /\ UNCHANGED <<pod, row, created>>
  BY WorkerAlone DEF WorkerMove, OnlyWorker, Expire, StoreFails
<1>2. Engaged(w)' => Engaged(w) /\ wjob'[w] = wjob[w]
  BY <1>0, PipelineAssumption
  DEF Expire, StoreFails, UpdateOps, Goto, Finish, Engaged, Owning, Settling
<1>3. \A v \in Workers : Engaged(v)' => Engaged(v) /\ wjob'[v] = wjob[v]
  BY <1>1, <1>2 DEF OnlyWorker, Engaged
<1>4. CASE Expire(w)
  <2>1. wpc[w] # "retry"
    BY <1>4, PipelineAssumption DEF Expire, Owning
  <2>2. ASSUME NEW u \in writes' PROVE u \in writes \/ ~u.live
    BY <1>0, <1>4 DEF Expire, Orphaned, Write
  <2>3. ASSUME NEW u \in writes'
        PROVE  Known(u.job) /\ (u.row.status = "RECEIVED" => Release(u)')
    <3>1. PICK v \in writes :
            u = IF v.by = <<"worker", w>> THEN [v EXCEPT !.live = FALSE] ELSE v
      BY <1>4 DEF Expire, Orphaned
    <3>2. /\ u.job = v.job /\ u.row = v.row /\ u.by = v.by /\ u.pod = v.pod
          /\ v.by # <<"worker", w>> => u = v
          /\ v.by = <<"worker", w>> => ~u.live
      BY <1>0, <3>1 DEF Write
    <3>3. Known(u.job)
      BY <3>2 DEF ClaimInv, Created
    <3>4. ASSUME u.row.status = "RECEIVED" PROVE Release(u)'
      <4>1. Release(v)
        BY <3>2, <3>4 DEF ClaimInv, ReleasesOK
      <4>2. CASE v.live
        <5>1. PICK x \in Workers : /\ v.by = <<"worker", x>> /\ v.pod = x[1]
                                   /\ wpc[x] = "retry" /\ wjob[x] = v.job
          BY <4>1, <4>2 DEF Release
        <5>2. x # w /\ v.by # <<"worker", w>>
          BY <2>1, <5>1
        <5> QED BY <1>1, <3>2, <4>2, <5>1, <5>2 DEF Release, OnlyWorker
      <4>3. CASE ~v.live
        <5>1. pod[v.pod] = "exiting"
          BY <4>1, <4>3 DEF Release
        <5>2. ~u.live
          BY <3>2, <4>3
        <5> QED BY <1>1, <3>2, <5>1, <5>2 DEF Release
      <4> QED BY <4>2, <4>3
    <3> QED BY <3>3, <3>4
  <2> QED BY <1>1, <1>3, <2>2, <2>3, DropClaims
<1>5. CASE StoreFails(w)
  <2>1. writes' = writes \ AwaitedBy(<<"worker", w>>)
    BY <1>5 DEF StoreFails
  <2>2. ASSUME NEW u \in writes', u.row.status = "RECEIVED" PROVE Release(u)'
    <3>1. Release(u)
      BY <2>1, <2>2 DEF ClaimInv, ReleasesOK
    <3> QED BY <1>1, <2>1, <3>1 DEF Release, OnlyWorker, AwaitedBy
  <2>3. \A u \in writes' : Known(u.job)
    BY <2>1 DEF ClaimInv, Created
  <2> QED BY <1>1, <1>3, <2>1, <2>2, <2>3, DropClaims
<1> QED BY <1>4, <1>5

\* The process-wide steps: a pod of which something changes has no live retry.
LEMMA LifeClaims ==
  ASSUME TypeInv, MemoryInv, ClaimInv, NEW p \in Pods,
         \/ Start(p) \/ Serve(p) \/ RecoveryFails(p)
         \/ Stop(p) \/ StopStep(p) \/ Crash(p)
  PROVE  ClaimInv'
<1>0. /\ MemoryOK /\ WorkersOK /\ WritesOK
  BY TypeInvParts
<1>1. UNCHANGED <<row, created>>
  BY DEF Start, Recoverable, Serve, RecoveryFails, Stop, StopStep, PutPoison, StopEnds, Exit,
      Crash, storeVars
<1>2. \A w \in Workers : Engaged(w)' => Engaged(w) /\ wjob'[w] = wjob[w]
  BY <1>0 DEF Start, Recoverable, Serve, RecoveryFails, Stop, StopStep, PutPoison, StopEnds,
      Exit, Crash, IdleWorkers, NoWorkers, workerVars, WorkersOK, Engaged, Owning, Settling
<1>3. \A u \in writes' : \E v \in writes :
        /\ u.job = v.job /\ u.row = v.row /\ u.by = v.by /\ u.pod = v.pod
        /\ u = v \/ (u.pod = p /\ ~u.live /\ StopEnds(p))
        /\ u.pod = p => ~Crash(p) /\ ~Exit(p)
        /\ StopEnds(p) /\ u.pod = p => ~u.live
  <2>1. CASE StopEnds(p)
    <3>1. pod[p] = "stopping" /\ ~Exit(p)
      BY <2>1 DEF StopEnds, Exit
    <3>2. ~Crash(p)
      BY <1>0, <2>1 DEF StopEnds, Crash, MemoryOK
    <3>3. writes' = {IF u.pod = p THEN [u EXCEPT !.live = FALSE] ELSE u : u \in writes}
      BY <2>1 DEF StopEnds
    <3>4. \A v \in writes : /\ [v EXCEPT !.live = FALSE].job = v.job
                            /\ [v EXCEPT !.live = FALSE].row = v.row
                            /\ [v EXCEPT !.live = FALSE].by = v.by
                            /\ [v EXCEPT !.live = FALSE].pod = v.pod
                            /\ ~[v EXCEPT !.live = FALSE].live
      BY <1>0 DEF WritesOK, Write
    <3> QED BY <2>1, <3>1, <3>2, <3>3, <3>4
  <2>2. CASE Crash(p)
    BY <2>2 DEF Crash
  <2>3. CASE Exit(p)
    BY <2>3 DEF Exit, storeVars
  <2>4. CASE ~StopEnds(p) /\ ~Crash(p) /\ ~Exit(p)
    <3>1. \A u \in writes' : u \in writes
      BY <2>4 DEF Start, Recoverable, Serve, RecoveryFails, Stop, StopStep, PutPoison, storeVars
    <3> QED BY <2>4, <3>1
  <2> QED BY <2>1, <2>2, <2>3, <2>4
<1>4. \A u \in writes' : u \in writes \/ ~u.live
  BY <1>3
<1>5. \A u \in writes' : Known(u.job)
  BY <1>3 DEF ClaimInv, Created
<1>6. ASSUME NEW u \in writes', u.row.status = "RECEIVED" PROVE Release(u)'
  <2>1. PICK v \in writes :
        /\ u.job = v.job /\ u.row = v.row /\ u.by = v.by /\ u.pod = v.pod
        /\ u = v \/ (u.pod = p /\ ~u.live /\ StopEnds(p))
        /\ u.pod = p => ~Crash(p) /\ ~Exit(p)
        /\ StopEnds(p) /\ u.pod = p => ~u.live
    BY <1>3
  <2>2. Release(v) /\ u.pod \in Pods
    BY <1>0, <1>6, <2>1 DEF ClaimInv, ReleasesOK, WritesOK, Write
  <2>3. CASE u.pod # p
    <3>1. u = v /\ OnlyPod(p)
      BY <2>1, <2>3, LifeAlone
    <3> QED BY <2>2, <2>3, <3>1 DEF Release, OnlyPod
  <2>4. CASE u.pod = p /\ StopEnds(p)
    <3>1. pod'[p] = "exiting"
      BY <1>0, <2>4 DEF StopEnds, MemoryOK
    <3> QED BY <2>1, <2>4, <3>1 DEF Release
  <2>5. CASE u.pod = p /\ ~StopEnds(p)
    <3>1. u = v /\ ~Crash(p) /\ ~Exit(p)
      BY <2>1, <2>5
    <3>2. CASE Start(p)
      <4>1. pod[p] = "down"
        BY <3>2 DEF Start, Recoverable
      <4> QED BY <2>2, <2>5, <3>1, <4>1 DEF Release, MemoryInv, Gone
    <3>3. CASE Serve(p) \/ RecoveryFails(p) \/ Stop(p) \/ PutPoison(p)
      <4>1. pod[p] # "exiting" /\ UNCHANGED <<wpc, wjob>>
        BY <3>3 DEF Serve, RecoveryFails, Stop, PutPoison, workerVars
      <4> QED BY <2>2, <2>5, <3>1, <4>1 DEF Release
    <3> QED BY <2>5, <3>1, <3>2, <3>3 DEF StopStep
  <2> QED BY <2>3, <2>4, <2>5
<1> QED BY <1>1, <1>2, <1>4, <1>5, <1>6, DropClaims

\* The tables change, the workers and the writes do not: no engaged worker's job
\* becomes RECEIVED, and what is stored has been created.
LEMMA TableClaims ==
  ASSUME TypeInv, ClaimInv, UNCHANGED <<writes, pod, wpc, wjob>>,
         \A j \in Jobs : Known(j) => Known(j)',
         \A j \in Jobs : Present(j)' => Known(j)',
         \A w \in Workers : Engaged(w) => row'[wjob[w]].status # "RECEIVED"
  PROVE  ClaimInv'
<1>1. \A u \in writes : u.job \in Jobs
  BY DEF TypeInv, TypeOK, Write
<1>2. Created'
  BY <1>1, EngagedJob DEF ClaimInv, Created, EngagedHasJob, Engaged
<1> QED BY <1>2 DEF ClaimInv, Exclusive, ReleasesOK, Release, OneWrite, AwaitedBy, Engaged

LEMMA CreateClaims ==
  ASSUME TypeInv, ClaimInv, NEW c \in Commits, NEW text \in BOOLEAN, Create(c, text),
         UNCHANGED <<pod, wpc, wjob>>
  PROVE  ClaimInv'
<1>0. PICK new : new = <<c, created[c] + 1>>
  OBVIOUS
<1>1. created \in [Commits -> 0 .. MaxGen] /\ row \in [Jobs -> Row] /\ MaxGen \in Nat
  BY StoreAssumption DEF TypeInv, TypeOK, StoreTypeOK
<1>2. \A j \in Jobs : j[1] \in Commits /\ j[2] \in Nat /\ j = <<j[1], j[2]>>
  BY <1>1 DEF Jobs
<1>3. created' = [created EXCEPT ![c] = created[c] + 1] /\ writes' = writes
  BY DEF Create
<1>4. \A j \in Jobs : Known(j) => Known(j)'
  BY <1>1, <1>2, <1>3 DEF Known
<1>5. Known(new)' /\ ~Known(new) /\ new \in Jobs
  <2>1. created[c] \in Nat /\ created[c] < MaxGen /\ created'[c] = created[c] + 1
    BY <1>1, <1>3 DEF Create
  <2>2. created[c] + 1 \in 1 .. MaxGen /\ ~(created[c] + 1 <= created[c])
    BY <1>1, <2>1
  <2>3. new \in Jobs /\ new[1] = c /\ new[2] = created[c] + 1
    BY <1>0, <2>2 DEF Jobs
  <2>4. Known(new)'
    BY <1>1, <2>1, <2>3 DEF Known
  <2>5. ~Known(new)
    BY <2>2, <2>3 DEF Known
  <2> QED BY <2>3, <2>4, <2>5
<1>6. \A j \in Jobs : j # new => row'[j] = row[j] \/ row'[j] = Absent
  BY <1>0 DEF Create
<1>7. \A j \in Jobs : Present(j)' => Known(j)'
  <2>1. SUFFICES ASSUME NEW j \in Jobs, Present(j)', j # new PROVE Known(j)'
    BY <1>5
  <2>2. Present(j)
    BY <1>6, <2>1 DEF Present, Absent
  <2> QED BY <1>4, <2>2 DEF ClaimInv, Created
<1>8. \A w \in Workers : Engaged(w) => row'[wjob[w]].status # "RECEIVED"
  <2>1. SUFFICES ASSUME NEW w \in Workers, Engaged(w) PROVE row'[wjob[w]].status # "RECEIVED"
    OBVIOUS
  <2>2. wjob[w] # new /\ wjob[w] \in Jobs
    BY <1>5, <2>1, EngagedJob DEF ClaimInv, Created, EngagedHasJob
  <2> QED BY <1>6, <2>1, <2>2 DEF ClaimInv, Exclusive, Absent
<1> QED BY <1>3, <1>4, <1>7, <1>8, TableClaims

LEMMA HandlerClaims ==
  ASSUME TypeInv, MemoryInv, ClaimInv, OneProcess \/ NoneRestarts,
         NEW h \in Handlers, Request(h) \/ HandlerStep(h)
  PROVE  ClaimInv'
<1>1. UNCHANGED <<pod, wpc, wjob>>
  BY DEF Request, HandlerStep, Submit, Execute, Accept, BeginRefusal, EndRefusal,
         SkipRefusal, podVars, workerVars
<1>2. CASE UNCHANGED storeVars
  BY <1>1, <1>2 DEF storeVars, ClaimInv, Created, Exclusive, ReleasesOK, Release, OneWrite,
                    AwaitedBy, Engaged, Present, Known
<1>3. ASSUME NEW c \in Commits, NEW text \in BOOLEAN, Create(c, text) PROVE ClaimInv'
  BY <1>1, <1>3, CreateClaims
<1>4. CASE Request(h)
  BY <1>2, <1>3, <1>4, PipelineAssumption DEF Request, Submit, Execute
<1>5. CASE HandlerStep(h)
  BY <1>2, <1>5, BeginOtherClaims, OtherLandClaims DEF HandlerStep, Accept, SkipRefusal
<1> QED BY <1>4, <1>5

LEMMA OutsideClaims ==
  ASSUME TypeInv, ClaimInv,
         \/ \E j \in Jobs : RetryDue(j)
         \/ \E t \in Tenants : Clear(t)
  PROVE  ClaimInv'
<1>0. /\ row \in [Jobs -> Row] /\ \A u \in writes : u \in Write
  BY DEF TypeInv, TypeOK, StoreTypeOK
<1>1. UNCHANGED <<pod, created, wpc, wjob>>
  BY DEF RetryDue, Clear, ClearTenant, podVars, workerVars
<1>2. ASSUME NEW t \in Tenants, Clear(t) PROVE ClaimInv'
  <2>1. writes' = writes /\ \A j \in Jobs : row'[j] = row[j] \/ row'[j] = Absent
    BY <1>2 DEF Clear, ClearTenant
  <2>2. \A j \in Jobs : Present(j)' => Known(j)'
    BY <1>1, <2>1 DEF ClaimInv, Created, Present, Known, Absent
  <2>3. \A w \in Workers : Engaged(w) => row'[wjob[w]].status # "RECEIVED"
    BY <2>1, EngagedJob DEF ClaimInv, Exclusive, EngagedHasJob, Absent
  <2> QED BY <1>1, <2>1, <2>2, <2>3, TableClaims DEF Known
<1>3. ASSUME NEW j \in Jobs, RetryDue(j) PROVE ClaimInv'
  <2> DEFINE due(v) == IF v.job = j /\ v.row.retry = "future"
                       THEN [v EXCEPT !.row.retry = "due"] ELSE v
  <2>1. \A k \in Jobs : row'[k].status = row[k].status
    BY <1>0, <1>3 DEF RetryDue, Row
  <2>2. writes' = {due(v) : v \in writes}
    BY <1>3 DEF RetryDue
  <2>3. \A v \in Write : /\ due(v).by = v.by /\ due(v).pod = v.pod /\ due(v).live = v.live
                         /\ due(v).job = v.job /\ due(v).row.status = v.row.status
    BY DEF Write, Row
  <2>4. Created'
    BY <1>0, <1>1, <2>1, <2>2, <2>3, ZenonT(40)
    DEF ClaimInv, Created, Present, Known, Engaged
  <2>5. Exclusive'
    BY <1>1, <2>1, EngagedJob DEF ClaimInv, Exclusive, Engaged, EngagedHasJob
  <2>6. ReleasesOK'
    <3>1. SUFFICES ASSUME NEW u \in writes', u.row.status = "RECEIVED" PROVE Release(u)'
      BY DEF ReleasesOK
    <3>2. PICK v \in writes : u = due(v)
      BY <2>2
    <3>3. /\ u.by = v.by /\ u.pod = v.pod /\ u.live = v.live
          /\ u.job = v.job /\ u.row.status = v.row.status
      BY <1>0, <2>3, <3>2
    <3>4. Release(v)
      BY <3>1, <3>3 DEF ClaimInv, ReleasesOK
    <3> QED BY <1>1, <3>3, <3>4 DEF Release
  <2>7. OneWrite'
    <3>1. SUFFICES ASSUME NEW w \in Workers,
                          NEW u \in AwaitedBy(<<"worker", w>>)',
                          NEW v \in AwaitedBy(<<"worker", w>>)'
                   PROVE  u = v
      BY DEF OneWrite
    <3>2. PICK x \in writes, y \in writes : u = due(x) /\ v = due(y)
      BY <2>2, <3>1 DEF AwaitedBy
    <3>3. x \in AwaitedBy(<<"worker", w>>) /\ y \in AwaitedBy(<<"worker", w>>)
      <4>1. /\ u.by = x.by /\ u.live = x.live /\ v.by = y.by /\ v.live = y.live
        BY <1>0, <2>3, <3>2
      <4>2. u.by = <<"worker", w>> /\ u.live /\ v.by = <<"worker", w>> /\ v.live
        BY <3>1 DEF AwaitedBy
      <4> HIDE DEF due
      <4> QED BY <3>2, <4>1, <4>2 DEF AwaitedBy
    <3> QED BY <3>2, <3>3 DEF ClaimInv, OneWrite
  <2> QED BY <2>4, <2>5, <2>6, <2>7 DEF ClaimInv
<1> QED BY <1>2, <1>3

LEMMA RecoverClaims ==
  ASSUME TypeInv, MemoryInv, ClaimInv, OneProcess \/ NoneRestarts,
         NEW p \in Pods, NEW j \in Jobs, Recover(p, j) \/ DelayedEnqueue(p, j)
  PROVE  ClaimInv'
<1>0. row \in [Jobs -> Row]
  BY DEF TypeInv, TypeOK, StoreTypeOK
<1>1. UNCHANGED <<pod, wpc, wjob>>
  BY DEF Recover, DelayedEnqueue, podVars, workerVars
<1>2. CASE UNCHANGED storeVars
  BY <1>1, <1>2 DEF storeVars, ClaimInv, Created, Exclusive, ReleasesOK, Release, OneWrite,
                    AwaitedBy, Engaged, Present, Known
<1>3. CASE Recover(p, j) /\ Transition(j, listed[p][j], "RECEIVED")
  <2>1. pod[p] = "recovering" /\ listed[p][j] # "ABSENT"
    BY <1>3 DEF Recover, Recovering
  <2>2. OneProcess
    BY <2>1 DEF NoneRestarts, MemoryInv, NoRestart
  <2>3. Unseen(p, j)
    BY <2>1 DEF MemoryInv, ListedUnseen
  <2>4. \A w \in Workers : w[1] = p
    BY <2>2 DEF OneProcess, Workers
  <2>5. \A w \in Workers : wjob[w] # j
    BY <2>3, <2>4 DEF Unseen
  <2>6. /\ writes' = writes /\ created' = created /\ Present(j)
        /\ \A k \in Jobs : k # j => row'[k] = row[k]
    BY <1>0, <1>3, <2>1 DEF Transition, Present
  <2>7. \A k \in Jobs : Present(k)' => Known(k)'
    BY <2>6 DEF ClaimInv, Created, Present, Known
  <2>8. \A w \in Workers : Engaged(w) => row'[wjob[w]].status # "RECEIVED"
    BY <2>5, <2>6, EngagedJob DEF ClaimInv, Exclusive, EngagedHasJob
  <2> QED BY <1>1, <2>6, <2>7, <2>8, TableClaims DEF Known
<1> QED BY <1>2, <1>3 DEF Recover, DelayedEnqueue

LEMMA ClaimStepOK ==
  ASSUME TypeInv, MemoryInv, ClaimInv, OneProcess \/ NoneRestarts, [Next]_vars
  PROVE  ClaimInv'
<1>1. ASSUME NEW w \in Workers, WorkerStep(w) \/ Expire(w) \/ StoreFails(w)
      PROVE  ClaimInv'
  BY <1>1, QuietStep, ClaimClaims, BeginUpdateClaims, EndUpdateClaims, FaultClaims
  DEF WorkerStep, Claimless
<1>2. ASSUME NEW h \in Handlers, Request(h) \/ HandlerStep(h) PROVE ClaimInv'
  BY <1>2, HandlerClaims
<1>3. ASSUME \/ \E j \in Jobs : RetryDue(j)
             \/ \E t \in Tenants : Clear(t)
      PROVE  ClaimInv'
  BY <1>3, OutsideClaims
<1>4. ASSUME \/ \E u \in writes : LandOrphan(u)
             \/ \E p \in Pods : EndStale(p)
      PROVE  ClaimInv'
  BY <1>4, OtherLandClaims
<1>5. ASSUME NEW p \in Pods, NEW j \in Jobs, Recover(p, j) \/ DelayedEnqueue(p, j)
      PROVE  ClaimInv'
  BY <1>5, RecoverClaims
<1>6. ASSUME NEW p \in Pods, NEW j \in Jobs, BeginStale(p, j) PROVE ClaimInv'
  BY <1>6, BeginOtherClaims
<1>7. ASSUME NEW p \in Pods, Start(p) \/ Serve(p) \/ RecoveryFails(p)
                             \/ Stop(p) \/ StopStep(p) \/ Crash(p)
      PROVE  ClaimInv'
  BY <1>7, LifeClaims
<1>8. CASE UNCHANGED vars
  BY <1>8 DEF vars, storeVars, podVars, workerVars, ClaimInv, Created, Exclusive, ReleasesOK,
              Release, OneWrite, AwaitedBy, Engaged, Present, Known
<1> QED BY <1>1, <1>2, <1>3, <1>4, <1>5, <1>6, <1>7, <1>8 DEF Next, PodStep

LEMMA ClaimInitially == ASSUME PipelineInit PROVE ClaimInv
  BY DEF PipelineInit, StoreInit, ClaimInv, Created, Exclusive, ReleasesOK, OneWrite,
         AwaitedBy, Engaged, Owning, Settling, Present, Absent

LEMMA RunnerInvariant ==
  ASSUME OneProcess \/ NoneRestarts
  PROVE  Spec => []IInv
<1>1. PipelineInit => IInv
  BY TypeInitially, MemoryInitially, ClaimInitially,
     StoreAssumption, PipelineAssumption, BoundAssumption DEF IInv
<1>2. IInv /\ [Next]_vars => IInv'
  BY TypeStep, MemoryStep, ClaimStepOK,
     StoreAssumption, PipelineAssumption, BoundAssumption DEF IInv
<1> QED BY <1>1, <1>2, PTL DEF Spec

\* No two workers run one job at the same time, whatever is submitted, executed,
\* timed out, orphaned, cleared, stopped, crashed and recovered: with one server
\* process, or with several of which none starts after the first job.  (With
\* starts next to a running process it is false: recovery takes its jobs.)
THEOREM OneRunner ==
  ASSUME OneProcess \/ NoneRestarts
  PROVE  Spec => []SingleRunner
<1>1. IInv => SingleRunner
  BY DEF IInv, ClaimInv, Exclusive, Engaged, SingleRunner
<1> QED BY <1>1, RunnerInvariant, PTL
-----------------------------------------------------------------------------
(* A commit runs once.                                                     *)
(*                                                                         *)
(* Where every submission carries text and no tenant is cleared, the first *)
(* job of a commit stays the one its index names, and stays reusable, so   *)
(* create_job never replaces it.  Two workers on jobs of one commit are    *)
(* then two workers on one job.                                            *)

TextRow(r) == r.status # "ABSENT" /\ r.text

OneOfEach ==
  \A c \in Commits :
    /\ created[c] \in {0, 1}
    /\ created[c] = 1 => index[c] = 1 /\ TextRow(row[<<c, 1>>])

TextInv == OneOfEach /\ \A u \in writes : TextRow(u.row)

LEMMA TextKept ==
  ASSUME TypeInv, TextInv, UNCHANGED <<index, created>>,
         \A j \in Jobs : TextRow(row[j]) => TextRow(row'[j]),
         \A u \in writes' : TextRow(u.row)
  PROVE  TextInv'
<1>1. \A c \in Commits : created[c] = 1 => <<c, 1>> \in Jobs
  <2>1. \A c \in Commits : created[c] \in 0 .. MaxGen /\ MaxGen \in Nat
    BY StoreAssumption DEF TypeInv, TypeOK, StoreTypeOK
  <2>2. \A c \in Commits : created[c] = 1 => 1 \in 1 .. MaxGen
    BY <2>1
  <2> QED BY <2>2 DEF Jobs
<1> QED BY <1>1 DEF TextInv, OneOfEach

\* A job that is known is the only one of its commit, and is stored with text.
LEMMA KnownIsOnly ==
  ASSUME TypeInv, TextInv, NEW j \in Jobs, Known(j)
  PROVE  j = <<j[1], 1>> /\ TextRow(row[j])
<1>1. j[1] \in Commits /\ j[2] \in 1 .. MaxGen /\ j = <<j[1], j[2]>> /\ MaxGen \in Nat
  BY StoreAssumption DEF Jobs
<1>2. created[j[1]] \in {0, 1}
  BY <1>1 DEF TextInv, OneOfEach
<1>3. j[2] = 1 /\ created[j[1]] = 1
  BY <1>1, <1>2 DEF Known
<1> QED BY <1>1, <1>3 DEF TextInv, OneOfEach

LEMMA PatchedText == \A r \in Row, op \in Ops : TextRow(r) => TextRow(Patched(r, op))
  BY DEF Row, Patched, Ops, UpdateOps, TextRow

LEMMA ReadText ==
  ASSUME TypeInv, TextInv, Created, NEW by, NEW p, NEW j \in Jobs, NEW op \in Ops,
         Read(by, p, j, op)
  PROVE  TextInv'
<1>1. TextRow(row[j]) /\ row[j] \in Row
  BY KnownIsOnly DEF Read, Created, TypeInv, TypeOK, StoreTypeOK
<1>2. TextRow(Patched(row[j], op))
  BY <1>1, PatchedText
<1>3. \A u \in writes' : u \in writes \/ u.row = Patched(row[j], op)
  BY DEF Read
<1>4. \A u \in writes' : TextRow(u.row)
  BY <1>2, <1>3 DEF TextInv
<1> QED BY <1>4, TextKept DEF Read

LEMMA LandText ==
  ASSUME TypeInv, TextInv, Created, NEW u \in writes, Land(u)
  PROVE  TextInv'
<1>1. u.job \in Jobs /\ u.row \in Row /\ row[u.job] \in Row /\ row \in [Jobs -> Row]
  BY DEF TypeInv, TypeOK, StoreTypeOK, Write
<1>2. TextRow(u.row) /\ TextRow(row[u.job]) /\ Present(u.job)
  BY <1>1, KnownIsOnly DEF TextInv, Created, TextRow, Present
<1>3. TextRow(Landed(u))
  BY <1>1, <1>2 DEF Landed, TextRow, Row
<1>4. \A j \in Jobs : TextRow(row[j]) => TextRow(row'[j])
  BY <1>1, <1>3 DEF Land
<1>5. \A v \in writes' : TextRow(v.row)
  BY DEF Land, TextInv
<1> QED BY <1>4, <1>5, TextKept DEF Land

LEMMA TransitionText ==
  ASSUME TypeInv, TextInv, NEW j \in Jobs, NEW from, NEW to \in Statuses,
         Transition(j, from, to)
  PROVE  TextInv'
<1>1. \A k \in Jobs : TextRow(row[k]) => TextRow(row'[k])
  BY DEF TypeInv, TypeOK, StoreTypeOK, Row, Transition, TextRow, Statuses, Pending, Failures
<1>2. \A u \in writes' : TextRow(u.row)
  BY DEF Transition, TextInv
<1> QED BY <1>1, <1>2, TextKept DEF Transition

LEMMA CreateText ==
  ASSUME TypeInv, TextInv, NEW c \in Commits, Create(c, TRUE)
  PROVE  TextInv'
<1>1. created \in [Commits -> 0 .. MaxGen] /\ index \in [Commits -> 0 .. MaxGen]
      /\ MaxGen \in Nat /\ row \in [Jobs -> Row]
  BY StoreAssumption DEF TypeInv, TypeOK, StoreTypeOK
<1>2. created[c] = 0
  <2>1. created[c] = 1 => index[c] = 1 /\ row[<<c, 1>>].status # "ABSENT" /\ row[<<c, 1>>].text
    BY DEF TextInv, OneOfEach, TextRow
  <2>2. ASSUME created[c] = 1 PROVE Reusable(c)
    <3>1. index[c] # 0 /\ <<c, index[c]>> = <<c, 1>>
      BY <2>1, <2>2
    <3> QED BY <2>1, <2>2, <3>1, Zenon DEF Reusable, Present
  <2> QED BY <2>2 DEF Create, TextInv, OneOfEach
<1>3. created'[c] = 1 /\ index'[c] = 1 /\ 1 \in 1 .. MaxGen
  BY <1>1, <1>2 DEF Create
<1>4. <<c, 1>> \in Jobs
  BY <1>3 DEF Jobs
<1>5. row'[<<c, 1>>] = NewRow(TRUE)
  BY <1>2, <1>4 DEF Create
<1>6. TextRow(row'[<<c, 1>>])
  BY <1>5 DEF NewRow, Absent, TextRow
<1>7. ASSUME NEW d \in Commits, d # c, created[d] = 1
      PROVE  row'[<<d, 1>>] = row[<<d, 1>>]
  <2>1. <<d, 1>> \in Jobs
    BY <1>3 DEF Jobs
  <2>2. <<d, 1>> # <<c, created[c] + 1>> /\ <<d, 1>> # <<c, index[c]>>
    BY <1>7
  <2> QED BY <2>1, <2>2 DEF Create
<1>8. \A d \in Commits : d # c => created'[d] = created[d] /\ index'[d] = index[d]
  BY <1>1 DEF Create
<1>9. OneOfEach'
  BY <1>3, <1>6, <1>7, <1>8 DEF TextInv, OneOfEach
<1> QED BY <1>9 DEF TextInv, Create

\* Writes that are dropped, orphaned or overtaken by their retry time.
LEMMA SameText ==
  ASSUME TypeInv, TextInv, UNCHANGED <<index, created>>,
         \A j \in Jobs : row'[j].status = row[j].status /\ row'[j].text = row[j].text,
         \A u \in writes' : \E v \in writes :
           u.row.status = v.row.status /\ u.row.text = v.row.text
  PROVE  TextInv'
<1>1. \A u \in writes' : TextRow(u.row)
  BY DEF TextInv, TextRow
<1> QED BY <1>1, TextKept DEF TextRow

LEMMA TextStep ==
  ASSUME TypeInv, TextInv, Created, Texts \subseteq {TRUE}, MaxClears = 0, [Next]_vars
  PROVE  TextInv'
<1>0. /\ row \in [Jobs -> Row] /\ \A u \in writes : u \in Write
      /\ used.clears \in 0 .. MaxClears
  BY DEF TypeInv, TypeOK, StoreTypeOK
<1>1. ASSUME UNCHANGED storeVars PROVE TextInv'
  BY <1>1, SameText DEF storeVars
<1>2. ASSUME NEW w \in Workers, WorkerStep(w) PROVE TextInv'
  <2>1. CASE Claimless(w)
    BY <1>1, <2>1 DEF Claimless, Get, Fetch, AcquireGlobal, AcquireTenant, Load, Prepare,
                      Extract, SessionWrite, SkipUpdate, JudgeTimeout
  <2>2. CASE Claim(w)
    <3>1. wjob[w] \in Jobs /\ "STAGE2_RUNNING" \in Statuses
      BY <2>2 DEF Claim, TypeInv, JobsInHand, Statuses, Pending
    <3> QED BY <1>1, <2>2, <3>1, TransitionText DEF Claim
  <2>3. CASE BeginUpdate(w)
    <3>1. wjob[w] \in Jobs /\ wpc[w] \in Ops
      BY <2>3 DEF BeginUpdate, TypeInv, JobsInHand, UpdateOps, Ops
    <3> QED BY <2>3, <3>1, ReadText DEF BeginUpdate
  <2>4. CASE EndUpdate(w)
    BY <2>4, LandText DEF EndUpdate, AwaitedBy
  <2> QED BY <1>2, <2>1, <2>2, <2>3, <2>4 DEF WorkerStep, Claimless
<1>3. ASSUME NEW w \in Workers, Expire(w) \/ StoreFails(w) PROVE TextInv'
  <2>1. UNCHANGED <<row, index, created>>
    BY <1>3 DEF Expire, StoreFails
  <2>2. ASSUME NEW u \in writes' PROVE \E v \in writes : u.row = v.row
    <3>1. CASE Expire(w)
      <4>1. PICK v \in writes :
              u = IF v.by = <<"worker", w>> THEN [v EXCEPT !.live = FALSE] ELSE v
        BY <3>1 DEF Expire, Orphaned
      <4> QED BY <1>0, <4>1 DEF Write
    <3>2. CASE StoreFails(w)
      BY <3>2 DEF StoreFails
    <3> QED BY <1>3, <3>1, <3>2
  <2> QED BY <2>1, <2>2, SameText
<1>4. ASSUME NEW h \in Handlers, Request(h) \/ HandlerStep(h) PROVE TextInv'
  <2>1. ASSUME NEW c \in Commits, NEW text \in Texts, Create(c, text) PROVE TextInv'
    <3>1. text = TRUE
      OBVIOUS
    <3> QED BY <2>1, <3>1, CreateText
  <2>2. CASE Request(h)
    BY <1>1, <2>1, <2>2 DEF Request, Submit, Execute
  <2>3. CASE BeginRefusal(h)
    <3>1. hjob[h] \in Jobs /\ "enqfail" \in Ops
      BY <2>3 DEF BeginRefusal, TypeInv, JobsInHand, Ops
    <3> QED BY <2>3, <3>1, ReadText DEF BeginRefusal
  <2>4. CASE EndRefusal(h)
    BY <2>4, LandText DEF EndRefusal, AwaitedBy
  <2>5. CASE Accept(h) \/ SkipRefusal(h)
    BY <1>1, <2>5 DEF Accept, SkipRefusal
  <2> QED BY <1>4, <2>2, <2>3, <2>4, <2>5 DEF HandlerStep
<1>5. ASSUME NEW j \in Jobs, RetryDue(j) PROVE TextInv'
  <2>1. \A k \in Jobs : row'[k].status = row[k].status /\ row'[k].text = row[k].text
    BY <1>0, <1>5 DEF RetryDue, Row
  <2>2. \A v \in Write : /\ [v EXCEPT !.row.retry = "due"].row.status = v.row.status
                         /\ [v EXCEPT !.row.retry = "due"].row.text = v.row.text
    BY DEF Write, Row
  <2>3. ASSUME NEW u \in writes' PROVE \E v \in writes :
          u.row.status = v.row.status /\ u.row.text = v.row.text
    <3>1. PICK v \in writes : u = IF v.job = j /\ v.row.retry = "future"
                                 THEN [v EXCEPT !.row.retry = "due"] ELSE v
      BY <1>5 DEF RetryDue
    <3>2. u.row.status = v.row.status /\ u.row.text = v.row.text
      BY <1>0, <2>2, <3>1
    <3> QED BY <3>2
  <2> QED BY <1>5, <2>1, <2>3, SameText DEF RetryDue
<1>6. ASSUME NEW u \in writes, LandOrphan(u) PROVE TextInv'
  BY <1>6, LandText DEF LandOrphan
<1>7. ASSUME NEW t \in Tenants, Clear(t) PROVE FALSE
  BY <1>0, <1>7 DEF Clear
<1>8. ASSUME NEW p \in Pods,
             PodStep(p) \/ StopStep(p) \/ Stop(p) \/ Crash(p) \/ RecoveryFails(p)
      PROVE  TextInv'
  <2>1. CASE EndStale(p)
    BY <2>1, LandText DEF EndStale, AwaitedBy
  <2>2. ASSUME NEW j \in Jobs, Recover(p, j) PROVE TextInv'
    <3>1. "RECEIVED" \in Statuses
      BY DEF Statuses, Pending
    <3> QED BY <1>1, <2>2, <3>1, TransitionText DEF Recover
  <2>3. ASSUME NEW j \in Jobs, DelayedEnqueue(p, j) PROVE TextInv'
    BY <1>1, <2>3 DEF DelayedEnqueue
  <2>4. CASE Start(p) \/ Serve(p) \/ PutPoison(p) \/ Exit(p) \/ Stop(p)
    BY <1>1, <2>4 DEF Start, Recoverable, Serve, PutPoison, Exit, Stop
  <2>5. CASE StopEnds(p) \/ Crash(p) \/ RecoveryFails(p)
    <3>1. UNCHANGED <<row, index, created>>
      BY <2>5 DEF StopEnds, Crash, RecoveryFails
    <3>2. \A u \in writes' : \E v \in writes :
            u.row.status = v.row.status /\ u.row.text = v.row.text
      BY <1>0, <2>5 DEF StopEnds, Crash, RecoveryFails, Write
    <3> QED BY <3>1, <3>2, SameText
  <2> QED BY <1>8, <2>1, <2>2, <2>3, <2>4, <2>5 DEF PodStep, StopStep
<1>9. ASSUME NEW p \in Pods, NEW j \in Jobs, BeginStale(p, j) PROVE TextInv'
  BY <1>9, ReadText DEF BeginStale, Ops
<1>10. CASE UNCHANGED vars
  BY <1>1, <1>10 DEF vars
<1> QED BY <1>2, <1>3, <1>4, <1>5, <1>6, <1>7, <1>8, <1>9, <1>10 DEF Next

\* commit_id does block duplicate parallel execution, under the conditions of
\* OneRunner, where every submission carries text and no tenant is cleared.
\* (A job without text is replaced by the next submission of its commit, and a
\* cleared one forgotten, while a worker may still be at work on it.)
THEOREM OneRunACommit ==
  ASSUME OneProcess \/ NoneRestarts, Texts \subseteq {TRUE}, MaxClears = 0
  PROVE  Spec => []CommitRunsOnce
<1>1. PipelineInit => TextInv
  BY DEF PipelineInit, StoreInit, TextInv, OneOfEach
<1>2. IInv /\ TextInv /\ [Next]_vars => TextInv'
  BY TextStep DEF IInv, ClaimInv
<1>3. IInv /\ TextInv => CommitRunsOnce
  <2> SUFFICES ASSUME IInv, TextInv, NEW v \in Workers, NEW w \in Workers,
                      wpc[v] \in Owning, wpc[w] \in Owning, wjob[v][1] = wjob[w][1]
               PROVE  v = w
    BY DEF CommitRunsOnce
  <2>1. Engaged(v) /\ Engaged(w)
    BY DEF Engaged
  <2>2. wjob[v] \in Jobs /\ wjob[w] \in Jobs /\ Known(wjob[v]) /\ Known(wjob[w])
    BY <2>1, EngagedJob DEF IInv, ClaimInv, Created, EngagedHasJob
  <2>3. wjob[v] = <<wjob[v][1], 1>> /\ wjob[w] = <<wjob[w][1], 1>>
    BY <2>2, KnownIsOnly DEF IInv
  <2>4. wjob[v] = wjob[w]
    BY <2>3
  <2> QED BY <2>1, <2>4 DEF IInv, ClaimInv, Exclusive
<1> QED BY <1>1, <1>2, <1>3, RunnerInvariant, PTL DEF Spec
-----------------------------------------------------------------------------
(* A finished job stays finished, and an accepted one is in somebody's     *)
(* hands.                                                                  *)
(*                                                                         *)
(* Both need to know whose every write is.  Where no timeout expires in a  *)
(* store call, a write that has not landed yet belongs to the worker that  *)
(* holds the job, to the recovery that has listed it, or to a process      *)
(* whose workers are gone: so it is the only one on its job, and the job   *)
(* it was read from is still the one it replaces.                          *)

AwaitedByWorker(u) ==
  /\ u.live
  /\ \E w \in Workers : /\ u.by = <<"worker", w>> /\ u.pod = w[1]
                        /\ u.op \in UpdateOps /\ wpc[w] = u.op /\ wjob[w] = u.job

AwaitedByRecovery(u) ==
  /\ u.live
  /\ u.by = <<"recovery", u.pod>> /\ u.op = "stale"
  /\ pod[u.pod] = "recovering" /\ listed[u.pod][u.job] # "ABSENT"

LeftBehind(u) == ~u.live /\ pod[u.pod] = "exiting"

Owned(u) == AwaitedByWorker(u) \/ AwaitedByRecovery(u) \/ LeftBehind(u)

\* What the last write of a run leaves behind is not pending, only the success
\* of a run completes a job, and a retry makes it RECEIVED.
Closing == {"complete", "reject", "fail2", "fail3", "giveup", "stale"}

Meant(u) ==
  /\ u.op \in Closing => u.row.status \notin Pending
  /\ u.row.status = "COMPLETED" => u.op = "complete"
  /\ u.op = "retry" => u.row.status = "RECEIVED"

WritesFit ==
  /\ \A u \in writes : Owned(u) /\ Meant(u) /\ row[u.job].status # "COMPLETED"
  /\ \A u, v \in writes : u.job = v.job => u = v

Unfinished == \A w \in Workers : Engaged(w) => row[wjob[w]].status # "COMPLETED"

\* What recovery has listed has not moved since, but for being deleted.
ListedAsStored ==
  \A p \in Pods, j \in Jobs :
    pod[p] = "recovering" /\ listed[p][j] # "ABSENT" =>
      Known(j) /\ row[j].status \in {listed[p][j], "ABSENT"}

FinalInv == WritesFit /\ Unfinished /\ ListedAsStored

NoCallTimesOut == TimeoutPoints \cap UpdateOps = {}

LEMMA FinalParts ==
  ASSUME IInv
  PROVE  /\ row \in [Jobs -> Row]
         /\ \A u \in writes : u \in Write /\ u.job \in Jobs /\ u.row \in Row /\ u.pod \in Pods
         /\ wpc \in [Workers -> WorkerPc] /\ wjob \in [Workers -> Jobs \cup {NoJob}]
         /\ \A w \in Workers : w[1] \in Pods
         /\ \A w \in Workers : Engaged(w) => wjob[w] \in Jobs
         /\ listed \in [Pods -> [Jobs -> Pending \cup {"ABSENT"}]]
         /\ MemoryOK
  BY EngagedJob, TypeInvParts
  DEF IInv, TypeInv, TypeOK, StoreTypeOK, Write, Workers, EngagedHasJob

\* While a process ends, or recovery has a job listed, no worker is on that job.
LEMMA NobodyElse ==
  ASSUME IInv, OneProcess \/ NoneRestarts, NEW p \in Pods
  PROVE  /\ pod[p] = "exiting" =>
              /\ \A w \in Workers : ~Engaged(w)
              /\ \A q \in Pods : pod[q] = "exiting"
         /\ \A j \in Jobs : pod[p] = "recovering" /\ listed[p][j] # "ABSENT" =>
              /\ \A w \in Workers : wjob[w] # j
              /\ \A q \in Pods : q = p
<1>1. CASE NoneRestarts
  BY <1>1 DEF NoneRestarts, IInv, MemoryInv, NoRestart
<1>2. CASE OneProcess
  <2>1. \A q \in Pods : q = p
    BY <1>2 DEF OneProcess
  <2>2. \A w \in Workers : w[1] = p
    BY <2>1 DEF Workers
  <2>3. pod[p] = "exiting" => \A w \in Workers : ~Engaged(w)
    BY <2>2 DEF IInv, MemoryInv, Gone, Engaged, Owning, Settling
  <2>4. \A j \in Jobs : pod[p] = "recovering" /\ listed[p][j] # "ABSENT" => Unseen(p, j)
    BY DEF IInv, MemoryInv, ListedUnseen
  <2> QED BY <2>1, <2>2, <2>3, <2>4 DEF Unseen
<1> QED BY <1>1, <1>2

\* Nothing is awaited by a worker that is not at a store call.
LEMMA AwaitsOnlyCalls ==
  ASSUME WritesFit, NEW w \in Workers, NEW u \in AwaitedBy(<<"worker", w>>)
  PROVE  /\ u.pod = w[1] /\ u.op \in UpdateOps /\ wpc[w] = u.op /\ wjob[w] = u.job
         /\ Engaged(w)
<1>1. u \in writes /\ u.live /\ u.by = <<"worker", w>>
  BY DEF AwaitedBy
<1>2. AwaitedByWorker(u)
  BY <1>1 DEF WritesFit, Owned, AwaitedByRecovery, LeftBehind
<1>3. \A v : <<"worker", v>> = <<"worker", w>> => v = w
  OBVIOUS
<1>4. u.pod = w[1] /\ u.op \in UpdateOps /\ wpc[w] = u.op /\ wjob[w] = u.job
  BY <1>1, <1>2, <1>3 DEF AwaitedByWorker
<1> QED BY <1>4 DEF Engaged, UpdateOps, Owning, Settling

LEMMA NoHandlerWrites ==
  ASSUME WritesFit, NEW h
  PROVE  AwaitedBy(<<"handler", h>>) = {}
<1>1. SUFFICES ASSUME NEW u \in writes, u.live, u.by = <<"handler", h>> PROVE FALSE
  BY DEF AwaitedBy
<1>2. AwaitedByWorker(u) \/ AwaitedByRecovery(u)
  BY <1>1 DEF WritesFit, Owned, LeftBehind
<1> QED BY <1>1, <1>2 DEF AwaitedByWorker, AwaitedByRecovery

LEMMA RecoveryWrites ==
  ASSUME WritesFit, NEW p, NEW u \in AwaitedBy(<<"recovery", p>>)
  PROVE  AwaitedByRecovery(u) /\ u.pod = p
<1>1. u \in writes /\ u.live /\ u.by = <<"recovery", p>>
  BY DEF AwaitedBy
<1>2. AwaitedByRecovery(u)
  BY <1>1 DEF WritesFit, Owned, LeftBehind, AwaitedByWorker
<1>3. <<"recovery", u.pod>> = <<"recovery", p>>
  BY <1>1, <1>2 DEF AwaitedByRecovery
<1> QED BY <1>2, <1>3

\* The rows change and the writes stay: a job that moves is neither listed nor
\* completed by it.
LEMMA FinalTables ==
  ASSUME IInv, FinalInv, UNCHANGED <<writes, pod>>,
         \A w \in Workers : AwaitedBy(<<"worker", w>>) # {} =>
           wpc'[w] = wpc[w] /\ wjob'[w] = wjob[w],
         \A w \in Workers : Engaged(w)' =>
           (Engaged(w) /\ wjob'[w] = wjob[w]) \/ row'[wjob'[w]].status # "COMPLETED",
         \A p \in Pods, j \in Jobs : listed'[p][j] \in {listed[p][j], "ABSENT"},
         \A p \in Pods : AwaitedBy(<<"recovery", p>>) # {} => listed'[p] = listed[p],
         \A j \in Jobs : Known(j) => Known(j)',
         \A j \in Jobs : \/ row'[j].status \in {row[j].status, "ABSENT"}
                         \/ /\ row'[j].status # "COMPLETED"
                            /\ \A p \in Pods : pod[p] = "recovering" =>
                                 listed'[p][j] = "ABSENT"
  PROVE  FinalInv'
<1>0. \A u \in writes : u.job \in Jobs /\ u.pod \in Pods
  BY FinalParts
<1>1. ASSUME NEW u \in writes PROVE Owned(u)'
  <2>1. CASE AwaitedByWorker(u)
    <3>1. PICK w \in Workers : /\ u.by = <<"worker", w>> /\ u.pod = w[1]
                               /\ u.op \in UpdateOps /\ wpc[w] = u.op /\ wjob[w] = u.job
      BY <2>1 DEF AwaitedByWorker
    <3>2. u \in AwaitedBy(<<"worker", w>>)
      BY <2>1, <3>1 DEF AwaitedBy, AwaitedByWorker
    <3> QED BY <2>1, <3>1, <3>2 DEF Owned, AwaitedByWorker
  <2>2. CASE AwaitedByRecovery(u)
    <3>1. u \in AwaitedBy(<<"recovery", u.pod>>)
      BY <2>2 DEF AwaitedBy, AwaitedByRecovery
    <3>2. listed'[u.pod] = listed[u.pod]
      BY <1>0, <3>1
    <3> QED BY <2>2, <3>2 DEF Owned, AwaitedByRecovery
  <2>3. CASE LeftBehind(u)
    BY <2>3 DEF Owned, LeftBehind
  <2> QED BY <2>1, <2>2, <2>3 DEF FinalInv, WritesFit, Owned
<1>2. ASSUME NEW u \in writes PROVE row'[u.job].status # "COMPLETED"
  BY <1>0 DEF FinalInv, WritesFit
<1>3. WritesFit'
  BY <1>1, <1>2 DEF FinalInv, WritesFit, Meant
<1>4. Unfinished'
  BY FinalParts DEF FinalInv, Unfinished
<1>5. ListedAsStored'
  BY DEF FinalInv, ListedAsStored
<1> QED BY <1>3, <1>4, <1>5 DEF FinalInv

\* Writes that are dropped or left behind, workers that let go, and pods that
\* move on.
LEMMA FinalDrop ==
  ASSUME IInv, FinalInv, UNCHANGED <<row, created>>,
         \A u \in writes' : Owned(u)',
         \A u \in writes' : \E v \in writes :
           /\ u.job = v.job /\ u.row = v.row /\ u.op = v.op
           /\ u = v \/ u = [v EXCEPT !.live = FALSE],
         \A u, v \in writes' : u.job = v.job => u = v,
         \A w \in Workers : Engaged(w)' => Engaged(w) /\ wjob'[w] = wjob[w],
         ListedAsStored'
  PROVE  FinalInv'
<1>1. WritesFit'
  BY DEF FinalInv, WritesFit, Meant
<1>2. Unfinished'
  BY DEF FinalInv, Unfinished
<1> QED BY <1>1, <1>2 DEF FinalInv

LEMMA PatchedMeant ==
  \A r \in Row, op \in Ops :
    /\ op \in Closing => Patched(r, op).status \notin Pending
    /\ r.status # "COMPLETED" /\ Patched(r, op).status = "COMPLETED" => op = "complete"
    /\ op = "retry" => Patched(r, op).status = "RECEIVED"
  BY DEF Row, Patched, Ops, UpdateOps, Closing, Pending

LEMMA FinalRead ==
  ASSUME IInv, FinalInv, NEW by, NEW p \in Pods, NEW j \in Jobs, NEW op \in Ops,
         Read(by, p, j, op), UNCHANGED <<pod, listed, wpc, wjob>>,
         row[j].status # "COMPLETED",
         \A u \in writes : u.job # j,
         \/ \E w \in Workers : /\ by = <<"worker", w>> /\ p = w[1]
                               /\ op \in UpdateOps /\ wpc[w] = op /\ wjob[w] = j
         \/ /\ by = <<"recovery", p>> /\ op = "stale"
            /\ pod[p] = "recovering" /\ listed[p][j] # "ABSENT"
  PROVE  FinalInv'
<1>0. PICK new : new = [by |-> by, pod |-> p, live |-> TRUE, job |-> j, op |-> op,
                        row |-> Patched(row[j], op)]
  OBVIOUS
<1>1. writes' = writes \cup {new} /\ row' = row /\ created' = created
  BY <1>0 DEF Read
<1>2. /\ new.by = by /\ new.pod = p /\ new.live /\ new.job = j /\ new.op = op
      /\ new.row = Patched(row[j], op)
  BY <1>0
<1>3. Owned(new)'
  BY <1>2 DEF Owned, AwaitedByWorker, AwaitedByRecovery
<1>4. Meant(new)
  BY <1>2, FinalParts, PatchedMeant DEF Meant
<1>5. \A u \in writes : Owned(u)'
  BY DEF FinalInv, WritesFit, Owned, AwaitedByWorker, AwaitedByRecovery, LeftBehind
<1>6. WritesFit'
  BY <1>1, <1>2, <1>3, <1>4, <1>5 DEF FinalInv, WritesFit, Meant
<1>7. Unfinished' /\ ListedAsStored'
  BY <1>1 DEF FinalInv, Unfinished, ListedAsStored, Engaged, Known
<1> QED BY <1>6, <1>7 DEF FinalInv

LEMMA FinalLand ==
  ASSUME IInv, FinalInv, NEW u \in writes, Land(u), UNCHANGED pod,
         \A w \in Workers : (AwaitedBy(<<"worker", w>>) \ {u}) # {} =>
           wpc'[w] = wpc[w] /\ wjob'[w] = wjob[w],
         \A w \in Workers : Engaged(w)' =>
           /\ Engaged(w) /\ wjob'[w] = wjob[w]
           /\ wjob[w] = u.job => u.op # "complete",
         \A p \in Pods, j \in Jobs :
           /\ listed'[p][j] \in {listed[p][j], "ABSENT"}
           /\ j # u.job => listed'[p][j] = listed[p][j]
           /\ pod[p] = "recovering" => listed'[p][u.job] = "ABSENT"
  PROVE  FinalInv'
<1>0. \A v \in writes : v.job \in Jobs /\ v.pod \in Pods
  BY FinalParts
<1>1. /\ created' = created /\ writes' = writes \ {u}
      /\ \A j \in Jobs : j # u.job => row'[j] = row[j]
      /\ row'[u.job].status \in {"ABSENT", row[u.job].status, u.row.status}
  BY LandEffect DEF IInv
<1>2. \A v \in writes' : v \in writes /\ v.job # u.job
  BY <1>1 DEF FinalInv, WritesFit
<1>3. ASSUME NEW v \in writes' PROVE Owned(v)'
  <2>1. CASE AwaitedByWorker(v)
    <3>1. PICK w \in Workers : /\ v.by = <<"worker", w>> /\ v.pod = w[1]
                               /\ v.op \in UpdateOps /\ wpc[w] = v.op /\ wjob[w] = v.job
      BY <2>1 DEF AwaitedByWorker
    <3>2. v \in AwaitedBy(<<"worker", w>>) \ {u}
      BY <1>2, <2>1, <3>1 DEF AwaitedBy, AwaitedByWorker
    <3> QED BY <2>1, <3>1, <3>2 DEF Owned, AwaitedByWorker
  <2>2. CASE AwaitedByRecovery(v)
    <3>1. v.job \in Jobs /\ v.pod \in Pods /\ v.job # u.job
      BY <1>0, <1>2
    <3>2. listed'[v.pod][v.job] = listed[v.pod][v.job]
      BY <3>1
    <3> QED BY <2>2, <3>2 DEF Owned, AwaitedByRecovery
  <2>3. CASE LeftBehind(v)
    BY <2>3 DEF Owned, LeftBehind
  <2> QED BY <1>2, <2>1, <2>2, <2>3 DEF FinalInv, WritesFit, Owned
<1>4. WritesFit'
  <2>1. ASSUME NEW v \in writes' PROVE Meant(v)' /\ row'[v.job].status # "COMPLETED"
    BY <1>0, <1>1, <1>2 DEF FinalInv, WritesFit, Meant
  <2> QED BY <1>2, <1>3, <2>1 DEF FinalInv, WritesFit
<1>5. Unfinished'
  <2>1. SUFFICES ASSUME NEW w \in Workers, Engaged(w)'
                 PROVE  row'[wjob'[w]].status # "COMPLETED"
    BY DEF Unfinished
  <2>2. Engaged(w) /\ wjob'[w] = wjob[w] /\ wjob[w] \in Jobs
    BY <2>1, FinalParts
  <2>3. row[wjob[w]].status # "COMPLETED"
    BY <2>2 DEF FinalInv, Unfinished
  <2>4. CASE wjob[w] = u.job
    <3>1. u.row.status # "COMPLETED"
      BY <2>1, <2>4 DEF FinalInv, WritesFit, Meant
    <3> QED BY <1>1, <2>2, <2>3, <2>4, <3>1
  <2> QED BY <1>1, <2>2, <2>3, <2>4
<1>6. ListedAsStored'
  <2>1. SUFFICES ASSUME NEW p \in Pods, NEW j \in Jobs,
                        pod[p] = "recovering", listed'[p][j] # "ABSENT"
                 PROVE  Known(j)' /\ row'[j].status \in {listed'[p][j], "ABSENT"}
    BY DEF ListedAsStored
  <2>2. j # u.job /\ listed'[p][j] = listed[p][j]
    BY <2>1
  <2> QED BY <1>1, <2>1, <2>2 DEF FinalInv, ListedAsStored, Known
<1> QED BY <1>4, <1>5, <1>6 DEF FinalInv

LEMMA FinalUpdate ==
  ASSUME IInv, FinalInv, OneProcess \/ NoneRestarts, NEW w \in Workers,
         BeginUpdate(w) \/ EndUpdate(w)
  PROVE  FinalInv'
<1>1. CASE BeginUpdate(w)
  <2>1. /\ wjob[w] \in Jobs /\ w[1] \in Pods /\ wpc[w] \in Ops /\ wpc[w] \in UpdateOps
        /\ Engaged(w) /\ AwaitedBy(<<"worker", w>>) = {}
    BY <1>1, FinalParts DEF BeginUpdate, UpdateOps, Ops, Engaged, Owning, Settling
  <2>2. row[wjob[w]].status # "COMPLETED"
    BY <2>1 DEF FinalInv, Unfinished
  <2>3. ASSUME NEW u \in writes, u.job = wjob[w] PROVE FALSE
    <3>1. u.pod \in Pods
      BY FinalParts
    <3>2. CASE AwaitedByWorker(u)
      <4>1. PICK v \in Workers : /\ u.by = <<"worker", v>> /\ u.op \in UpdateOps
                                 /\ wpc[v] = u.op /\ wjob[v] = u.job
        BY <3>2 DEF AwaitedByWorker
      <4>2. v = w
        <5>1. Engaged(v)
          BY <4>1 DEF Engaged, UpdateOps, Owning, Settling
        <5> QED BY <2>1, <2>3, <4>1, <5>1 DEF IInv, ClaimInv, Exclusive
      <4> QED BY <2>1, <3>2, <4>1, <4>2 DEF AwaitedBy, AwaitedByWorker
    <3>3. CASE AwaitedByRecovery(u)
      BY <2>1, <2>3, <3>1, <3>3, NobodyElse DEF AwaitedByRecovery
    <3>4. CASE LeftBehind(u)
      BY <2>1, <3>1, <3>4, NobodyElse DEF LeftBehind
    <3> QED BY <3>2, <3>3, <3>4 DEF FinalInv, WritesFit, Owned
  <2>4. Read(<<"worker", w>>, w[1], wjob[w], wpc[w]) /\ UNCHANGED <<pod, listed, wpc, wjob>>
    BY <1>1 DEF BeginUpdate, podVars, workerVars
  <2> QED BY <2>1, <2>2, <2>3, <2>4, FinalRead
<1>2. CASE EndUpdate(w)
  <2>1. PICK u \in AwaitedBy(<<"worker", w>>) : Land(u)
    BY <1>2 DEF EndUpdate
  <2>2. /\ u \in writes /\ u.op \in UpdateOps /\ wpc[w] = u.op /\ wjob[w] = u.job /\ Engaged(w)
        /\ wjob[w] \in Jobs
    BY <2>1, AwaitsOnlyCalls, FinalParts DEF AwaitedBy, FinalInv
  <2>3. OnlyWorker(w) /\ UNCHANGED <<pod, listed>>
    BY <1>2, WorkerAlone DEF WorkerMove, WorkerStep, OnlyWorker, IInv
  <2>4. /\ Engaged(w)' => Engaged(w) /\ wjob'[w] = wjob[w]
        /\ wpc[w] = "complete" => ~Engaged(w)'
    BY <1>2, FinalParts
    DEF EndUpdate, AfterUpdate, UpdateOps, Goto, Finish, Engaged, Owning, Settling
  <2>5. \A v \in Workers : Engaged(v)' =>
          /\ Engaged(v) /\ wjob'[v] = wjob[v]
          /\ wjob[v] = u.job => u.op # "complete"
    <3>1. \A v \in Workers : v # w => (Engaged(v)' <=> Engaged(v)) /\ wjob'[v] = wjob[v]
      BY <2>3 DEF OnlyWorker, Engaged
    <3>2. \A v \in Workers : v # w /\ Engaged(v) => wjob[v] # u.job
      BY <2>2 DEF IInv, ClaimInv, Exclusive
    <3> QED BY <2>2, <2>4, <3>1, <3>2
  <2>6. \A v \in Workers : (AwaitedBy(<<"worker", v>>) \ {u}) # {} =>
          wpc'[v] = wpc[v] /\ wjob'[v] = wjob[v]
    <3>1. \A v \in Workers : (AwaitedBy(<<"worker", v>>) \ {u}) # {} => v # w
      BY <2>1 DEF IInv, ClaimInv, OneWrite
    <3> QED BY <2>3, <3>1 DEF OnlyWorker
  <2>7. \A p \in Pods : pod[p] = "recovering" => listed[p][u.job] = "ABSENT"
    BY <2>2, NobodyElse
  <2> QED BY <2>1, <2>2, <2>3, <2>5, <2>6, <2>7, FinalLand
<1> QED BY <1>1, <1>2

\* A worker that makes no store call, or finds its job free or gone.
LEMMA FinalWorker ==
  ASSUME IInv, FinalInv, OneProcess \/ NoneRestarts, NEW w \in Workers,
         Claimless(w) \/ Claim(w)
  PROVE  FinalInv'
<1>1. OnlyWorker(w) /\ UNCHANGED <<pod, listed>>
  BY WorkerAlone DEF Claimless, WorkerMove, WorkerStep, OnlyWorker, IInv
<1>2. AwaitedBy(<<"worker", w>>) = {}
  <2>1. wpc[w] \in UpdateOps => AwaitedBy(<<"worker", w>>) = {}
    BY DEF Claimless, Claim, Get, Fetch, AcquireGlobal, AcquireTenant, Load, Prepare, Extract,
           SessionWrite, SkipUpdate, JudgeTimeout, UpdateOps
  <2> QED BY <2>1, AwaitsOnlyCalls DEF FinalInv
<1>3. \A v \in Workers : AwaitedBy(<<"worker", v>>) # {} =>
        wpc'[v] = wpc[v] /\ wjob'[v] = wjob[v]
  BY <1>1, <1>2 DEF OnlyWorker
<1>4. CASE UNCHANGED storeVars /\ (Engaged(w)' => Engaged(w) /\ wjob'[w] = wjob[w])
  <2>1. \A v \in Workers : Engaged(v)' => Engaged(v) /\ wjob'[v] = wjob[v]
    BY <1>1, <1>4 DEF OnlyWorker, Engaged
  <2>2. UNCHANGED <<row, created, writes>>
    BY <1>4 DEF storeVars
  <2> QED BY <1>1, <1>3, <2>1, <2>2, FinalTables DEF Known
<1>5. CASE Claimless(w)
  BY <1>4, <1>5, ClaimlessEffect DEF IInv
<1>6. CASE Claim(w)
  <2>1. wjob[w] \in Jobs /\ wpc[w] = "claim"
    BY <1>6 DEF Claim, IInv, TypeInv, JobsInHand
  <2>2. CASE UNCHANGED storeVars /\ Finish(w)
    <3>1. ~Engaged(w)'
      BY <2>2, FinalParts DEF Finish, Goto, Engaged, Owning, Settling
    <3> QED BY <1>4, <2>2, <3>1
  <2>3. CASE Transition(wjob[w], "RECEIVED", "STAGE2_RUNNING") /\ wjob' = wjob
    <3>1. /\ row[wjob[w]].status = "RECEIVED" /\ UNCHANGED <<created, writes>>
          /\ row'[wjob[w]].status = "STAGE2_RUNNING"
          /\ \A j \in Jobs : j # wjob[w] => row'[j] = row[j]
      BY <2>1, <2>3, FinalParts DEF Transition, Row
    <3>2. \A v \in Workers : Engaged(v)' =>
            (Engaged(v) /\ wjob'[v] = wjob[v]) \/ row'[wjob'[v]].status # "COMPLETED"
      BY <1>1, <2>3, <3>1 DEF OnlyWorker, Engaged
    <3>3. \A p \in Pods : pod[p] = "recovering" => listed[p][wjob[w]] = "ABSENT"
      BY <2>1, NobodyElse
    <3> QED BY <1>1, <1>3, <3>1, <3>2, <3>3, FinalTables DEF Known
  <2> QED BY <1>6, <2>2, <2>3 DEF Claim
<1> QED BY <1>5, <1>6

\* With no call that times out, an expiry leaves no write behind.
LEMMA FinalFault ==
  ASSUME IInv, FinalInv, NoCallTimesOut, NEW w \in Workers, Expire(w) \/ StoreFails(w)
  PROVE  FinalInv'
<1>0. OnlyWorker(w) /\ UNCHANGED <<pod, listed, row, created>>
  BY WorkerAlone DEF WorkerMove, OnlyWorker, IInv, Expire, StoreFails
<1>1. Engaged(w)' => Engaged(w) /\ wjob'[w] = wjob[w]
  BY PipelineAssumption, FinalParts
  DEF Expire, StoreFails, UpdateOps, Goto, Finish, Engaged, Owning, Settling
<1>2. \A v \in Workers : Engaged(v)' => Engaged(v) /\ wjob'[v] = wjob[v]
  BY <1>0, <1>1 DEF OnlyWorker, Engaged
<1>3. ASSUME NEW u \in writes'
      PROVE  u \in writes /\ (u.by # <<"worker", w>> \/ ~u.live)
  <2>1. CASE StoreFails(w)
    BY <2>1 DEF StoreFails, AwaitedBy
  <2>2. CASE Expire(w)
    <3>1. wpc[w] \notin UpdateOps
      BY <2>2 DEF Expire, NoCallTimesOut
    <3>2. AwaitedBy(<<"worker", w>>) = {}
      BY <3>1, AwaitsOnlyCalls DEF FinalInv
    <3>3. PICK v \in writes :
            u = IF v.by = <<"worker", w>> THEN [v EXCEPT !.live = FALSE] ELSE v
      BY <2>2 DEF Expire, Orphaned
    <3>4. v.by = <<"worker", w>> => v.live = FALSE
      BY <3>2, FinalParts DEF AwaitedBy, Write
    <3>5. v.by = <<"worker", w>> => [v EXCEPT !.live = FALSE] = v
      BY <3>4, FinalParts DEF Write
    <3> QED BY <3>3, <3>4, <3>5
  <2> QED BY <2>1, <2>2
<1>4. ASSUME NEW u \in writes' PROVE Owned(u)'
  <2>1. u \in writes
    BY <1>3
  <2>2. CASE AwaitedByWorker(u)
    <3>1. PICK v \in Workers : /\ u.by = <<"worker", v>> /\ u.pod = v[1]
                               /\ u.op \in UpdateOps /\ wpc[v] = u.op /\ wjob[v] = u.job
      BY <2>2 DEF AwaitedByWorker
    <3>2. v # w
      BY <1>3, <2>2, <3>1 DEF AwaitedByWorker
    <3> QED BY <1>0, <2>2, <3>1, <3>2 DEF Owned, AwaitedByWorker, OnlyWorker
  <2>3. CASE AwaitedByRecovery(u) \/ LeftBehind(u)
    BY <1>0, <2>3 DEF Owned, AwaitedByRecovery, LeftBehind
  <2> QED BY <2>1, <2>2, <2>3 DEF FinalInv, WritesFit, Owned
<1>5. \A u \in writes' : u \in writes
  BY <1>3
<1>6. ListedAsStored'
  BY <1>0 DEF FinalInv, ListedAsStored, Known
<1>7. \A u, v \in writes' : u.job = v.job => u = v
  BY <1>5 DEF FinalInv, WritesFit
<1> QED BY <1>0, <1>2, <1>4, <1>5, <1>6, <1>7, FinalDrop

LEMMA FinalCreate ==
  ASSUME IInv, FinalInv, NEW c \in Commits, NEW text \in BOOLEAN, Create(c, text),
         UNCHANGED <<pod, listed, wpc, wjob>>
  PROVE  FinalInv'
<1>1. PICK new : new = <<c, created[c] + 1>>
  OBVIOUS
<1>2. writes' = writes /\ created' = [created EXCEPT ![c] = created[c] + 1]
  BY DEF Create
<1>3. created \in [Commits -> 0 .. MaxGen] /\ MaxGen \in Nat
  BY StoreAssumption DEF IInv, TypeInv, TypeOK, StoreTypeOK
<1>4. \A j \in Jobs : j[1] \in Commits /\ j[2] \in Nat
  BY <1>3 DEF Jobs
<1>5. \A j \in Jobs : Known(j) => Known(j)'
  BY <1>2, <1>3, <1>4 DEF Known
<1>6. ~Known(new)
  <2>1. new[1] = c /\ new[2] = created[c] + 1 /\ created[c] \in Nat
    BY <1>1, <1>3
  <2> QED BY <2>1 DEF Known
<1>7. \A j \in Jobs : j # new => row'[j] = row[j] \/ row'[j] = Absent
  BY <1>1 DEF Create
<1>8. new \in Jobs => row'[new].status = "RECEIVED"
  BY <1>1 DEF Create, NewRow, Absent
<1>9. \A p \in Pods : new \in Jobs /\ pod[p] = "recovering" => listed[p][new] = "ABSENT"
  BY <1>6 DEF FinalInv, ListedAsStored
<1>10. \A j \in Jobs : \/ row'[j].status \in {row[j].status, "ABSENT"}
                       \/ /\ row'[j].status # "COMPLETED"
                          /\ \A p \in Pods : pod[p] = "recovering" => listed'[p][j] = "ABSENT"
  BY <1>7, <1>8, <1>9 DEF Absent
<1>11. \A w \in Workers : Engaged(w)' => Engaged(w) /\ wjob'[w] = wjob[w]
  BY DEF Engaged
<1> QED BY <1>2, <1>5, <1>10, <1>11, FinalTables

LEMMA FinalHandler ==
  ASSUME IInv, FinalInv, QueueMax = 0, NEW h \in Handlers, Request(h) \/ HandlerStep(h)
  PROVE  FinalInv'
<1>1. UNCHANGED <<pod, listed, wpc, wjob>>
  BY DEF Request, HandlerStep, Submit, Execute, Accept, BeginRefusal, EndRefusal,
         SkipRefusal, podVars, workerVars
<1>2. CASE UNCHANGED storeVars
  <2>1. UNCHANGED <<row, created, writes>>
    BY <1>2 DEF storeVars
  <2> QED BY <1>1, <2>1, FinalTables DEF Known, Engaged
<1>3. ASSUME NEW c \in Commits, NEW text \in BOOLEAN, Create(c, text) PROVE FinalInv'
  BY <1>1, <1>3, FinalCreate
<1>4. CASE Request(h)
  BY <1>2, <1>3, <1>4, PipelineAssumption DEF Request, Submit, Execute
<1>5. ~BeginRefusal(h) /\ ~SkipRefusal(h)
  BY DEF BeginRefusal, SkipRefusal, Room
<1>6. ~EndRefusal(h)
  BY NoHandlerWrites DEF EndRefusal, FinalInv
<1> QED BY <1>2, <1>4, <1>5, <1>6 DEF HandlerStep, Accept

LEMMA FinalOutside ==
  ASSUME IInv, FinalInv, OneProcess \/ NoneRestarts,
         \/ \E j \in Jobs : RetryDue(j)
         \/ \E u \in writes : LandOrphan(u)
         \/ \E t \in Tenants : Clear(t)
  PROVE  FinalInv'
<1>0. UNCHANGED <<pod, listed, wpc, wjob>>
  BY DEF RetryDue, LandOrphan, Clear, podVars, workerVars
<1>1. ASSUME NEW u \in writes, LandOrphan(u) PROVE FinalInv'
  <2>1. u.pod \in Pods /\ pod[u.pod] = "exiting"
    BY <1>1, FinalParts
    DEF LandOrphan, FinalInv, WritesFit, Owned, AwaitedByWorker, AwaitedByRecovery, LeftBehind
  <2>2. /\ \A w \in Workers : ~Engaged(w)
        /\ \A p \in Pods : pod[p] # "recovering"
    BY <2>1, NobodyElse
  <2>3. ASSUME NEW w \in Workers PROVE AwaitedBy(<<"worker", w>>) = {}
    BY <2>2, AwaitsOnlyCalls DEF FinalInv
  <2>4. \A w \in Workers : ~Engaged(w)'
    BY <1>0, <2>2 DEF Engaged
  <2> QED BY <1>0, <1>1, <2>2, <2>3, <2>4, FinalLand DEF LandOrphan
<1>2. ASSUME NEW t \in Tenants, Clear(t) PROVE FinalInv'
  <2>1. /\ writes' = writes /\ created' = created
        /\ \A j \in Jobs : row'[j] = row[j] \/ row'[j].status = "ABSENT"
    BY <1>2 DEF Clear, ClearTenant, Absent
  <2> QED BY <1>0, <2>1, FinalTables DEF Known, Engaged
<1>3. ASSUME NEW j \in Jobs, RetryDue(j) PROVE FinalInv'
  <2>1. created' = created /\ \A k \in Jobs : row'[k].status = row[k].status
    BY <1>3, FinalParts DEF RetryDue, Row
  <2>2. \A v \in Write : LET d == [v EXCEPT !.row.retry = "due"] IN
          /\ d.by = v.by /\ d.pod = v.pod /\ d.live = v.live /\ d.op = v.op
          /\ d.job = v.job /\ d.row.status = v.row.status
    BY DEF Write, Row
  <2>3. ASSUME NEW u \in writes'
        PROVE  \E v \in writes :
          /\ u = IF v.job = j /\ v.row.retry = "future"
                 THEN [v EXCEPT !.row.retry = "due"] ELSE v
          /\ u.by = v.by /\ u.pod = v.pod /\ u.live = v.live /\ u.op = v.op
          /\ u.job = v.job /\ u.row.status = v.row.status
    <3>1. PICK v \in writes : u = IF v.job = j /\ v.row.retry = "future"
                                  THEN [v EXCEPT !.row.retry = "due"] ELSE v
      BY <1>3 DEF RetryDue
    <3>2. /\ u.by = v.by /\ u.pod = v.pod /\ u.live = v.live /\ u.op = v.op
          /\ u.job = v.job /\ u.row.status = v.row.status
      BY <2>2, <3>1, FinalParts
    <3> QED BY <3>1, <3>2
  <2>4. ASSUME NEW u \in writes' PROVE Owned(u)' /\ Meant(u) /\ row'[u.job].status # "COMPLETED"
    <3>1. PICK v \in writes :
            /\ u.by = v.by /\ u.pod = v.pod /\ u.live = v.live /\ u.op = v.op
            /\ u.job = v.job /\ u.row.status = v.row.status
      BY <2>3
    <3>2. Owned(v) /\ Meant(v) /\ row[v.job].status # "COMPLETED" /\ v.job \in Jobs
      BY FinalParts DEF FinalInv, WritesFit
    <3>3. Owned(u)'
      BY <1>0, <3>1, <3>2 DEF Owned, AwaitedByWorker, AwaitedByRecovery, LeftBehind
    <3> QED BY <2>1, <3>1, <3>2, <3>3 DEF Meant
  <2>5. ASSUME NEW u \in writes', NEW v \in writes', u.job = v.job PROVE u = v
    <3>1. PICK x \in writes : /\ u.job = x.job
                              /\ u = IF x.job = j /\ x.row.retry = "future"
                                     THEN [x EXCEPT !.row.retry = "due"] ELSE x
      BY <2>3
    <3>2. PICK y \in writes : /\ v.job = y.job
                              /\ v = IF y.job = j /\ y.row.retry = "future"
                                     THEN [y EXCEPT !.row.retry = "due"] ELSE y
      BY <2>3
    <3>3. x = y
      BY <2>5, <3>1, <3>2 DEF FinalInv, WritesFit
    <3> QED BY <3>1, <3>2, <3>3
  <2>6. WritesFit'
    BY <2>4, <2>5 DEF WritesFit, Meant
  <2>7. Unfinished' /\ ListedAsStored'
    BY <1>0, <2>1, FinalParts DEF FinalInv, Unfinished, ListedAsStored, Engaged, Known
  <2> QED BY <2>6, <2>7 DEF FinalInv
<1> QED BY <1>1, <1>2, <1>3

LEMMA FinalRecovery ==
  ASSUME IInv, FinalInv, OneProcess \/ NoneRestarts, NEW p \in Pods,
         \/ EndStale(p)
         \/ \E j \in Jobs : Recover(p, j) \/ BeginStale(p, j) \/ DelayedEnqueue(p, j)
  PROVE  FinalInv'
<1>0. UNCHANGED <<pod, wpc, wjob>>
  BY DEF Recover, DelayedEnqueue, BeginStale, EndStale, podVars, workerVars
<1>1. ASSUME NEW j \in Jobs, BeginStale(p, j) PROVE FinalInv'
  <2>1. /\ pod[p] = "recovering" /\ listed[p][j] # "ABSENT"
        /\ AwaitedBy(<<"recovery", p>>) = {}
        /\ Read(<<"recovery", p>>, p, j, "stale") /\ listed' = listed
    BY <1>1 DEF BeginStale, Recovering, podVars
  <2>2. \A w \in Workers : wjob[w] # j
    BY <2>1, NobodyElse
  <2>3. \A q \in Pods : q = p
    BY <2>1, NobodyElse
  <2>4. row[j].status # "COMPLETED"
    BY <2>1, FinalParts DEF FinalInv, ListedAsStored, Pending
  <2>5. ASSUME NEW u \in writes, u.job = j PROVE FALSE
    <3>1. u.pod = p
      BY <2>3, FinalParts
    <3>2. ~AwaitedByWorker(u)
      BY <2>2, <2>5 DEF AwaitedByWorker
    <3>3. ~AwaitedByRecovery(u)
      BY <2>1, <3>1 DEF AwaitedByRecovery, AwaitedBy
    <3>4. ~LeftBehind(u)
      BY <2>1, <3>1 DEF LeftBehind
    <3> QED BY <3>2, <3>3, <3>4 DEF FinalInv, WritesFit, Owned
  <2> QED BY <1>0, <2>1, <2>4, <2>5, FinalRead DEF Ops
<1>2. CASE EndStale(p)
  <2>1. PICK u \in AwaitedBy(<<"recovery", p>>) : Land(u) /\ Recovered(p, u.job)
    BY <1>2 DEF EndStale
  <2>2. /\ u \in writes /\ u.job \in Jobs /\ pod[p] = "recovering"
        /\ listed[p][u.job] # "ABSENT"
    BY <2>1, RecoveryWrites, FinalParts DEF AwaitedBy, AwaitedByRecovery, FinalInv
  <2>3. /\ \A w \in Workers : wjob[w] # u.job
        /\ \A q \in Pods : q = p
    BY <2>2, NobodyElse
  <2>4. \A w \in Workers : (AwaitedBy(<<"worker", w>>) \ {u}) # {} =>
          wpc'[w] = wpc[w] /\ wjob'[w] = wjob[w]
    BY <1>0
  <2>5. \A w \in Workers : Engaged(w)' => /\ Engaged(w) /\ wjob'[w] = wjob[w]
                                          /\ wjob[w] = u.job => u.op # "complete"
    BY <1>0, <2>3 DEF Engaged
  <2>6. \A q \in Pods, j \in Jobs :
          /\ listed'[q][j] \in {listed[q][j], "ABSENT"}
          /\ j # u.job => listed'[q][j] = listed[q][j]
          /\ pod[q] = "recovering" => listed'[q][u.job] = "ABSENT"
    BY <2>1, <2>2, <2>3, FinalParts DEF Recovered
  <2> QED BY <1>0, <2>1, <2>2, <2>4, <2>5, <2>6, FinalLand
<1>3. ASSUME NEW j \in Jobs, DelayedEnqueue(p, j) PROVE FinalInv'
  <2>1. UNCHANGED <<row, created, writes, listed>>
    BY <1>3 DEF DelayedEnqueue, storeVars, podVars
  <2> QED BY <1>0, <2>1, FinalTables DEF Known, Engaged
<1>4. ASSUME NEW j \in Jobs, Recover(p, j) PROVE FinalInv'
  <2>1. /\ pod[p] = "recovering" /\ listed[p][j] # "ABSENT"
        /\ AwaitedBy(<<"recovery", p>>) = {} /\ listed' = [listed EXCEPT ![p][j] = "ABSENT"]
    BY <1>4 DEF Recover, Recovering, Recovered
  <2>2. /\ \A w \in Workers : wjob[w] # j
        /\ \A q \in Pods : q = p
    BY <2>1, NobodyElse
  <2>3. \A q \in Pods, k \in Jobs : /\ listed'[q][k] \in {listed[q][k], "ABSENT"}
                                    /\ listed'[p][j] = "ABSENT"
    BY <2>1, FinalParts
  <2>4. \A q \in Pods : AwaitedBy(<<"recovery", q>>) # {} => listed'[q] = listed[q]
    BY <2>1, <2>2
  <2>5. CASE UNCHANGED storeVars
    <3>1. UNCHANGED <<row, created, writes>>
      BY <2>5 DEF storeVars
    <3> QED BY <1>0, <2>3, <2>4, <3>1, FinalTables DEF Known, Engaged
  <2>6. CASE Transition(j, listed[p][j], "RECEIVED")
    <3>1. /\ UNCHANGED <<created, writes>> /\ row'[j].status = "RECEIVED"
          /\ \A k \in Jobs : k # j => row'[k] = row[k]
      BY <2>6, FinalParts DEF Transition, Row
    <3>2. \A k \in Jobs : \/ row'[k].status \in {row[k].status, "ABSENT"}
                          \/ /\ row'[k].status # "COMPLETED"
                             /\ \A q \in Pods : pod[q] = "recovering" =>
                                  listed'[q][k] = "ABSENT"
      BY <2>2, <2>3, <3>1
    <3> QED BY <1>0, <2>3, <2>4, <3>1, <3>2, FinalTables DEF Known, Engaged
  <2> QED BY <1>4, <2>5, <2>6 DEF Recover
<1> QED BY <1>1, <1>2, <1>3, <1>4

LEMMA FinalLife ==
  ASSUME IInv, FinalInv, NEW p \in Pods,
         \/ Start(p) \/ Serve(p) \/ RecoveryFails(p)
         \/ Stop(p) \/ StopStep(p) \/ Crash(p)
  PROVE  FinalInv'
<1>0. OnlyPod(p) /\ UNCHANGED <<row, created>>
  BY LifeAlone
  DEF IInv, Start, Recoverable, Serve, RecoveryFails, Stop, StopStep, PutPoison, StopEnds,
      Exit, Crash, storeVars
<1>1. \A w \in Workers : Engaged(w)' => Engaged(w) /\ wjob'[w] = wjob[w]
  BY FinalParts
  DEF Start, Recoverable, Serve, RecoveryFails, Stop, StopStep, PutPoison, StopEnds, Exit, Crash,
      IdleWorkers, NoWorkers, workerVars, Engaged, Owning, Settling
<1>2. ASSUME NEW u \in writes, u.pod # p PROVE Owned(u)'
  <2>1. u.pod \in Pods
    BY FinalParts
  <2>2. CASE AwaitedByWorker(u)
    BY <1>0, <1>2, <2>2 DEF Owned, AwaitedByWorker, OnlyPod
  <2>3. CASE AwaitedByRecovery(u) \/ LeftBehind(u)
    BY <1>0, <1>2, <2>1, <2>3 DEF Owned, AwaitedByRecovery, LeftBehind, OnlyPod
  <2> QED BY <2>2, <2>3 DEF FinalInv, WritesFit, Owned
<1>3. CASE StopEnds(p)
  <2>1. pod'[p] = "exiting" /\ listed' = listed
    BY <1>3, FinalParts DEF StopEnds, MemoryOK
  <2>2. ASSUME NEW u \in writes'
        PROVE  \E v \in writes :
                 /\ u = IF v.pod = p THEN [v EXCEPT !.live = FALSE] ELSE v
                 /\ u.job = v.job /\ u.row = v.row /\ u.op = v.op /\ u.pod = v.pod
                 /\ v.pod = p => ~u.live
    <3>1. PICK v \in writes : u = IF v.pod = p THEN [v EXCEPT !.live = FALSE] ELSE v
      BY <1>3 DEF StopEnds
    <3> QED BY <3>1, FinalParts DEF Write
  <2>3. ASSUME NEW u \in writes' PROVE Owned(u)'
    <3>1. PICK v \in writes :
            /\ u = IF v.pod = p THEN [v EXCEPT !.live = FALSE] ELSE v
            /\ u.pod = v.pod /\ (v.pod = p => ~u.live)
      BY <2>2
    <3>2. CASE v.pod = p
      BY <2>1, <3>1, <3>2 DEF Owned, LeftBehind
    <3>3. CASE v.pod # p
      <4>1. u = v
        BY <3>1, <3>3
      <4> QED BY <1>2, <3>3, <4>1
    <3> QED BY <3>2, <3>3
  <2>4. ASSUME NEW u \in writes', NEW v \in writes', u.job = v.job PROVE u = v
    <3>1. PICK x \in writes : /\ u = IF x.pod = p THEN [x EXCEPT !.live = FALSE] ELSE x
                              /\ u.job = x.job
      BY <2>2
    <3>2. PICK y \in writes : /\ v = IF y.pod = p THEN [y EXCEPT !.live = FALSE] ELSE y
                              /\ v.job = y.job
      BY <2>2
    <3>3. x = y
      BY <2>4, <3>1, <3>2 DEF FinalInv, WritesFit
    <3> QED BY <3>1, <3>2, <3>3
  <2>5. ListedAsStored'
    BY <1>0, <2>1 DEF FinalInv, ListedAsStored, OnlyPod, Known
  <2> QED BY <1>0, <1>1, <2>2, <2>3, <2>4, <2>5, FinalDrop
<1>4. CASE ~StopEnds(p)
  <2>1. \A u \in writes' : u \in writes
    BY <1>4 DEF Start, Recoverable, Serve, RecoveryFails, Stop, StopStep, PutPoison, Exit,
        Crash, storeVars
  <2>2. ASSUME NEW u \in writes', u.pod = p PROVE Owned(u)'
    <3>0. Owned(u) /\ u.job \in Jobs /\ \A w \in Workers : Engaged(w) /\ w[1] = p => pod[p] # "down"
      BY <2>1, FinalParts
      DEF FinalInv, WritesFit, IInv, MemoryInv, Gone, Engaged, Owning, Settling
    <3>1. CASE Start(p)
      <4>1. pod[p] = "down"
        BY <3>1 DEF Start, Recoverable
      <4> QED BY <2>2, <3>0, <4>1
          DEF Owned, AwaitedByWorker, AwaitedByRecovery, LeftBehind, Engaged, Owning, UpdateOps,
              Settling
    <3>2. CASE Serve(p)
      <4>1. pod[p] = "recovering" /\ \A j \in Jobs : listed[p][j] = "ABSENT"
        BY <3>2 DEF Serve
      <4>2. UNCHANGED <<wpc, wjob>>
        BY <3>2 DEF Serve, workerVars
      <4> QED BY <2>2, <3>0, <4>1, <4>2
          DEF Owned, AwaitedByWorker, AwaitedByRecovery, LeftBehind
    <3>3. CASE RecoveryFails(p)
      <4>1. pod[p] = "recovering" /\ u \notin AwaitedBy(<<"recovery", p>>)
        BY <2>2, <3>3 DEF RecoveryFails
      <4>2. UNCHANGED <<wpc, wjob>>
        BY <3>3 DEF RecoveryFails, workerVars
      <4>3. ~AwaitedByRecovery(u)
        BY <2>1, <2>2, <4>1 DEF AwaitedBy, AwaitedByRecovery
      <4> QED BY <2>2, <3>0, <4>1, <4>2, <4>3
          DEF Owned, AwaitedByWorker, LeftBehind
    <3>4. CASE Stop(p)
      <4>1. pod[p] = "up" /\ UNCHANGED <<wpc, wjob>>
        BY <3>4 DEF Stop, workerVars
      <4> QED BY <2>2, <3>0, <4>1
          DEF Owned, AwaitedByWorker, AwaitedByRecovery, LeftBehind
    <3>5. CASE PutPoison(p)
      <4>1. UNCHANGED <<pod, listed, wpc, wjob>>
        BY <3>5 DEF PutPoison, workerVars
      <4> QED BY <2>2, <3>0, <4>1
          DEF Owned, AwaitedByWorker, AwaitedByRecovery, LeftBehind
    <3>6. CASE Exit(p) \/ Crash(p)
      BY <2>1, <2>2, <3>6 DEF Exit, Crash, storeVars
    <3> QED BY <1>4, <3>1, <3>2, <3>3, <3>4, <3>5, <3>6 DEF StopStep
  <2>3. \A u \in writes' : Owned(u)'
    BY <1>2, <2>1, <2>2
  <2>4. \A u, v \in writes' : u.job = v.job => u = v
    BY <2>1 DEF FinalInv, WritesFit
  <2>5. ListedAsStored'
    <3>1. SUFFICES ASSUME NEW q \in Pods, NEW j \in Jobs,
                          pod'[q] = "recovering", listed'[q][j] # "ABSENT"
                   PROVE  Known(j) /\ row[j].status \in {listed'[q][j], "ABSENT"}
      BY <1>0 DEF ListedAsStored, Known
    <3>2. CASE q # p \/ PutPoison(p)
      <4>1. pod'[q] = pod[q] /\ listed'[q] = listed[q]
        BY <1>0, <3>2 DEF PutPoison, OnlyPod
      <4> QED BY <3>1, <4>1 DEF FinalInv, ListedAsStored
    <3>3. CASE q = p /\ Start(p)
      <4>1. listed'[p][j] = IF row[j].status \in Pending THEN row[j].status ELSE "ABSENT"
        BY <3>3, FinalParts DEF Start, Recoverable
      <4>2. row[j].status = listed'[p][j] /\ Present(j)
        BY <3>1, <3>3, <4>1 DEF Pending, Present
      <4> QED BY <3>3, <4>2 DEF IInv, ClaimInv, Created
    <3>4. CASE q = p /\ ~Start(p) /\ ~PutPoison(p)
      BY <1>4, <3>1, <3>4, FinalParts
      DEF Serve, RecoveryFails, Stop, StopStep, Exit, Crash, MemoryOK
    <3> QED BY <3>2, <3>3, <3>4
  <2> QED BY <1>0, <1>1, <2>1, <2>3, <2>4, <2>5, FinalDrop
<1> QED BY <1>3, <1>4

LEMMA FinalStep ==
  ASSUME IInv, FinalInv, OneProcess \/ NoneRestarts, QueueMax = 0, NoCallTimesOut,
         [Next]_vars
  PROVE  FinalInv'
<1>1. ASSUME NEW w \in Workers, WorkerStep(w) \/ Expire(w) \/ StoreFails(w)
      PROVE  FinalInv'
  BY <1>1, FinalWorker, FinalUpdate, FinalFault DEF WorkerStep, Claimless
<1>2. ASSUME NEW h \in Handlers, Request(h) \/ HandlerStep(h) PROVE FinalInv'
  BY <1>2, FinalHandler
<1>3. ASSUME \/ \E j \in Jobs : RetryDue(j)
             \/ \E u \in writes : LandOrphan(u)
             \/ \E t \in Tenants : Clear(t)
      PROVE  FinalInv'
  BY <1>3, FinalOutside
<1>4. ASSUME NEW p \in Pods,
             \/ EndStale(p)
             \/ \E j \in Jobs : Recover(p, j) \/ BeginStale(p, j) \/ DelayedEnqueue(p, j)
      PROVE  FinalInv'
  BY <1>4, FinalRecovery
<1>5. ASSUME NEW p \in Pods, Start(p) \/ Serve(p) \/ RecoveryFails(p)
                             \/ Stop(p) \/ StopStep(p) \/ Crash(p)
      PROVE  FinalInv'
  BY <1>5, FinalLife
<1>6. CASE UNCHANGED vars
  <2>1. UNCHANGED <<row, created, writes, pod, listed, wpc, wjob>>
    BY <1>6 DEF vars, storeVars, podVars, workerVars
  <2> QED BY <2>1, FinalTables DEF Known, Engaged
<1> QED BY <1>1, <1>2, <1>3, <1>4, <1>5, <1>6 DEF Next, PodStep

LEMMA FinalInitially == ASSUME PipelineInit PROVE FinalInv
  BY DEF PipelineInit, StoreInit, FinalInv, WritesFit, Unfinished, ListedAsStored, Engaged,
         Owning, Settling

\* Only the job a commit is resolved to can be finished, and a finished job is
\* not created anew.
LEMMA FinishedStays ==
  ASSUME IInv, FinalInv, QueueMax = 0, MaxClears = 0, [Next]_vars, NEW j \in Jobs,
         row[j].status = "COMPLETED"
  PROVE  row'[j].status = "COMPLETED"
<1>0. /\ row \in [Jobs -> Row] /\ used.clears \in 0 .. MaxClears
      /\ listed \in [Pods -> [Jobs -> Pending \cup {"ABSENT"}]]
  BY DEF IInv, TypeInv, TypeOK, StoreTypeOK
<1>1. ASSUME NEW u \in writes, Land(u) PROVE row'[j].status = "COMPLETED"
  BY <1>0, <1>1 DEF FinalInv, WritesFit, Land
<1>2. ASSUME NEW k \in Jobs, NEW from, NEW to, Transition(k, from, to), from # "COMPLETED"
      PROVE  row'[j].status = "COMPLETED"
  BY <1>0, <1>2 DEF Transition
<1>3. ASSUME NEW c \in Commits, NEW text, Create(c, text)
      PROVE  row'[j].status = "COMPLETED"
  <2>1. j # <<c, created[c] + 1>>
    <3>1. Known(j)
      BY DEF IInv, ClaimInv, Created, Present
    <3>2. created[c] \in Nat
      BY StoreAssumption DEF IInv, TypeInv, TypeOK, StoreTypeOK
    <3> QED BY <3>1, <3>2 DEF Known
  <2>2. j # <<c, index[c]>>
    <3>1. SUFFICES ASSUME j = <<c, index[c]>> PROVE FALSE
      OBVIOUS
    <3>2. index[c] # 0
      BY <3>1, StoreAssumption DEF Jobs
    <3> QED BY <1>3, <3>1, <3>2 DEF Create, Reusable, Present
  <2> QED BY <1>3, <2>1, <2>2 DEF Create
<1>4. ASSUME UNCHANGED row PROVE row'[j].status = "COMPLETED"
  BY <1>4
<1>5. ASSUME NEW w \in Workers, WorkerStep(w) \/ Expire(w) \/ StoreFails(w)
      PROVE  row'[j].status = "COMPLETED"
  <2>1. CASE Claimless(w) \/ BeginUpdate(w) \/ Expire(w) \/ StoreFails(w)
    <3>1. UNCHANGED row
      BY <2>1 DEF Claimless, Get, Fetch, AcquireGlobal, AcquireTenant, Load, Prepare, Extract,
                  SessionWrite, SkipUpdate, JudgeTimeout, BeginUpdate, Read, Expire, StoreFails,
                  storeVars
    <3> QED BY <3>1
  <2>2. CASE Claim(w)
    <3>1. wjob[w] \in Jobs
      BY <2>2 DEF Claim, IInv, TypeInv, JobsInHand
    <3> QED BY <1>2, <1>4, <2>2, <3>1 DEF Claim, storeVars
  <2>3. CASE EndUpdate(w)
    BY <1>1, <2>3 DEF EndUpdate, AwaitedBy
  <2> QED BY <1>5, <2>1, <2>2, <2>3 DEF WorkerStep, Claimless
<1>6. ASSUME NEW h \in Handlers, Request(h) \/ HandlerStep(h)
      PROVE  row'[j].status = "COMPLETED"
  <2>1. CASE Request(h)
    BY <1>3, <1>4, <2>1 DEF Request, Submit, Execute, storeVars
  <2>2. CASE Accept(h) \/ SkipRefusal(h) \/ BeginRefusal(h)
    BY <1>4, <2>2 DEF Accept, SkipRefusal, BeginRefusal, Read, storeVars
  <2>3. CASE EndRefusal(h)
    BY <1>1, <2>3 DEF EndRefusal, AwaitedBy
  <2> QED BY <1>6, <2>1, <2>2, <2>3 DEF HandlerStep
<1>7. ASSUME \/ \E k \in Jobs : RetryDue(k)
             \/ \E u \in writes : LandOrphan(u)
             \/ \E t \in Tenants : Clear(t)
      PROVE  row'[j].status = "COMPLETED"
  <2>1. ~\E t \in Tenants : Clear(t)
    BY <1>0 DEF Clear
  <2>2. ASSUME NEW k \in Jobs, RetryDue(k) PROVE row'[j].status = "COMPLETED"
    BY <1>0, <2>2 DEF RetryDue, Row
  <2> QED BY <1>1, <1>7, <2>1, <2>2 DEF LandOrphan
<1>8. ASSUME NEW p \in Pods,
             \/ EndStale(p)
             \/ \E k \in Jobs : Recover(p, k) \/ BeginStale(p, k) \/ DelayedEnqueue(p, k)
      PROVE  row'[j].status = "COMPLETED"
  <2>1. CASE EndStale(p)
    BY <1>1, <2>1 DEF EndStale, AwaitedBy
  <2>2. ASSUME NEW k \in Jobs, Recover(p, k) PROVE row'[j].status = "COMPLETED"
    <3>1. listed[p][k] # "COMPLETED"
      BY <1>0 DEF Pending
    <3> QED BY <1>2, <1>4, <2>2, <3>1 DEF Recover, storeVars
  <2>3. ASSUME NEW k \in Jobs, BeginStale(p, k) \/ DelayedEnqueue(p, k)
        PROVE  row'[j].status = "COMPLETED"
    BY <1>4, <2>3 DEF BeginStale, DelayedEnqueue, Read, storeVars
  <2> QED BY <1>8, <2>1, <2>2, <2>3
<1>9. ASSUME NEW p \in Pods, Start(p) \/ Serve(p) \/ RecoveryFails(p)
                             \/ Stop(p) \/ StopStep(p) \/ Crash(p)
      PROVE  row'[j].status = "COMPLETED"
  BY <1>4, <1>9 DEF Start, Recoverable, Serve, RecoveryFails, Stop, StopStep, PutPoison,
      StopEnds, Exit, Crash, storeVars
<1>10. CASE UNCHANGED vars
  BY <1>4, <1>10 DEF vars, storeVars
<1> QED BY <1>5, <1>6, <1>7, <1>8, <1>9, <1>10 DEF Next, PodStep

\* COMPLETED is final: no late store call, retry, recovery or new submission
\* takes a finished job back, under the conditions of OneRunner, where no
\* timeout expires in a store call, the queue has no limit (a full one makes
\* the handler overwrite the status of a job that may run) and no tenant is
\* cleared.
THEOREM CompletedStays ==
  ASSUME OneProcess \/ NoneRestarts, QueueMax = 0, NoCallTimesOut, MaxClears = 0
  PROVE  Spec => CompletedIsFinal
<1>1. PipelineInit => FinalInv
  BY FinalInitially
<1>2. IInv /\ FinalInv /\ [Next]_vars => FinalInv'
  BY FinalStep
<1>3. IInv /\ FinalInv /\ [Next]_vars =>
        [\A j \in Jobs : row[j].status = "COMPLETED" => row'[j].status = "COMPLETED"]_vars
  BY FinishedStays
<1> QED BY <1>1, <1>2, <1>3, RunnerInvariant, PTL DEF Spec, CompletedIsFinal
-----------------------------------------------------------------------------
(* An accepted job is in somebody's hands.                                 *)

Serving == \E p \in Pods : pod[p] \in {"recovering", "up"}

Healthy == Serving /\ used.faults = 0

Running(j) == row[j].status \in {"STAGE2_RUNNING", "STAGE3_RUNNING"}

\* A job that runs is run by somebody, or was left behind and is listed.
RunningIsRun ==
  \A j \in Jobs : Running(j) =>
    \/ \E w \in Workers : Engaged(w) /\ wjob[w] = j
    \/ \E p \in Pods : pod[p] = "recovering" /\ listed[p][j] # "ABSENT"

ReceivedIsKept == \A j \in accepted : row[j].status = "RECEIVED" => Attended(j)

\* What is accepted, or about to be, has been created.
AcceptedKnown ==
  /\ \A j \in accepted : Known(j)
  /\ \A h \in Handlers : hpc[h] # "idle" => hpc[h] = "created" /\ Known(hjob[h])

IdleHasNone == \A w \in Workers : wpc[w] \in {"idle", "exited"} => wjob[w] = NoJob

AttendInv ==
  /\ AcceptedKnown /\ IdleHasNone
  /\ Healthy => RunningIsRun /\ ReceivedIsKept

LEMMA AttendParts ==
  ASSUME IInv
  PROVE  /\ queue \in [Pods -> Seq(Jobs \cup {Poison})]
         /\ delayed \in [Pods -> [Jobs -> Nat]]
         /\ accepted \subseteq Jobs
         /\ used.faults \in Nat
         /\ hjob \in [Handlers -> Jobs \cup {NoJob}]
         /\ hpod \in [Handlers -> Pods]
         /\ hpc \in [Handlers -> {"idle", "created", "enqfail"}]
  BY BoundAssumption DEF IInv, TypeInv, TypeOK

\* While a pod serves, a worker that is not gone belongs to a pod that serves.
LEMMA ServingWorker ==
  ASSUME IInv, OneProcess \/ NoneRestarts, Serving, NEW w \in Workers, wpc[w] # "exited"
  PROVE  Enqueues(w[1])
<1>1. w[1] \in Pods /\ pod[w[1]] \notin {"down", "exiting"}
  BY FinalParts DEF IInv, MemoryInv, Gone
<1>2. CASE OneProcess
  BY <1>1, <1>2 DEF OneProcess, Serving, Enqueues
<1>3. CASE NoneRestarts
  BY <1>1, <1>3 DEF NoneRestarts, IInv, MemoryInv, NoRestart, Enqueues
<1> QED BY <1>2, <1>3

\* How a store call of a worker ends.
LEMMA UpdateEnds ==
  ASSUME IInv, FinalInv, NEW w \in Workers, EndUpdate(w)
  PROVE  /\ Engaged(w) /\ wjob[w] \in Jobs
         /\ \A j \in Jobs : j # wjob[w] => row'[j] = row[j]
         /\ \/ Engaged(w)' /\ wjob'[w] = wjob[w]
            \/ row'[wjob[w]].status \notin Pending
            \/ row'[wjob[w]].status = "RECEIVED" /\ Delay(w[1], wjob[w])
<1>1. PICK u \in AwaitedBy(<<"worker", w>>) : Land(u)
  BY DEF EndUpdate
<1>2. /\ u \in writes /\ u.op \in UpdateOps /\ wpc[w] = u.op /\ wjob[w] = u.job /\ Engaged(w)
      /\ wjob[w] \in Jobs
  BY <1>1, AwaitsOnlyCalls, FinalParts DEF AwaitedBy, FinalInv
<1>3. \A j \in Jobs : j # wjob[w] => row'[j] = row[j]
  BY <1>1, <1>2, LandEffect DEF IInv
<1>4. u.op # "marks" => row'[u.job].status \in {"ABSENT", u.row.status}
  <2>1. u.op # "marks" => Landed(u).status \in {"ABSENT", u.row.status}
    BY <1>2, FinalParts DEF Landed, Row, Absent
  <2> QED BY <1>1, <1>2, <2>1, FinalParts DEF Land
<1>5. CASE u.op \in {"stage2", "marks", "stage3"}
  <2>1. Engaged(w)' /\ wjob'[w] = wjob[w]
    BY <1>2, <1>5, FinalParts
    DEF EndUpdate, AfterUpdate, Goto, Engaged, Owning, Settling, UpdateOps
  <2> QED BY <1>2, <1>3, <2>1
<1>6. CASE u.op = "retry"
  <2>1. u.row.status = "RECEIVED"
    BY <1>2, <1>6 DEF FinalInv, WritesFit, Meant
  <2>2. Delay(w[1], wjob[w])
    BY <1>2, <1>6 DEF EndUpdate, AfterUpdate
  <2> QED BY <1>2, <1>3, <1>4, <1>6, <2>1, <2>2 DEF Pending
<1>7. CASE u.op \in Closing
  <2>1. u.row.status \notin Pending
    BY <1>2, <1>7 DEF FinalInv, WritesFit, Meant
  <2> QED BY <1>2, <1>3, <1>4, <1>7, <2>1 DEF Pending, Closing
<1> QED BY <1>2, <1>5, <1>6, <1>7 DEF UpdateOps, Closing

\* A worker that lets go of a job leaves it delayed, finished, or to others.
Handed(w, j) ==
  \/ wjob'[w] = j /\ (Engaged(w) => Engaged(w)')
  \/ row'[j].status \notin Pending
  \/ row'[j].status = "RECEIVED" /\ Delay(w[1], j)
  \/ ~Engaged(w) /\ row[j].status # "RECEIVED" /\ row' = row

LEMMA WorkerHands ==
  ASSUME IInv, FinalInv, NEW w \in Workers, WorkerStep(w) \/ Expire(w), ~Get(w)
  PROVE  /\ wjob[w] \in Jobs => Handed(w, wjob[w])
         /\ \A j \in Jobs : row'[j] # row[j] => wjob[w] = j /\ (Engaged(w)' \/ Engaged(w))
<1>0. wpc \in [Workers -> WorkerPc] /\ wjob \in [Workers -> Jobs \cup {NoJob}]
  BY FinalParts
<1>1. CASE EndUpdate(w)
  BY <1>1, UpdateEnds DEF Handed
<1>2. CASE Claim(w)
  <2>1. wjob[w] \in Jobs /\ ~Engaged(w)
    BY <1>2 DEF Claim, IInv, TypeInv, JobsInHand, Engaged, Owning, Settling
  <2>2. CASE Transition(wjob[w], "RECEIVED", "STAGE2_RUNNING") /\ Goto(w, "stage2")
             /\ wjob' = wjob
    BY <1>0, <2>1, <2>2, FinalParts DEF Transition, Goto, Handed, Engaged, Owning
  <2>3. CASE row[wjob[w]].status # "RECEIVED" /\ UNCHANGED storeVars
    <3>1. row' = row
      BY <2>3 DEF storeVars
    <3> QED BY <2>1, <2>3, <3>1 DEF Handed
  <2> QED BY <1>2, <2>2, <2>3 DEF Claim
<1>3. CASE BeginUpdate(w)
  BY <1>3 DEF BeginUpdate, Read, workerVars, Handed, Engaged
<1>4. CASE Expire(w)
  BY <1>0, <1>4 DEF Expire, Goto, Handed, Engaged, Settling
<1>5. CASE SkipUpdate(w)
  <2>1. row' = row /\ row[wjob[w]].status = "ABSENT"
    BY <1>5 DEF SkipUpdate, storeVars, Present
  <2> QED BY <2>1 DEF Handed, Pending
<1>6. CASE Load(w)
  <2>1. row' = row /\ ~Engaged(w)
    BY <1>6 DEF Load, storeVars, Engaged, Owning, Settling
  <2>2. wjob' = wjob \/ row[wjob[w]].status # "RECEIVED"
    BY <1>6 DEF Load
  <2> QED BY <2>1, <2>2 DEF Handed
<1>7. CASE Fetch(w)
  <2>1. row' = row /\ ~Engaged(w)
    BY <1>7 DEF Fetch, storeVars, Engaged, Owning, Settling
  <2>2. wjob' = wjob \/ row[wjob[w]].status = "ABSENT" \/ Delay(w[1], wjob[w])
    BY <1>7 DEF Fetch, Present
  <2> QED BY <2>1, <2>2 DEF Handed, Pending
<1>8. CASE AcquireGlobal(w) \/ AcquireTenant(w) \/ Prepare(w) \/ Extract(w) \/ SessionWrite(w)
           \/ JudgeTimeout(w)
  <2>1. row' = row /\ wjob' = wjob
    BY <1>8 DEF AcquireGlobal, AcquireTenant, Prepare, Extract, SessionWrite, JudgeTimeout,
                storeVars
  <2>2. Engaged(w) => Engaged(w)'
    BY <1>0, <1>8 DEF AcquireGlobal, AcquireTenant, Prepare, Extract, SessionWrite,
                JudgeTimeout, Goto, Engaged, Owning, Settling
  <2> QED BY <2>1, <2>2 DEF Handed
<1> QED BY <1>1, <1>2, <1>3, <1>4, <1>5, <1>6, <1>7, <1>8 DEF WorkerStep

LEMMA GetKeeps ==
  ASSUME IInv, IdleHasNone, NEW w \in Workers, Get(w), NEW j \in Jobs, Attended(j)
  PROVE  Attended(j)'
<1>0. /\ w[1] \in Pods /\ wjob[w] = NoJob /\ UNCHANGED <<listed, delayed>>
      /\ queue' = [queue EXCEPT ![w[1]] = Tail(@)]
      /\ queue[w[1]] # << >> /\ queue[w[1]] \in Seq(Jobs \cup {Poison})
      /\ \A v \in Workers : v # w => wjob'[v] = wjob[v]
  BY FinalParts, AttendParts, WorkerAlone DEF Get, IdleHasNone, podVars, IInv, WorkerMove,
      WorkerStep
<1>1. PICK p \in Pods :
        \/ \E i \in 1 .. Len(queue[p]) : queue[p][i] = j
        \/ delayed[p][j] > 0
        \/ listed[p][j] # "ABSENT"
        \/ \E v \in Workers : wjob[v] = j
  BY DEF Attended
<1>2. CASE delayed[p][j] > 0 \/ listed[p][j] # "ABSENT"
  BY <1>0, <1>2 DEF Attended
<1>3. CASE \E v \in Workers : wjob[v] = j
  <2>1. \E v \in Workers : wjob'[v] = j
    BY <1>0, <1>3, NoJobIsNoJob
  <2> QED BY <2>1 DEF Attended
<1>4. CASE p # w[1] /\ \E i \in 1 .. Len(queue[p]) : queue[p][i] = j
  <2>1. queue'[p] = queue[p]
    BY <1>0, <1>4, AttendParts
  <2> QED BY <1>4, <2>1 DEF Attended
<1>5. CASE p = w[1] /\ \E i \in 1 .. Len(queue[p]) : queue[p][i] = j
  <2>1. PICK i \in 1 .. Len(queue[p]) : queue[p][i] = j
    BY <1>5
  <2>2. queue'[p] = Tail(queue[p])
    BY <1>0, <1>5, AttendParts
  <2>3. CASE i = 1
    <3>1. Head(queue[w[1]]) = j /\ j # Poison
      <4>1. Head(queue[w[1]]) = queue[w[1]][1]
        BY <1>0
      <4> QED BY <1>5, <2>1, <2>3, <4>1, NoJobIsNoJob DEF NoJob, Poison
    <3>2. wjob'[w] = j
      BY <3>1, FinalParts DEF Get
    <3> QED BY <3>2 DEF Attended
  <2>4. CASE i # 1
    <3>1. i - 1 \in 1 .. Len(Tail(queue[p])) /\ Tail(queue[p])[i - 1] = queue[p][i]
      BY <1>0, <1>5, <2>1, <2>4
    <3> QED BY <2>1, <2>2, <3>1 DEF Attended
  <2> QED BY <2>3, <2>4
<1> QED BY <1>1, <1>2, <1>3, <1>4, <1>5

\* What is attended otherwise than by the worker that moves, stays attended.
LEMMA MoveKeeps ==
  ASSUME IInv, NEW w \in Workers, WorkerMove(w), ~Get(w), NEW j \in Jobs, Attended(j),
         wjob[w] = j => wjob'[w] = j
  PROVE  Attended(j)'
<1>1. /\ queue' = queue /\ listed' = listed
      /\ delayed' = delayed \/ (wjob[w] \in Jobs /\ Delay(w[1], wjob[w]))
      /\ \A v \in Workers : v # w => wjob'[v] = wjob[v]
  BY WorkerAlone, WorkerQueue DEF IInv
<1>2. ASSUME NEW p \in Pods, delayed[p][j] > 0 PROVE delayed'[p][j] > 0
  <2>1. delayed \in [Pods -> [Jobs -> Nat]] /\ delayed[p][j] \in Nat
    BY AttendParts
  <2>2. CASE wjob[w] \in Jobs /\ delayed' = [delayed EXCEPT ![w[1]][wjob[w]] = @ + 1]
    <3>1. delayed'[p][j] \in {delayed[p][j], delayed[p][j] + 1}
      BY <2>1, <2>2
    <3> QED BY <1>2, <2>1, <3>1
  <2> QED BY <1>1, <1>2, <2>2 DEF Delay
<1>3. (\E v \in Workers : wjob[v] = j) => \E v \in Workers : wjob'[v] = j
  BY <1>1
<1> QED BY <1>1, <1>2, <1>3 DEF Attended

LEMMA WorkerAttend ==
  ASSUME IInv, FinalInv, AttendInv, OneProcess \/ NoneRestarts, NEW w \in Workers,
         WorkerStep(w) \/ Expire(w) \/ StoreFails(w)
  PROVE  AttendInv'
<1>0. /\ wpc \in [Workers -> WorkerPc] /\ wjob \in [Workers -> Jobs \cup {NoJob}]
      /\ w[1] \in Pods /\ used.faults \in Nat /\ accepted \subseteq Jobs
  BY FinalParts, AttendParts
<1>1. OnlyWorker(w) /\ UNCHANGED <<pod, listed, hpc, hpod>> /\ wpc[w] # "exited"
  BY WorkerAlone DEF WorkerMove, OnlyWorker, IInv
<1>2. UNCHANGED <<created, hjob, accepted>>
  <2>1. CASE Get(w) \/ Fetch(w) \/ AcquireGlobal(w) \/ AcquireTenant(w) \/ Load(w)
    BY <2>1 DEF Get, Fetch, AcquireGlobal, AcquireTenant, Load, storeVars, handlerVars, history
  <2>2. CASE Claim(w) \/ Prepare(w) \/ Extract(w) \/ SessionWrite(w) \/ BeginUpdate(w)
    BY <2>2 DEF Claim, Transition, Prepare, Extract, SessionWrite, BeginUpdate, Read, storeVars,
                handlerVars, history
  <2>3. CASE EndUpdate(w) \/ SkipUpdate(w) \/ JudgeTimeout(w) \/ Expire(w) \/ StoreFails(w)
    BY <2>3 DEF EndUpdate, Land, SkipUpdate, JudgeTimeout, Expire, StoreFails, storeVars,
                handlerVars, history
  <2> QED BY <2>1, <2>2, <2>3 DEF WorkerStep
<1>3. AcceptedKnown'
  BY <1>1, <1>2 DEF AttendInv, AcceptedKnown, Known
<1>4. IdleHasNone'
  <2>1. wpc'[w] \in {"idle", "exited"} => wjob'[w] = NoJob
    <3>1. CASE Get(w)
      BY <1>0, <3>1 DEF Get, Goto, AttendInv, IdleHasNone
    <3>2. CASE Fetch(w) \/ AcquireGlobal(w) \/ AcquireTenant(w) \/ Load(w) \/ Claim(w)
      BY <1>0, <3>2 DEF Fetch, AcquireGlobal, AcquireTenant, Load, Claim, Goto, Finish
    <3>3. CASE Prepare(w) \/ Extract(w) \/ SessionWrite(w) \/ JudgeTimeout(w) \/ Expire(w)
      BY <1>0, <3>3 DEF Prepare, Extract, SessionWrite, JudgeTimeout, Expire, Goto
    <3>4. CASE BeginUpdate(w)
      BY <3>4 DEF BeginUpdate, workerVars, UpdateOps
    <3>5. CASE EndUpdate(w)
      BY <1>0, <3>5 DEF EndUpdate, AfterUpdate, Goto, Finish
    <3>6. CASE SkipUpdate(w)
      BY <1>0, <3>6 DEF SkipUpdate, AfterUpdate, Goto, Finish
    <3>7. CASE StoreFails(w)
      BY <1>0, <3>7 DEF StoreFails, Goto, Finish
    <3> QED BY <3>1, <3>2, <3>3, <3>4, <3>5, <3>6, <3>7 DEF WorkerStep
  <2> QED BY <1>1, <2>1 DEF OnlyWorker, AttendInv, IdleHasNone
<1>5. ASSUME Healthy' PROVE RunningIsRun' /\ ReceivedIsKept'
  <2>1. ~StoreFails(w)
    BY <1>0, <1>5, AttendParts, BoundAssumption DEF StoreFails, Healthy, IInv, TypeInv, TypeOK
  <2>2. Healthy
    <3>1. used'.faults = used.faults
      <4>1. CASE WorkerStep(w)
        BY <4>1 DEF WorkerStep, Get, Fetch, AcquireGlobal, AcquireTenant, Load, Claim, Prepare,
                    Extract, SessionWrite, BeginUpdate, EndUpdate, SkipUpdate, JudgeTimeout,
                    history
      <4>2. CASE Expire(w)
        BY <4>2 DEF Expire, IInv, TypeInv, TypeOK
      <4> QED BY <2>1, <4>1, <4>2
    <3> QED BY <1>1, <1>5, <3>1 DEF Healthy, Serving
  <2>3. Enqueues(w[1])
    BY <1>1, <2>2, ServingWorker DEF Healthy
  <2>4. CASE Get(w)
    <3>1. row' = row
      BY <2>4 DEF Get, storeVars
    <3>2. ~Engaged(w)
      BY <2>4 DEF Get, Engaged, Owning, Settling
    <3>3. RunningIsRun'
      BY <1>1, <2>2, <3>1, <3>2 DEF AttendInv, RunningIsRun, Running, OnlyWorker, Engaged
    <3>4. ReceivedIsKept'
      BY <1>0, <1>2, <2>2, <2>4, <3>1, GetKeeps DEF AttendInv, ReceivedIsKept
    <3> QED BY <3>3, <3>4
  <2>5. CASE ~Get(w)
    <3>1. /\ wjob[w] \in Jobs => Handed(w, wjob[w])
          /\ \A j \in Jobs : row'[j] # row[j] => wjob[w] = j /\ (Engaged(w)' \/ Engaged(w))
      BY <2>1, <2>5, WorkerHands
    <3>2. WorkerMove(w) /\ wjob'[w] \in {wjob[w], NoJob}
      BY <2>5, WorkerQueue DEF WorkerMove, IInv
    <3>3. \A j \in Jobs : Delay(w[1], j) => delayed'[w[1]][j] > 0
      BY <1>0, <2>3, AttendParts DEF Delay
    <3>4. ASSUME NEW j \in Jobs, Running(j)'
          PROVE  \/ \E v \in Workers : Engaged(v)' /\ wjob'[v] = j
                 \/ \E p \in Pods : pod'[p] = "recovering" /\ listed'[p][j] # "ABSENT"
      <4>1. row'[j].status \in Pending /\ row'[j].status # "RECEIVED"
        BY <3>4 DEF Running, Pending
      <4>2. CASE wjob[w] = j /\ Engaged(w)
        <5>1. wjob'[w] = j /\ Engaged(w)'
          BY <3>1, <4>1, <4>2 DEF Handed
        <5> QED BY <5>1
      <4>3. CASE row'[j] # row[j] /\ ~Engaged(w)
        <5>1. wjob[w] = j /\ Engaged(w)'
          BY <3>1, <4>3
        <5>2. wjob'[w] = j
          <6>1. wjob'[w] = j \/ row' = row
            BY <3>1, <4>1, <5>1 DEF Handed
          <6> QED BY <4>3, <6>1
        <5> QED BY <5>1, <5>2
      <4>4. CASE row'[j] = row[j] /\ ~(wjob[w] = j /\ Engaged(w))
        <5>1. Running(j)
          BY <3>4, <4>4 DEF Running
        <5> QED BY <1>1, <2>2, <4>4, <5>1
            DEF AttendInv, RunningIsRun, OnlyWorker, Engaged
      <4> QED BY <3>1, <4>2, <4>3, <4>4
    <3>5. ASSUME NEW j \in accepted, row'[j].status = "RECEIVED" PROVE Attended(j)'
      <4>0. j \in Jobs /\ row'[j].status \in Pending
        BY <1>0, <3>5 DEF Pending
      <4>1. CASE wjob[w] = j
        <5>1. Handed(w, j)
          BY <3>1, <4>0, <4>1
        <5>2. wjob'[w] = j \/ delayed'[w[1]][j] > 0
          BY <3>3, <3>5, <4>0, <5>1 DEF Handed
        <5> QED BY <1>0, <5>2 DEF Attended
      <4>2. CASE wjob[w] # j
        <5>1. row[j].status = "RECEIVED"
          BY <3>1, <3>5, <4>0, <4>2
        <5>2. Attended(j)
          BY <2>2, <5>1 DEF AttendInv, ReceivedIsKept
        <5> QED BY <2>5, <3>2, <4>0, <4>2, <5>2, MoveKeeps
      <4> QED BY <4>1, <4>2
    <3> QED BY <1>2, <3>4, <3>5 DEF RunningIsRun, ReceivedIsKept
  <2> QED BY <2>4, <2>5
<1> QED BY <1>3, <1>4, <1>5 DEF AttendInv

LEMMA OfferKeeps ==
  ASSUME IInv, QueueMax = 0, NEW p \in Pods, NEW k \in Jobs, Offer(p, k)
  PROVE  /\ \A q \in Pods, j \in Jobs : (\E i \in 1 .. Len(queue[q]) : queue[q][i] = j) =>
              \E i \in 1 .. Len(queue'[q]) : queue'[q][i] = j
         /\ \E i \in 1 .. Len(queue'[p]) : queue'[p][i] = k
<1>0. /\ queue[p] \in Seq(Jobs \cup {Poison}) /\ queue'[p] = Append(queue[p], k)
      /\ \A q \in Pods : q # p => queue'[q] = queue[q]
  BY AttendParts DEF Offer, Room
<1>1. /\ Len(queue'[p]) = Len(queue[p]) + 1 /\ queue'[p][Len(queue[p]) + 1] = k
      /\ \A i \in 1 .. Len(queue[p]) : queue'[p][i] = queue[p][i] /\ i \in 1 .. Len(queue'[p])
      /\ Len(queue[p]) + 1 \in 1 .. Len(queue'[p])
  BY <1>0
<1> QED BY <1>0, <1>1

LEMMA CreateEffect ==
  ASSUME TypeInv, NEW c \in Commits, NEW text \in BOOLEAN, Create(c, text)
  PROVE  /\ \A j \in Jobs : Known(j) =>
              Known(j)' /\ (row'[j] = row[j] \/ row'[j].status = "ABSENT")
         /\ \A j \in Jobs : row'[j].status \in {row[j].status, "ABSENT", "RECEIVED"}
         /\ <<c, index'[c]>> \in Jobs /\ Known(<<c, index[c]>>)'
<1>0. /\ created \in [Commits -> 0 .. MaxGen] /\ index \in [Commits -> 0 .. MaxGen]
      /\ MaxGen \in Nat /\ created[c] < MaxGen
      /\ created' = [created EXCEPT ![c] = created[c] + 1]
      /\ index' = [index EXCEPT ![c] = created[c] + 1]
  BY StoreAssumption DEF TypeInv, TypeOK, StoreTypeOK, Create
<1>1. \A j \in Jobs : j[1] \in Commits /\ j[2] \in Nat
  BY <1>0 DEF Jobs
<1>2. \A j \in Jobs : Known(j) => Known(j)'
  BY <1>0, <1>1 DEF Known
<1>3. \A j \in Jobs : row'[j] = IF j = <<c, created[c] + 1>> THEN NewRow(text)
                                ELSE IF j = <<c, index[c]>> THEN Absent ELSE row[j]
  BY DEF Create
<1>4. \A j \in Jobs : Known(j) => j # <<c, created[c] + 1>>
  BY <1>0, <1>1 DEF Known
<1>5. NewRow(text).status = "RECEIVED" /\ Absent.status = "ABSENT"
  BY DEF NewRow, Absent
<1>6. /\ index'[c] = created[c] + 1 /\ created'[c] = created[c] + 1
      /\ created[c] + 1 \in 1 .. MaxGen
  BY <1>0
<1>7. <<c, index'[c]>> \in Jobs
  BY <1>6 DEF Jobs
<1>8. Known(<<c, index[c]>>)'
  <2>1. index'[c] <= created'[c]
    BY <1>0, <1>6
  <2> QED BY <2>1 DEF Known
<1> QED BY <1>2, <1>3, <1>4, <1>5, <1>7, <1>8

\* What is stored changes for jobs that are not accepted, or goes away; who
\* holds what does not change.
LEMMA StoreAttend ==
  ASSUME IInv, AttendInv, UNCHANGED <<pod, listed, delayed, wpc, wjob>>, AcceptedKnown',
         Healthy' => Healthy,
         \A p \in Pods, j \in Jobs : (\E i \in 1 .. Len(queue[p]) : queue[p][i] = j) =>
           \E i \in 1 .. Len(queue'[p]) : queue'[p][i] = j,
         \A j \in Jobs : Running(j)' => Running(j),
         \A j \in accepted' : row'[j].status = "RECEIVED" =>
           (j \in accepted /\ row[j].status = "RECEIVED") \/ Attended(j)'
  PROVE  AttendInv'
<1>0. accepted \subseteq Jobs
  BY AttendParts
<1>1. ASSUME NEW j \in Jobs, Attended(j) PROVE Attended(j)'
  BY <1>1 DEF Attended
<1>2. Healthy' => RunningIsRun'
  BY DEF AttendInv, RunningIsRun, Engaged
<1>3. Healthy' => ReceivedIsKept'
  BY <1>0, <1>1 DEF AttendInv, ReceivedIsKept
<1>4. IdleHasNone'
  BY DEF AttendInv, IdleHasNone
<1> QED BY <1>2, <1>3, <1>4 DEF AttendInv

LEMMA HandlerAttend ==
  ASSUME IInv, FinalInv, AttendInv, QueueMax = 0, NEW h \in Handlers,
         Request(h) \/ HandlerStep(h)
  PROVE  AttendInv'
<1>0. /\ UNCHANGED <<pod, listed, delayed, wpc, wjob>>
      /\ hpc \in [Handlers -> {"idle", "created", "enqfail"}]
      /\ hjob \in [Handlers -> Jobs \cup {NoJob}] /\ hpod \in [Handlers -> Pods]
      /\ accepted \subseteq Jobs /\ used.faults \in Nat
  BY AttendParts
  DEF Request, HandlerStep, Submit, Execute, Accept, BeginRefusal, EndRefusal,
      SkipRefusal, podVars, queueVars, workerVars
<1>1. CASE Request(h)
  <2>1. PICK p \in Pods : \/ \E c \in Commits, text \in Texts, wait \in BOOLEAN :
                               Submit(h, p, c, text, wait)
                          \/ \E j \in Jobs : Execute(h, p, j)
    BY <1>1 DEF Request
  <2>2. UNCHANGED <<queue, accepted>> /\ used'.faults = used.faults
    BY <2>1 DEF Submit, Execute, queueVars, IInv, TypeInv, TypeOK
  <2>3. Healthy' => Healthy
    BY <1>0, <2>2 DEF Healthy, Serving
  <2>4. CASE \E j \in Jobs : Execute(h, p, j)
    <3>1. PICK j \in Jobs : Execute(h, p, j)
      BY <2>4
    <3>2. Known(j) /\ UNCHANGED <<row, created>>
      BY <3>1 DEF Execute, IInv, ClaimInv, Created, storeVars
    <3>3. hpc' = [hpc EXCEPT ![h] = "created"] /\ hjob' = [hjob EXCEPT ![h] = j]
      BY <3>1 DEF Execute, Respond
    <3>4. AcceptedKnown'
      BY <1>0, <2>2, <3>2, <3>3 DEF AttendInv, AcceptedKnown, Known
    <3> QED BY <1>0, <2>2, <2>3, <3>2, <3>4, StoreAttend DEF Running
  <2>5. ASSUME NEW c \in Commits, NEW text \in Texts, NEW wait \in BOOLEAN,
               Submit(h, p, c, text, wait)
        PROVE  AttendInv'
    <3>1. /\ hpc' = [hpc EXCEPT ![h] = IF wait THEN "idle" ELSE "created"]
          /\ hjob' = [hjob EXCEPT ![h] = IF wait THEN NoJob ELSE <<c, index'[c]>>]
      BY <2>5 DEF Submit, Respond
    <3>2. CASE Reusable(c) /\ UNCHANGED storeVars
      <4>1. UNCHANGED <<row, created, index>>
        BY <3>2 DEF storeVars
      <4>2. index[c] \in 0 .. MaxGen /\ index[c] # 0 /\ Present(<<c, index[c]>>)
        BY <3>2 DEF Reusable, IInv, TypeInv, TypeOK, StoreTypeOK
      <4>3. <<c, index[c]>> \in Jobs
        <5>1. index[c] \in 1 .. MaxGen
          BY <4>2, StoreAssumption
        <5> QED BY <5>1 DEF Jobs
      <4>4. Known(<<c, index[c]>>)
        BY <4>2, <4>3 DEF IInv, ClaimInv, Created
      <4>5. \A g \in Handlers : hpc'[g] # "idle" => hpc'[g] = "created" /\ Known(hjob'[g])
        BY <1>0, <3>1, <4>1, <4>4 DEF AttendInv, AcceptedKnown
      <4>6. AcceptedKnown'
        BY <2>2, <4>1, <4>5 DEF AttendInv, AcceptedKnown, Known
      <4> QED BY <1>0, <2>2, <2>3, <4>1, <4>6, StoreAttend DEF Running
    <3>3. CASE Create(c, text)
      <4>1. /\ \A j \in Jobs : Known(j) =>
                 Known(j)' /\ (row'[j] = row[j] \/ row'[j].status = "ABSENT")
            /\ \A j \in Jobs : row'[j].status \in {row[j].status, "ABSENT", "RECEIVED"}
            /\ <<c, index'[c]>> \in Jobs /\ Known(<<c, index[c]>>)'
        BY <3>3, CreateEffect, PipelineAssumption DEF IInv
      <4>2. \A g \in Handlers : g # h /\ hpc[g] # "idle" => hjob[g] \in Jobs
        BY DEF IInv, TypeInv, JobsInHand
      <4>3. ASSUME NEW g \in Handlers, hpc'[g] # "idle"
            PROVE  hpc'[g] = "created" /\ Known(hjob[g])'
        <5>1. CASE g = h
          <6>1. hpc'[h] = "created" /\ hjob'[h] = <<c, index'[c]>>
            BY <1>0, <3>1, <4>3, <5>1
          <6> QED BY <4>1, <5>1, <6>1 DEF Known
        <5>2. CASE g # h
          <6>1. hpc'[g] = hpc[g] /\ hjob'[g] = hjob[g]
            BY <1>0, <3>1, <5>2
          <6>2. hpc[g] = "created" /\ Known(hjob[g]) /\ hjob[g] \in Jobs
            BY <4>2, <4>3, <5>2, <6>1 DEF AttendInv, AcceptedKnown
          <6> QED BY <4>1, <6>1, <6>2 DEF Known
        <5> QED BY <5>1, <5>2
      <4>4. \A j \in accepted' : Known(j)'
        BY <1>0, <2>2, <4>1 DEF AttendInv, AcceptedKnown
      <4>5. AcceptedKnown'
        BY <4>3, <4>4 DEF AcceptedKnown
      <4>6. \A j \in Jobs : Running(j)' => Running(j)
        BY <4>1 DEF Running
      <4>7. \A j \in accepted' : row'[j].status = "RECEIVED" =>
              j \in accepted /\ row[j].status = "RECEIVED"
        BY <1>0, <2>2, <4>1 DEF AttendInv, AcceptedKnown
      <4> QED BY <1>0, <2>2, <2>3, <4>5, <4>6, <4>7, StoreAttend
    <3> QED BY <2>5, <3>2, <3>3 DEF Submit
  <2> QED BY <2>1, <2>4, <2>5
<1>2. CASE Accept(h)
  <2>1. /\ hpc[h] = "created" /\ Offer(hpod[h], hjob[h]) /\ UNCHANGED <<row, created>>
        /\ accepted' = accepted \cup {hjob[h]} /\ UNCHANGED used
        /\ hpc' = [hpc EXCEPT ![h] = "idle"]
        /\ hjob' = [hjob EXCEPT ![h] = NoJob]
    BY <1>2 DEF Accept, Respond, storeVars
  <2>2. hjob[h] \in Jobs /\ hpod[h] \in Pods /\ Known(hjob[h])
    BY <1>0, <2>1 DEF IInv, TypeInv, JobsInHand, AttendInv, AcceptedKnown
  <2>3. AcceptedKnown'
    BY <1>0, <2>1, <2>2 DEF AttendInv, AcceptedKnown, Known
  <2>4. /\ \A q \in Pods, j \in Jobs : (\E i \in 1 .. Len(queue[q]) : queue[q][i] = j) =>
              \E i \in 1 .. Len(queue'[q]) : queue'[q][i] = j
        /\ \E i \in 1 .. Len(queue'[hpod[h]]) : queue'[hpod[h]][i] = hjob[h]
    BY <2>1, <2>2, OfferKeeps
  <2>6. ASSUME NEW j \in accepted', row'[j].status = "RECEIVED"
        PROVE  (j \in accepted /\ row[j].status = "RECEIVED") \/ Attended(j)'
    BY <2>1, <2>2, <2>4, <2>6 DEF Attended
  <2>7. Healthy' => Healthy
    BY <1>0, <2>1 DEF Healthy, Serving
  <2> QED BY <1>0, <2>1, <2>3, <2>4, <2>6, <2>7, StoreAttend DEF Running
<1>3. ~BeginRefusal(h) /\ ~SkipRefusal(h)
  BY DEF BeginRefusal, SkipRefusal, Room
<1>4. ~EndRefusal(h)
  BY NoHandlerWrites DEF EndRefusal, FinalInv
<1> QED BY <1>1, <1>2, <1>3, <1>4 DEF HandlerStep

LEMMA OutsideAttend ==
  ASSUME IInv, FinalInv, AttendInv, OneProcess \/ NoneRestarts,
         \/ \E j \in Jobs : RetryDue(j)
         \/ \E u \in writes : LandOrphan(u)
         \/ \E t \in Tenants : Clear(t)
  PROVE  AttendInv'
<1>0. /\ UNCHANGED <<pod, listed, delayed, queue, wpc, wjob, hpc, hjob, accepted, created>>
      /\ accepted \subseteq Jobs
  BY AttendParts DEF RetryDue, LandOrphan, Land, Clear, ClearTenant, podVars, workerVars,
                     queueVars, handlerVars, history
<1>1. AcceptedKnown' /\ IdleHasNone'
  BY <1>0 DEF AttendInv, AcceptedKnown, IdleHasNone, Known
<1>2. ASSUME NEW u \in writes, LandOrphan(u) PROVE AttendInv'
  <2>1. u.pod \in Pods /\ pod[u.pod] = "exiting"
    BY <1>2, FinalParts
    DEF LandOrphan, FinalInv, WritesFit, Owned, AwaitedByWorker, AwaitedByRecovery, LeftBehind
  <2>2. ~Healthy'
    BY <1>0, <2>1, NobodyElse DEF Healthy, Serving
  <2> QED BY <1>1, <2>2 DEF AttendInv
<1>3. ASSUME \/ \E j \in Jobs : RetryDue(j)
             \/ \E t \in Tenants : Clear(t)
      PROVE  AttendInv'
  <2>1. \A k \in Jobs : row'[k].status \in {row[k].status, "ABSENT"}
    BY <1>3, FinalParts DEF RetryDue, Row, Clear, ClearTenant, Absent
  <2>2. used'.faults = used.faults
    BY <1>3 DEF RetryDue, Clear, history, IInv, TypeInv, TypeOK
  <2>3. Healthy' => Healthy
    BY <1>0, <2>2 DEF Healthy, Serving
  <2>4. \A j \in Jobs : Running(j)' => Running(j)
    BY <2>1 DEF Running
  <2>5. \A j \in accepted' : row'[j].status = "RECEIVED" =>
          j \in accepted /\ row[j].status = "RECEIVED"
    BY <1>0, <2>1
  <2> QED BY <1>0, <1>1, <2>3, <2>4, <2>5, StoreAttend
<1> QED BY <1>2, <1>3

LEMMA RecoveryAttend ==
  ASSUME IInv, FinalInv, AttendInv, OneProcess \/ NoneRestarts, QueueMax = 0, NEW p \in Pods,
         \/ EndStale(p)
         \/ \E j \in Jobs : Recover(p, j) \/ BeginStale(p, j) \/ DelayedEnqueue(p, j)
  PROVE  AttendInv'
<1>0. /\ UNCHANGED <<pod, wpc, wjob, hpc, hjob, accepted, used, created>>
      /\ accepted \subseteq Jobs
  BY AttendParts DEF Recover, DelayedEnqueue, BeginStale, Read, EndStale, Land, Transition,
                     podVars, workerVars, handlerVars, history, storeVars
<1>1. /\ AcceptedKnown' /\ IdleHasNone'
      /\ Healthy' => Healthy
  BY <1>0 DEF AttendInv, AcceptedKnown, IdleHasNone, Known, Healthy, Serving
<1>2. ASSUME NEW j \in Jobs, BeginStale(p, j) PROVE AttendInv'
  <2>1. UNCHANGED <<row, listed, queue, delayed>>
    BY <1>2 DEF BeginStale, Read, podVars, queueVars
  <2> QED BY <1>0, <1>1, <2>1, StoreAttend DEF Running
<1>3. ASSUME NEW j \in Jobs, DelayedEnqueue(p, j) PROVE AttendInv'
  <2>1. /\ UNCHANGED <<row, listed>> /\ Offer(p, j)
        /\ delayed' = [delayed EXCEPT ![p][j] = @ - 1]
    BY <1>3 DEF DelayedEnqueue, storeVars, podVars
  <2>2. /\ \A q \in Pods, k \in Jobs : (\E i \in 1 .. Len(queue[q]) : queue[q][i] = k) =>
              \E i \in 1 .. Len(queue'[q]) : queue'[q][i] = k
        /\ \E i \in 1 .. Len(queue'[p]) : queue'[p][i] = j
    BY <2>1, OfferKeeps
  <2>3. \A q \in Pods, k \in Jobs : q # p \/ k # j => delayed'[q][k] = delayed[q][k]
    BY <2>1, AttendParts
  <2>4. \A k \in Jobs : Attended(k) => Attended(k)'
    BY <1>0, <2>1, <2>2, <2>3 DEF Attended
  <2>5. Healthy' => RunningIsRun' /\ ReceivedIsKept'
    BY <1>0, <1>1, <2>1, <2>4 DEF AttendInv, RunningIsRun, Running, ReceivedIsKept, Engaged
  <2> QED BY <1>1, <2>5 DEF AttendInv
<1>4. CASE EndStale(p)
  <2>1. PICK u \in AwaitedBy(<<"recovery", p>>) : Land(u) /\ Recovered(p, u.job)
    BY <1>4 DEF EndStale
  <2>2. /\ u \in writes /\ u.job \in Jobs /\ u.op = "stale"
    BY <2>1, RecoveryWrites, FinalParts DEF AwaitedBy, AwaitedByRecovery, FinalInv
  <2>3. u.row.status \notin Pending
    BY <2>2 DEF FinalInv, WritesFit, Meant, Closing
  <2>4. row'[u.job].status \notin Pending /\ \A k \in Jobs : k # u.job => row'[k] = row[k]
    <3>1. Landed(u).status \in {"ABSENT", u.row.status}
      BY <2>2, FinalParts DEF Landed, Row, Absent
    <3> QED BY <2>1, <2>2, <2>3, <3>1, FinalParts DEF Land, Pending
  <2>5. /\ UNCHANGED <<queue, delayed>>
        /\ \A q \in Pods, k \in Jobs : k # u.job => listed'[q][k] = listed[q][k]
    BY <1>4, <2>1, FinalParts DEF EndStale, Recovered, queueVars
  <2>6. \A k \in Jobs : k # u.job => (Attended(k) => Attended(k)')
    BY <1>0, <2>5 DEF Attended
  <2>7. \A k \in Jobs : Running(k)' \/ row'[k].status = "RECEIVED" => k # u.job
    BY <2>4 DEF Running, Pending
  <2>8. Healthy' => RunningIsRun'
    BY <1>0, <1>1, <2>4, <2>5, <2>7 DEF AttendInv, RunningIsRun, Running, Engaged
  <2>9. Healthy' => ReceivedIsKept'
    BY <1>0, <1>1, <2>4, <2>6, <2>7 DEF AttendInv, ReceivedIsKept
  <2> QED BY <1>1, <2>8, <2>9 DEF AttendInv
<1>5. ASSUME NEW j \in Jobs, Recover(p, j) PROVE AttendInv'
  <2>1. /\ pod[p] = "recovering" /\ listed[p][j] # "ABSENT"
        /\ listed' = [listed EXCEPT ![p][j] = "ABSENT"]
    BY <1>5 DEF Recover, Recovering, Recovered
  <2>2. /\ row[j].status \in {listed[p][j], "ABSENT"}
        /\ \A q \in Pods : q = p
    BY <2>1, NobodyElse DEF FinalInv, ListedAsStored
  <2>3. /\ \A k \in Jobs : k # j => row'[k] = row[k]
        /\ \/ row' = row /\ row[j].status \in {"RECEIVED", "ABSENT"} /\ (Delay(p, j) \/ Offer(p, j))
           \/ row'[j].status = "RECEIVED" /\ (Delay(p, j) \/ Offer(p, j))
           \/ row' = row /\ row[j].status = "ABSENT"
        /\ queue' = queue \/ Offer(p, j)
        /\ delayed' = delayed \/ Delay(p, j)
    BY <1>5, <2>1, <2>2, FinalParts DEF Recover, Transition, Row, storeVars, queueVars
  <2>4. \A q \in Pods, k \in Jobs : (\E i \in 1 .. Len(queue[q]) : queue[q][i] = k) =>
              \E i \in 1 .. Len(queue'[q]) : queue'[q][i] = k
    BY <2>3, OfferKeeps
  <2>5. \A q \in Pods, k \in Jobs : delayed[q][k] > 0 => delayed'[q][k] > 0
    <3>1. SUFFICES ASSUME NEW q \in Pods, NEW k \in Jobs, delayed[q][k] > 0
                   PROVE  delayed'[q][k] > 0
      OBVIOUS
    <3>2. delayed \in [Pods -> [Jobs -> Nat]] /\ delayed[q][k] \in Nat
      BY AttendParts
    <3>3. CASE delayed' = [delayed EXCEPT ![p][j] = @ + 1]
      <4>1. delayed'[q][k] \in {delayed[q][k], delayed[q][k] + 1}
        BY <3>2, <3>3
      <4> QED BY <3>1, <3>2, <4>1
    <3> QED BY <2>3, <3>1, <3>3 DEF Delay
  <2>6. \A q \in Pods, k \in Jobs : k # j => listed'[q][k] = listed[q][k]
    BY <2>1, FinalParts
  <2>7. \A k \in Jobs : k # j => (Attended(k) => Attended(k)')
    BY <1>0, <2>4, <2>5, <2>6 DEF Attended
  <2>8. Enqueues(p)
    BY <2>1 DEF Enqueues
  <2>9. Delay(p, j) => delayed'[p][j] > 0
    BY <2>8, AttendParts DEF Delay
  <2>10. Offer(p, j) => \E i \in 1 .. Len(queue'[p]) : queue'[p][i] = j
    BY OfferKeeps
  <2>11. row'[j].status = "RECEIVED" => Attended(j)'
    BY <2>3, <2>9, <2>10 DEF Attended
  <2>12. ~Running(j)'
    BY <2>3 DEF Running
  <2>13. Healthy' => RunningIsRun'
    BY <1>0, <1>1, <2>3, <2>6, <2>12 DEF AttendInv, RunningIsRun, Running, Engaged
  <2>14. Healthy' => ReceivedIsKept'
    BY <1>0, <1>1, <2>3, <2>7, <2>11 DEF AttendInv, ReceivedIsKept
  <2> QED BY <1>1, <2>13, <2>14 DEF AttendInv
<1> QED BY <1>2, <1>3, <1>4, <1>5

LEMMA LifeAttend ==
  ASSUME IInv, FinalInv, AttendInv, OneProcess \/ NoneRestarts, NEW p \in Pods,
         \/ Start(p) \/ Serve(p) \/ RecoveryFails(p)
         \/ Stop(p) \/ StopStep(p) \/ Crash(p)
  PROVE  AttendInv'
<1>0. /\ OnlyPod(p) /\ UNCHANGED <<row, created, accepted>> /\ accepted \subseteq Jobs
      /\ wpc \in [Workers -> WorkerPc] /\ wjob \in [Workers -> Jobs \cup {NoJob}]
      /\ MemoryOK
  BY LifeAlone, FinalParts, AttendParts
  DEF IInv, Start, Recoverable, Serve, RecoveryFails, Stop, StopStep, PutPoison, StopEnds,
      Exit, Crash, storeVars, history
<1>1. AcceptedKnown'
  <2>1. \A h \in Handlers : hpc'[h] # "idle" => hpc'[h] = hpc[h] /\ hjob'[h] = hjob[h]
    BY AttendParts DEF Start, Recoverable, Serve, RecoveryFails, Stop, StopStep, PutPoison,
        StopEnds, Exit, Crash, handlerVars
  <2> QED BY <1>0, <2>1 DEF AttendInv, AcceptedKnown, Known
<1>2. IdleHasNone'
  <2>1. CASE Start(p)
    <3>1. \A w \in Workers : w[1] = p => wjob[w] = NoJob
      BY <2>1 DEF Start, Recoverable, IInv, MemoryInv, Gone
    <3>2. wjob' = wjob /\ \A w \in Workers : w[1] # p => wpc'[w] = wpc[w]
      BY <1>0, <2>1 DEF Start, Recoverable, OnlyPod
    <3> QED BY <3>1, <3>2 DEF AttendInv, IdleHasNone
  <2>2. CASE StopEnds(p) \/ Crash(p)
    BY <2>2 DEF StopEnds, Crash, NoWorkers, AttendInv, IdleHasNone
  <2>3. CASE Serve(p) \/ RecoveryFails(p) \/ Stop(p) \/ PutPoison(p) \/ Exit(p)
    <3>1. UNCHANGED <<wpc, wjob>>
      BY <2>3 DEF Serve, RecoveryFails, Stop, PutPoison, Exit, workerVars
    <3> QED BY <3>1 DEF AttendInv, IdleHasNone
  <2> QED BY <2>1, <2>2, <2>3 DEF StopStep
<1>3. ASSUME Healthy' PROVE RunningIsRun' /\ ReceivedIsKept'
  <2>1. CASE Start(p)
    <3>1. pod'[p] = "recovering" /\ \A j \in Jobs : listed'[p][j] =
            IF row[j].status \in Pending THEN row[j].status ELSE "ABSENT"
      BY <1>0, <2>1, FinalParts DEF Start, Recoverable, MemoryOK
    <3>2. \A j \in Jobs : row[j].status \in Pending => listed'[p][j] # "ABSENT"
      BY <3>1 DEF Pending
    <3>3. RunningIsRun'
      BY <1>0, <3>1, <3>2 DEF RunningIsRun, Running, Pending
    <3>4. ReceivedIsKept'
      BY <1>0, <3>1, <3>2 DEF ReceivedIsKept, Attended, Pending
    <3> QED BY <3>3, <3>4
  <2>2. CASE Serve(p)
    <3>1. /\ pod[p] = "recovering" /\ (\A j \in Jobs : listed[p][j] = "ABSENT")
          /\ UNCHANGED <<listed, queue, delayed, wpc, wjob, used>>
      BY <2>2 DEF Serve, queueVars, workerVars, history
    <3>2. Healthy
      BY <1>3, <3>1 DEF Healthy, Serving
    <3>3. RunningIsRun'
      BY <1>0, <3>1, <3>2 DEF AttendInv, RunningIsRun, Running, Engaged, OnlyPod
    <3>4. ReceivedIsKept'
      BY <1>0, <3>1, <3>2 DEF AttendInv, ReceivedIsKept, Attended
    <3> QED BY <3>3, <3>4
  <2>3. CASE RecoveryFails(p)
    <3>1. used'.faults = used.faults + 1 /\ used.faults \in Nat
      BY <2>3, AttendParts DEF RecoveryFails, IInv, TypeInv, TypeOK
    <3> QED BY <1>3, <3>1 DEF Healthy
  <2>4. CASE Stop(p) \/ StopStep(p) \/ Crash(p)
    <3>1. pod'[p] \in {"stopping", "exiting", "down"}
      BY <1>0, <2>4 DEF Stop, StopStep, PutPoison, StopEnds, Exit, Crash, MemoryOK
    <3>2. ~NoneRestarts
      <4>1. StopStep(p) => pod[p] \in {"stopping", "exiting"}
        BY DEF StopStep, PutPoison, StopEnds, Exit
      <4>2. used.starts \in 0 .. MaxStarts
        BY DEF IInv, TypeInv, TypeOK
      <4> QED BY <2>4, <4>1, <4>2 DEF NoneRestarts, IInv, MemoryInv, NoRestart, Stop, Crash
    <3>3. ~Serving'
      BY <3>1, <3>2 DEF OneProcess, Serving
    <3> QED BY <1>3, <3>3 DEF Healthy
  <2> QED BY <2>1, <2>2, <2>3, <2>4
<1> QED BY <1>1, <1>2, <1>3 DEF AttendInv

LEMMA AttendStep ==
  ASSUME IInv, FinalInv, AttendInv, OneProcess \/ NoneRestarts, QueueMax = 0, [Next]_vars
  PROVE  AttendInv'
<1>1. ASSUME NEW w \in Workers, WorkerStep(w) \/ Expire(w) \/ StoreFails(w)
      PROVE  AttendInv'
  BY <1>1, WorkerAttend
<1>2. ASSUME NEW h \in Handlers, Request(h) \/ HandlerStep(h) PROVE AttendInv'
  BY <1>2, HandlerAttend
<1>3. ASSUME \/ \E j \in Jobs : RetryDue(j)
             \/ \E u \in writes : LandOrphan(u)
             \/ \E t \in Tenants : Clear(t)
      PROVE  AttendInv'
  BY <1>3, OutsideAttend
<1>4. ASSUME NEW p \in Pods,
             \/ EndStale(p)
             \/ \E j \in Jobs : Recover(p, j) \/ BeginStale(p, j) \/ DelayedEnqueue(p, j)
      PROVE  AttendInv'
  BY <1>4, RecoveryAttend
<1>5. ASSUME NEW p \in Pods, Start(p) \/ Serve(p) \/ RecoveryFails(p)
                             \/ Stop(p) \/ StopStep(p) \/ Crash(p)
      PROVE  AttendInv'
  BY <1>5, LifeAttend
<1>6. CASE UNCHANGED vars
  <2>1. UNCHANGED <<row, created, pod, listed, queue, delayed, wpc, wjob, hpc, hjob, accepted,
                    used>>
    BY <1>6 DEF vars, storeVars, podVars, queueVars, workerVars, handlerVars, history
  <2>2. AcceptedKnown' /\ (Healthy' => Healthy)
    BY <2>1 DEF AttendInv, AcceptedKnown, Known, Healthy, Serving
  <2> QED BY <2>1, <2>2, StoreAttend DEF Running
<1> QED BY <1>1, <1>2, <1>3, <1>4, <1>5, <1>6 DEF Next, PodStep

LEMMA AttendInitially == ASSUME PipelineInit PROVE AttendInv
  BY DEF PipelineInit, StoreInit, AttendInv, AcceptedKnown, IdleHasNone, RunningIsRun,
         ReceivedIsKept, Running, Absent

\* A job a client was told is accepted is never lost while the process serves,
\* as long as no store call raised: it is finished, or queued, delayed, held by
\* a worker or still to be recovered, through timeouts, retries, stops, crashes
\* and clears.  The deployment is that of CompletedStays.
THEOREM AcceptedIsKept ==
  ASSUME OneProcess \/ NoneRestarts, QueueMax = 0, NoCallTimesOut
  PROVE  Spec => []AcceptedIsAttended
<1>1. PipelineInit => FinalInv /\ AttendInv
  BY FinalInitially, AttendInitially
<1>2. IInv /\ FinalInv /\ AttendInv /\ [Next]_vars => (FinalInv /\ AttendInv)'
  BY FinalStep, AttendStep
<1>3. IInv /\ AttendInv => AcceptedIsAttended
  <2> SUFFICES ASSUME IInv, AttendInv, Healthy, NEW j \in accepted,
                      row[j].status \in Pending
               PROVE  Attended(j)
    BY DEF AcceptedIsAttended, Healthy, Serving
  <2>1. CASE row[j].status = "RECEIVED"
    BY <2>1 DEF AttendInv, ReceivedIsKept
  <2>2. CASE Running(j)
    <3>1. CASE \E w \in Workers : wjob[w] = j
      BY <3>1, FinalParts DEF Attended
    <3>2. CASE \E p \in Pods : pod[p] = "recovering" /\ listed[p][j] # "ABSENT"
      BY <3>2 DEF Attended
    <3> QED BY <2>2, <3>1, <3>2, AttendParts DEF AttendInv, RunningIsRun
  <2> QED BY <2>1, <2>2 DEF Pending, Running
<1> QED BY <1>1, <1>2, <1>3, RunnerInvariant, PTL DEF Spec
-----------------------------------------------------------------------------
(* The pipeline does with a commit what IngestCommits promises.            *)
(*                                                                         *)
(* Where each commit has one job, the phase of a commit is the one of its  *)
(* job.  A worker is engaged on a job only while it runs; so is the job of *)
(* a write that a process has left behind, and nobody is engaged then.     *)
(* Every step is then one of five shapes, each a step of the promise.      *)

At(j) == PhaseOf(row[j].status)

EngagedRuns == \A w \in Workers : Engaged(w) => At(wjob[w]) = "running"

LeftOpen ==
  \A u \in writes : LeftBehind(u) => u.op \in UpdateOps /\ At(u.job) = "running"

\* What a run writes on its way says that the job runs.
Midway == {"stage2", "marks", "stage3"}

CopiesRun == \A u \in writes : u.op \in Midway => PhaseOf(u.row.status) = "running"

PhaseInv == EngagedRuns /\ LeftOpen /\ CopiesRun

AllInv == IInv /\ TextInv /\ FinalInv /\ PhaseInv

\* The shapes of a step.
Still(j) == At(j)' = At(j)
Held(w) == (Engaged(w)' <=> Engaged(w)) /\ (Engaged(w) => wjob'[w] = wjob[w])
AllStillBut(j) == \A k \in Jobs : k # j => Still(k)

Lets ==
  /\ UNCHANGED created
  /\ \A j \in Jobs : Still(j)
  /\ \A w \in Workers : Engaged(w)' => Engaged(w) /\ wjob'[w] = wjob[w]

Submits(c) ==
  /\ created[c] = 0 /\ created' = [created EXCEPT ![c] = 1]
  /\ <<c, 1>> \in Jobs /\ At(<<c, 1>>)' = "waiting" /\ AllStillBut(<<c, 1>>)
  /\ \A w \in Workers : Held(w)

Claims(w) ==
  /\ UNCHANGED created
  /\ wjob[w] \in Jobs /\ At(wjob[w]) = "waiting" /\ At(wjob[w])' = "running"
  /\ AllStillBut(wjob[w])
  /\ ~Engaged(w) /\ Engaged(w)' /\ wjob'[w] = wjob[w]
  /\ \A v \in Workers : v # w => Held(v)

Concludes(j) ==
  /\ UNCHANGED created
  /\ At(j) = "running" /\ At(j)' \in {"waiting", "completed", "failed"} /\ AllStillBut(j)
  /\ \A w \in Workers : Engaged(w)' <=> Engaged(w) /\ wjob[w] # j
  /\ \A w \in Workers : Engaged(w)' => wjob'[w] = wjob[w]

Overdues(j) ==
  /\ UNCHANGED created
  /\ At(j) = "waiting" /\ At(j)' = "failed" /\ AllStillBut(j)
  /\ \A w \in Workers : Held(w) /\ ~(Engaged(w) /\ wjob[w] = j)

Shape ==
  \/ Lets
  \/ \E c \in Commits : Submits(c)
  \/ \E w \in Workers : Claims(w)
  \/ \E j \in Jobs : Concludes(j) \/ Overdues(j)

LEMMA PhaseFacts ==
  ASSUME NEW r \in Row
  PROVE  /\ PhaseOf(r.status) = "none" <=> r.status = "ABSENT"
         /\ PhaseOf(r.status) = "waiting" <=> r.status = "RECEIVED"
         /\ PhaseOf(r.status) = "running" <=> r.status \in {"STAGE2_RUNNING", "STAGE3_RUNNING"}
         /\ PhaseOf(r.status) = "completed" <=> r.status = "COMPLETED"
         /\ PhaseOf(r.status) = "failed" <=> r.status \in Failures
         /\ PhaseOf(r.status) \in {"waiting", "running"} <=> r.status \in Pending
         /\ PhaseOf(r.status) \in {"none", "waiting", "running", "completed", "failed"}
  BY DEF Row, PhaseOf, Failures, Pending, Statuses

\* Every job that a write, a worker or recovery has is the one of its commit.
LEMMA PhaseParts ==
  ASSUME AllInv
  PROVE  /\ row \in [Jobs -> Row] /\ \A j \in Jobs : row[j] \in Row
         /\ created \in [Commits -> 0 .. MaxGen] /\ index \in [Commits -> 0 .. MaxGen]
         /\ MaxGen \in Nat
         /\ \A j \in Jobs : Known(j) => j = <<j[1], 1>> /\ Present(j)
         /\ \A j \in Jobs : ~Known(j) => ~Present(j)
         /\ \A w \in Workers : Engaged(w) => wjob[w] \in Jobs /\ Known(wjob[w])
         /\ \A u \in writes : u.job \in Jobs /\ Known(u.job) /\ u.row.status # "ABSENT"
         /\ \A u \in writes : u.row \in Row
<1>1. /\ row \in [Jobs -> Row] /\ created \in [Commits -> 0 .. MaxGen]
      /\ index \in [Commits -> 0 .. MaxGen] /\ MaxGen \in Nat
  BY StoreAssumption DEF AllInv, IInv, TypeInv, TypeOK, StoreTypeOK
<1>2. \A j \in Jobs : Known(j) => j = <<j[1], 1>> /\ Present(j)
  BY KnownIsOnly DEF AllInv, IInv, TextRow, Present
<1>3. \A u \in writes : u.row.status # "ABSENT"
  BY DEF AllInv, TextInv, TextRow
<1> QED BY <1>1, <1>2, <1>3, FinalParts DEF AllInv, IInv, ClaimInv, Created

\* The job of a write that has not landed is pending, and runs unless recovery
\* is about to fail it.
LEMMA OpenWrites ==
  ASSUME AllInv, OneProcess \/ NoneRestarts, NEW u \in writes
  PROVE  /\ At(u.job) \in {"waiting", "running"}
         /\ u.op # "stale" => At(u.job) = "running"
         /\ u.op \in UpdateOps \cup {"stale"}
<1>1. CASE AwaitedByWorker(u)
  <2>1. PICK w \in Workers : u.op \in UpdateOps /\ wpc[w] = u.op /\ wjob[w] = u.job
    BY <1>1 DEF AwaitedByWorker
  <2>2. Engaged(w)
    BY <2>1 DEF Engaged, UpdateOps, Owning, Settling
  <2> QED BY <2>1, <2>2 DEF AllInv, PhaseInv, EngagedRuns
<1>2. CASE AwaitedByRecovery(u)
  <2>1. u.pod \in Pods /\ u.job \in Jobs /\ listed[u.pod][u.job] \in Pending
    BY <1>2, FinalParts DEF AllInv, AwaitedByRecovery
  <2>2. row[u.job].status \in Pending
    BY <1>2, <2>1, PhaseParts
    DEF AllInv, FinalInv, ListedAsStored, AwaitedByRecovery, Present
  <2> QED BY <1>2, <2>1, <2>2, PhaseParts, PhaseFacts DEF At, AwaitedByRecovery
<1>3. CASE LeftBehind(u)
  BY <1>3 DEF AllInv, PhaseInv, LeftOpen
<1> QED BY <1>1, <1>2, <1>3 DEF AllInv, FinalInv, WritesFit, Owned

\* A write that lands says what it is meant to say.
LEMMA LandPhase ==
  ASSUME AllInv, OneProcess \/ NoneRestarts, NEW u \in writes, Land(u)
  PROVE  /\ u.job \in Jobs /\ AllStillBut(u.job) /\ UNCHANGED created
         /\ u.op \in Midway => At(u.job)' = At(u.job)
         /\ u.op = "retry" => At(u.job)' = "waiting"
         /\ u.op \in Closing => At(u.job)' \in {"completed", "failed"}
         /\ u.op = "stale" => At(u.job)' = "failed"
<1>1. /\ created' = created /\ u.job \in Jobs
      /\ \A j \in Jobs : j # u.job => row'[j] = row[j]
  BY LandEffect DEF AllInv, IInv
<1>2. Present(u.job) /\ u.row \in Row /\ row[u.job] \in Row /\ u.row.status # "ABSENT"
  BY PhaseParts
<1>3. row'[u.job] = Landed(u)
  BY <1>1, PhaseParts DEF Land
<1>4. \/ row'[u.job].status = u.row.status
      \/ u.op = "marks" /\ row'[u.job].status = row[u.job].status
  <2>1. \A r \in Row : \A m : [r EXCEPT !.marks = m].status = r.status
    BY DEF Row
  <2> QED BY <1>2, <1>3, <2>1 DEF Landed
<1>5. u.op \in Midway => At(u.job)' = At(u.job)
  <2>1. u.op \in Midway => At(u.job) = "running" /\ PhaseOf(u.row.status) = "running"
    BY OpenWrites DEF AllInv, PhaseInv, CopiesRun, Midway
  <2> QED BY <1>4, <2>1 DEF At
<1>6. Meant(u)
  BY DEF AllInv, FinalInv, WritesFit
<1>7. u.op = "retry" => At(u.job)' = "waiting"
  BY <1>2, <1>4, <1>6, PhaseFacts DEF At, Meant
<1>8. u.op \in Closing => At(u.job)' \in {"completed", "failed"}
  BY <1>2, <1>4, <1>6, PhaseFacts DEF At, Meant, Closing
<1>9. u.op = "stale" => At(u.job)' = "failed"
  BY <1>2, <1>4, <1>6, <1>8, PhaseFacts DEF At, Meant, Closing
<1> QED BY <1>1, <1>5, <1>7, <1>8, <1>9 DEF AllStillBut, Still, At

-----------------------------------------------------------------------------
(* The shape of every step.                                                *)

LEMMA SameStore ==
  ASSUME UNCHANGED <<row, created>>,
         \A w \in Workers : Engaged(w)' => Engaged(w) /\ wjob'[w] = wjob[w]
  PROVE  Lets
  BY DEF Lets, Still, At

LEMMA WorkerShape ==
  ASSUME AllInv, NEW w \in Workers, WorkerMove(w),
         UNCHANGED row, UNCHANGED created,
         Engaged(w)' => Engaged(w) /\ wjob'[w] = wjob[w]
  PROVE  Lets
<1>1. \A v \in Workers : Engaged(v)' => Engaged(v) /\ wjob'[v] = wjob[v]
  BY WorkerAlone DEF AllInv, IInv, Engaged
<1> QED BY <1>1, SameStore

LEMMA ClaimShape ==
  ASSUME AllInv, NEW w \in Workers, Claim(w)
  PROVE  Lets \/ Claims(w)
<1>1. wjob[w] \in Jobs /\ wpc[w] = "claim" /\ WorkerMove(w)
  BY DEF Claim, AllInv, IInv, TypeInv, JobsInHand, WorkerMove, WorkerStep
<1>2. CASE UNCHANGED storeVars /\ Finish(w)
  <2>1. ~Engaged(w)'
    BY <1>2, FinalParts DEF Finish, Goto, Engaged, Owning, Settling, AllInv
  <2> QED BY <1>1, <1>2, <2>1, WorkerShape DEF storeVars
<1>3. CASE /\ Transition(wjob[w], "RECEIVED", "STAGE2_RUNNING")
           /\ Goto(w, "stage2") /\ wjob' = wjob
  <2>1. /\ row[wjob[w]].status = "RECEIVED" /\ created' = created
        /\ row'[wjob[w]].status = "STAGE2_RUNNING"
        /\ \A j \in Jobs : j # wjob[w] => row'[j] = row[j]
    BY <1>1, <1>3, PhaseParts DEF Transition, Row
  <2>2. At(wjob[w]) = "waiting" /\ At(wjob[w])' = "running" /\ AllStillBut(wjob[w])
    BY <1>3, <2>1 DEF At, PhaseOf, Failures, AllStillBut, Still
  <2>3. ~Engaged(w) /\ Engaged(w)'
    BY <1>1, <1>3, FinalParts DEF Goto, Engaged, Owning, Settling, AllInv
  <2>4. \A v \in Workers : v # w => Held(v)
    BY <1>1, WorkerAlone DEF Held, Engaged, AllInv, IInv
  <2> QED BY <1>1, <1>3, <2>1, <2>2, <2>3, <2>4 DEF Claims
<1> QED BY <1>2, <1>3 DEF Claim

LEMMA UpdateShape ==
  ASSUME AllInv, OneProcess \/ NoneRestarts, NEW w \in Workers, EndUpdate(w)
  PROVE  Lets \/ \E j \in Jobs : Concludes(j)
<1>1. PICK u \in AwaitedBy(<<"worker", w>>) : Land(u)
  BY DEF EndUpdate
<1>2. /\ u \in writes /\ u.op \in UpdateOps /\ wpc[w] = u.op /\ wjob[w] = u.job /\ Engaged(w)
      /\ u.job \in Jobs
  BY <1>1, AwaitsOnlyCalls, FinalParts DEF AwaitedBy, AllInv, FinalInv
<1>3. AllStillBut(u.job) /\ UNCHANGED created
  BY <1>1, <1>2, LandPhase
<1>4. \A v \in Workers : v # w => (Engaged(v)' <=> Engaged(v)) /\ wjob'[v] = wjob[v]
  BY WorkerAlone DEF Engaged, WorkerMove, WorkerStep, AllInv, IInv
<1>5. CASE u.op \in Midway
  <2>1. Engaged(w)' /\ wjob'[w] = wjob[w]
    BY <1>2, <1>5, FinalParts
    DEF EndUpdate, AfterUpdate, Goto, Engaged, Owning, Settling, UpdateOps, Midway, AllInv
  <2>2. Still(u.job)
    BY <1>1, <1>2, <1>5, LandPhase DEF Still
  <2> QED BY <1>2, <1>3, <1>4, <2>1, <2>2 DEF Lets, AllStillBut
<1>6. CASE u.op \notin Midway
  <2>1. ~Engaged(w)'
    BY <1>2, <1>6, FinalParts
    DEF EndUpdate, AfterUpdate, Goto, Finish, Engaged, Owning, Settling, UpdateOps, Midway, AllInv
  <2>2. At(u.job) = "running"
    BY <1>2 DEF AllInv, PhaseInv, EngagedRuns
  <2>3. At(u.job)' \in {"waiting", "completed", "failed"}
    <3>1. u.op = "retry" \/ u.op \in Closing
      BY <1>2, <1>6 DEF UpdateOps, Midway, Closing
    <3> QED BY <1>1, <1>2, <3>1, LandPhase
  <2>4. \A v \in Workers : v # w /\ Engaged(v) => wjob[v] # u.job
    BY <1>2 DEF AllInv, IInv, ClaimInv, Exclusive
  <2>5. \A v \in Workers : Engaged(v)' <=> Engaged(v) /\ wjob[v] # u.job
    BY <1>2, <1>4, <2>1, <2>4
  <2>6. \A v \in Workers : Engaged(v)' => wjob'[v] = wjob[v]
    BY <1>4, <2>1
  <2> QED BY <1>2, <1>3, <2>2, <2>3, <2>5, <2>6 DEF Concludes
<1> QED BY <1>5, <1>6

LEMMA WorkersShape ==
  ASSUME AllInv, OneProcess \/ NoneRestarts, NEW w \in Workers, WorkerMove(w)
  PROVE  Shape
<1>1. CASE Claimless(w)
  <2>1. UNCHANGED row /\ UNCHANGED created
    BY <1>1, ClaimlessEffect DEF storeVars, AllInv, IInv
  <2>2. Engaged(w)' => Engaged(w) /\ wjob'[w] = wjob[w]
    BY <1>1, ClaimlessEffect DEF AllInv, IInv
  <2> QED BY <2>1, <2>2, WorkerShape DEF Shape
<1>2. CASE Claim(w)
  BY <1>2, ClaimShape DEF Shape
<1>3. CASE BeginUpdate(w)
  <2>1. UNCHANGED row /\ UNCHANGED created /\ UNCHANGED <<wpc, wjob>>
    BY <1>3 DEF BeginUpdate, Read, workerVars
  <2>2. Engaged(w)' => Engaged(w) /\ wjob'[w] = wjob[w]
    BY <2>1 DEF Engaged
  <2> QED BY <2>1, <2>2, WorkerShape DEF Shape
<1>4. CASE EndUpdate(w)
  BY <1>4, UpdateShape DEF Shape
<1>5. CASE Expire(w) \/ StoreFails(w)
  <2>1. UNCHANGED row /\ UNCHANGED created
    BY <1>5 DEF Expire, StoreFails
  <2>2. Engaged(w)' => Engaged(w) /\ wjob'[w] = wjob[w]
    BY <1>5, PipelineAssumption, FinalParts
    DEF Expire, StoreFails, UpdateOps, Goto, Finish, Engaged, Owning, Settling, AllInv
  <2> QED BY <2>1, <2>2, WorkerShape DEF Shape
<1> QED BY <1>1, <1>2, <1>3, <1>4, <1>5 DEF WorkerMove, WorkerStep, Claimless

LEMMA CreateShape ==
  ASSUME AllInv, NEW c \in Commits, Create(c, TRUE), UNCHANGED <<wpc, wjob>>
  PROVE  Submits(c)
<1>1. created[c] \in {0, 1} /\ created[c] < MaxGen
  BY DEF AllInv, TextInv, OneOfEach, Create
<1>2. created[c] = 0
  <2>1. SUFFICES ASSUME created[c] = 1 PROVE Reusable(c)
    BY <1>1 DEF Create
  <2>2. index[c] = 1 /\ row[<<c, 1>>].status # "ABSENT" /\ row[<<c, 1>>].text
    BY <2>1 DEF AllInv, TextInv, OneOfEach, TextRow
  <2>3. index[c] # 0 /\ <<c, index[c]>> = <<c, 1>>
    BY <2>2
  <2> QED BY <2>2, <2>3, Zenon DEF Reusable, Present
<1>3. <<c, 1>> \in Jobs /\ created' = [created EXCEPT ![c] = 1]
  <2>1. 1 \in 1 .. MaxGen
    BY <1>1, <1>2, PhaseParts
  <2> QED BY <1>2, <2>1 DEF Jobs, Create
<1>4. /\ created[c] + 1 = 1
      /\ \A j \in Jobs : row'[j] = IF j = <<c, created[c] + 1>> THEN NewRow(TRUE)
                                   ELSE IF j = <<c, index[c]>> THEN Absent ELSE row[j]
  BY <1>2 DEF Create
<1>5. At(<<c, 1>>)' = "waiting"
  <2>0. <<c, created[c] + 1>> = <<c, 1>>
    BY <1>4
  <2>1. row'[<<c, 1>>] = NewRow(TRUE)
    BY <1>3, <1>4, <2>0, Zenon
  <2>2. NewRow(TRUE).status = "RECEIVED"
    BY DEF NewRow, Absent
  <2> QED BY <2>1, <2>2 DEF At, PhaseOf, Failures
<1>6. ASSUME NEW j \in Jobs, j # <<c, 1>> PROVE Still(j)
  <2>1. row'[j] = IF j = <<c, index[c]>> THEN Absent ELSE row[j]
    BY <1>4, <1>6
  <2>2. CASE j = <<c, index[c]>>
    <3>1. ~Known(j)
      <4>1. index[c] \in 1 .. MaxGen /\ j[2] = index[c] /\ created[j[1]] = 0
        BY <1>2, <2>2 DEF Jobs
      <4> QED BY <4>1, PhaseParts DEF Known
    <3>2. row[j].status = "ABSENT"
      BY <3>1, PhaseParts DEF Present
    <3> QED BY <2>1, <2>2, <3>2 DEF Still, At, Absent
  <2>3. CASE j # <<c, index[c]>>
    BY <2>1, <2>3 DEF Still, At
  <2> QED BY <2>2, <2>3
<1> QED BY <1>2, <1>3, <1>5, <1>6 DEF Submits, AllStillBut, Held, Engaged

LEMMA HandlerShape ==
  ASSUME AllInv, QueueMax = 0, Texts \subseteq {TRUE}, NEW h \in Handlers,
         Request(h) \/ HandlerStep(h)
  PROVE  Shape
<1>1. UNCHANGED <<wpc, wjob>>
  BY DEF Request, HandlerStep, Submit, Execute, Accept, BeginRefusal, EndRefusal,
         SkipRefusal, workerVars
<1>2. CASE UNCHANGED storeVars
  BY <1>1, <1>2, SameStore DEF storeVars, Engaged, Shape
<1>3. ASSUME NEW c \in Commits, NEW text \in Texts, Create(c, text) PROVE Shape
  <2>1. text = TRUE
    OBVIOUS
  <2> QED BY <1>1, <1>3, <2>1, CreateShape DEF Shape
<1>4. CASE Request(h)
  BY <1>2, <1>3, <1>4 DEF Request, Submit, Execute
<1>5. ~BeginRefusal(h) /\ ~SkipRefusal(h)
  BY DEF BeginRefusal, SkipRefusal, Room
<1>6. ~EndRefusal(h)
  BY NoHandlerWrites DEF EndRefusal, FinalInv, AllInv
<1> QED BY <1>2, <1>4, <1>5, <1>6 DEF HandlerStep, Accept

LEMMA OutsideShape ==
  ASSUME AllInv, OneProcess \/ NoneRestarts, MaxClears = 0,
         \/ \E j \in Jobs : RetryDue(j)
         \/ \E u \in writes : LandOrphan(u)
         \/ \E t \in Tenants : Clear(t)
  PROVE  Shape
<1>0. UNCHANGED <<wpc, wjob>>
  BY DEF RetryDue, LandOrphan, Clear, workerVars
<1>1. ASSUME NEW j \in Jobs, RetryDue(j) PROVE Shape
  <2>1. created' = created /\ \A k \in Jobs : row'[k].status = row[k].status
    BY <1>1, PhaseParts DEF RetryDue, Row
  <2> QED BY <1>0, <2>1 DEF Shape, Lets, Still, At, Engaged
<1>2. ASSUME NEW u \in writes, LandOrphan(u) PROVE Shape
  <2>1. LeftBehind(u)
    BY <1>2 DEF LandOrphan, AllInv, FinalInv, WritesFit, Owned, AwaitedByWorker, AwaitedByRecovery
  <2>2. /\ u.op \in UpdateOps /\ At(u.job) = "running" /\ \A w \in Workers : ~Engaged(w)
        /\ Land(u)
    BY <1>2, <2>1, NobodyElse, FinalParts DEF LeftBehind, AllInv, PhaseInv, LeftOpen, LandOrphan
  <2>3. \A w \in Workers : ~Engaged(w)'
    BY <1>0, <2>2 DEF Engaged
  <2>4. u.job \in Jobs /\ AllStillBut(u.job) /\ UNCHANGED created
    BY <2>2, LandPhase
  <2>5. CASE u.op \in Midway
    BY <2>2, <2>3, <2>4, <2>5, LandPhase DEF Shape, Lets, AllStillBut, Still
  <2>6. CASE u.op \notin Midway
    <3>1. At(u.job)' \in {"waiting", "completed", "failed"}
      <4>1. u.op = "retry" \/ u.op \in Closing
        BY <2>2, <2>6 DEF UpdateOps, Midway, Closing
      <4> QED BY <2>2, <4>1, LandPhase
    <3> QED BY <2>2, <2>3, <2>4, <3>1 DEF Shape, Concludes
  <2> QED BY <2>5, <2>6
<1>3. ASSUME NEW t \in Tenants, Clear(t) PROVE FALSE
  BY <1>3, BoundAssumption DEF Clear, AllInv, IInv, TypeInv, TypeOK
<1> QED BY <1>1, <1>2, <1>3

LEMMA RecoveryShape ==
  ASSUME AllInv, OneProcess \/ NoneRestarts, NEW p \in Pods,
         \/ EndStale(p)
         \/ \E j \in Jobs : Recover(p, j) \/ BeginStale(p, j) \/ DelayedEnqueue(p, j)
  PROVE  Shape
<1>0. UNCHANGED <<wpc, wjob>>
  BY DEF Recover, DelayedEnqueue, BeginStale, EndStale, workerVars
<1>1. CASE UNCHANGED <<row, created>>
  BY <1>0, <1>1, SameStore DEF Engaged, Shape
<1>2. CASE EndStale(p)
  <2>1. PICK u \in AwaitedBy(<<"recovery", p>>) : Land(u)
    BY <1>2 DEF EndStale
  <2>2. /\ u \in writes /\ u.job \in Jobs /\ u.op = "stale"
        /\ pod[p] = "recovering" /\ listed[p][u.job] # "ABSENT"
    BY <2>1, RecoveryWrites, FinalParts DEF AwaitedBy, AwaitedByRecovery, AllInv, FinalInv
  <2>3. \A w \in Workers : wjob[w] # u.job
    BY <2>2, NobodyElse DEF AllInv
  <2>4. /\ At(u.job) \in {"waiting", "running"} /\ At(u.job)' = "failed"
        /\ AllStillBut(u.job) /\ UNCHANGED created
    BY <2>1, <2>2, OpenWrites, LandPhase
  <2> QED BY <1>0, <2>2, <2>3, <2>4 DEF Shape, Concludes, Overdues, Held, Engaged
<1>3. ASSUME NEW j \in Jobs, BeginStale(p, j) \/ DelayedEnqueue(p, j) PROVE Shape
  BY <1>1, <1>3 DEF BeginStale, Read, DelayedEnqueue, storeVars
<1>4. ASSUME NEW j \in Jobs, Recover(p, j) PROVE Shape
  <2>1. /\ pod[p] = "recovering" /\ listed[p][j] # "ABSENT" /\ listed[p][j] \in Pending
    BY <1>4, FinalParts DEF Recover, Recovering, AllInv
  <2>2. \A w \in Workers : wjob[w] # j
    BY <2>1, NobodyElse DEF AllInv
  <2>3. CASE UNCHANGED storeVars
    BY <1>1, <2>3 DEF storeVars
  <2>4. CASE listed[p][j] # "RECEIVED" /\ Transition(j, listed[p][j], "RECEIVED")
    <3>1. /\ UNCHANGED created /\ row'[j].status = "RECEIVED"
          /\ row[j].status \in {"STAGE2_RUNNING", "STAGE3_RUNNING"}
          /\ \A k \in Jobs : k # j => row'[k] = row[k]
      BY <2>1, <2>4, PhaseParts DEF Transition, Row, Pending
    <3>2. At(j) = "running" /\ At(j)' = "waiting" /\ AllStillBut(j)
      BY <3>1 DEF At, PhaseOf, Failures, AllStillBut, Still
    <3> QED BY <1>0, <2>2, <3>1, <3>2 DEF Shape, Concludes, Engaged
  <2> QED BY <1>4, <2>3, <2>4 DEF Recover
<1> QED BY <1>2, <1>3, <1>4

LEMMA PodsShape ==
  ASSUME AllInv, NEW p \in Pods,
         Start(p) \/ Serve(p) \/ RecoveryFails(p) \/ Stop(p) \/ StopStep(p) \/ Crash(p)
  PROVE  Shape
<1>1. UNCHANGED <<row, created>>
  BY DEF Start, Recoverable, Serve, RecoveryFails, Stop, StopStep, PutPoison, StopEnds, Exit,
         Crash, storeVars
<1>2. \A w \in Workers : Engaged(w)' => Engaged(w) /\ wjob'[w] = wjob[w]
  BY FinalParts
  DEF Start, Recoverable, Serve, RecoveryFails, Stop, StopStep, PutPoison, StopEnds, Exit,
      Crash, IdleWorkers, NoWorkers, workerVars, Engaged, Owning, Settling, AllInv
<1> QED BY <1>1, <1>2, SameStore DEF Shape

\* The deployments and loads of ingest_core.
CoreConditions ==
  /\ OneProcess \/ NoneRestarts
  /\ QueueMax = 0 /\ NoCallTimesOut
  /\ Texts \subseteq {TRUE} /\ MaxClears = 0

LEMMA ShapeOfNext ==
  ASSUME AllInv, CoreConditions, [Next]_vars
  PROVE  Shape
<1>1. ASSUME NEW w \in Workers, WorkerStep(w) \/ Expire(w) \/ StoreFails(w) PROVE Shape
  BY <1>1, WorkersShape DEF WorkerMove, CoreConditions
<1>2. ASSUME NEW h \in Handlers, Request(h) \/ HandlerStep(h) PROVE Shape
  BY <1>2, HandlerShape DEF CoreConditions
<1>3. ASSUME \/ \E j \in Jobs : RetryDue(j)
             \/ \E u \in writes : LandOrphan(u)
             \/ \E t \in Tenants : Clear(t)
      PROVE  Shape
  BY <1>3, OutsideShape DEF CoreConditions
<1>4. ASSUME NEW p \in Pods,
             \/ EndStale(p)
             \/ \E j \in Jobs : Recover(p, j) \/ BeginStale(p, j) \/ DelayedEnqueue(p, j)
      PROVE  Shape
  BY <1>4, RecoveryShape DEF CoreConditions
<1>5. ASSUME NEW p \in Pods, Start(p) \/ Serve(p) \/ RecoveryFails(p)
                             \/ Stop(p) \/ StopStep(p) \/ Crash(p)
      PROVE  Shape
  BY <1>5, PodsShape
<1>6. CASE UNCHANGED vars
  BY <1>6, SameStore DEF vars, storeVars, workerVars, Engaged, Shape
<1> QED BY <1>1, <1>2, <1>3, <1>4, <1>5, <1>6 DEF Next, PodStep

-----------------------------------------------------------------------------
(* The invariant is kept.                                                  *)

LEMMA EngagedStays ==
  ASSUME AllInv, Shape
  PROVE  EngagedRuns'
<1>0. \A w \in Workers : Engaged(w) =>
        wjob[w] \in Jobs /\ Known(wjob[w]) /\ At(wjob[w]) = "running"
  BY PhaseParts DEF AllInv, PhaseInv, EngagedRuns
<1>1. SUFFICES ASSUME NEW w \in Workers, Engaged(w)', NEW j \in Jobs, j = wjob'[w]
               PROVE  At(j)' = "running"
  <2>1. \A w \in Workers : Engaged(w)' => wjob'[w] \in Jobs
    BY <1>0 DEF Shape, Lets, Submits, Claims, Concludes, Overdues, Held
  <2>2. \A w \in Workers : wjob'[w] \in Jobs => \E j \in Jobs : j = wjob'[w]
    OBVIOUS
  <2> QED BY <2>1, <2>2 DEF EngagedRuns, At
<1>2. CASE Engaged(w) /\ wjob[w] = j /\ Still(j)
  BY <1>0, <1>2 DEF Still
<1>3. CASE Lets
  BY <1>1, <1>2, <1>3 DEF Lets
<1>4. ASSUME NEW c \in Commits, Submits(c) PROVE At(j)' = "running"
  <2>1. Engaged(w) /\ wjob[w] = j /\ Known(j)
    BY <1>0, <1>1, <1>4 DEF Submits, Held
  <2>2. j # <<c, 1>>
    <3>1. ~Known(<<c, 1>>)
      BY <1>4 DEF Submits, Known
    <3> QED BY <2>1, <3>1
  <2> QED BY <1>2, <1>4, <2>1, <2>2 DEF Submits, AllStillBut
<1>5. ASSUME NEW v \in Workers, Claims(v) PROVE At(j)' = "running"
  <2>1. CASE v = w
    BY <1>1, <1>5, <2>1 DEF Claims, At
  <2>2. CASE v # w
    <3>1. Engaged(w) /\ wjob[w] = j /\ wjob[v] # j
      BY <1>0, <1>1, <1>5, <2>2 DEF Claims, Held
    <3> QED BY <1>2, <1>5, <3>1 DEF Claims, AllStillBut
  <2> QED BY <2>1, <2>2
<1>6. ASSUME NEW k \in Jobs, Concludes(k) \/ Overdues(k) PROVE At(j)' = "running"
  <2>1. Engaged(w) /\ wjob[w] = j /\ j # k
    BY <1>1, <1>6 DEF Concludes, Overdues, Held
  <2> QED BY <1>2, <1>6, <2>1 DEF Concludes, Overdues, AllStillBut
<1> QED BY <1>3, <1>4, <1>5, <1>6 DEF Shape

\* Where pods do not restart, or the only one is not ending, nothing is left behind.
LEMMA NoneEnding ==
  ASSUME IInv', OneProcess \/ NoneRestarts,
         NEW p \in Pods, NoneRestarts \/ pod'[p] # "exiting"
  PROVE  LeftOpen'
<1>1. \A u \in writes' : u.pod \in Pods
  BY DEF IInv, TypeInv, TypeOK, Write
<1>2. \A q \in Pods : pod'[q] # "exiting"
  BY DEF OneProcess, NoneRestarts, IInv, MemoryInv, NoRestart
<1> QED BY <1>1, <1>2 DEF LeftOpen, LeftBehind

\* Writes that land or are touched where no pod comes or goes.
LEMMA LeftStays ==
  ASSUME AllInv, UNCHANGED pod,
         \A u \in writes' : \E v \in writes :
           /\ u.live = v.live /\ u.pod = v.pod /\ u.job = v.job /\ u.op = v.op
           /\ Still(u.job)
  PROVE  LeftOpen'
<1>1. SUFFICES ASSUME NEW u \in writes', ~u.live, pod'[u.pod] = "exiting"
               PROVE  u.op \in UpdateOps /\ At(u.job)' = "running"
  BY DEF LeftOpen, LeftBehind
<1>2. PICK v \in writes : /\ u.live = v.live /\ u.pod = v.pod /\ u.job = v.job /\ u.op = v.op
                          /\ Still(u.job)
  OBVIOUS
<1>3. v.op \in UpdateOps /\ At(v.job) = "running"
  BY <1>1, <1>2 DEF AllInv, PhaseInv, LeftOpen, LeftBehind
<1> QED BY <1>2, <1>3 DEF Still

LEMMA LeftWorker ==
  ASSUME AllInv, IInv', OneProcess \/ NoneRestarts, NEW w \in Workers, WorkerMove(w)
  PROVE  LeftOpen'
<1>1. w[1] \in Pods /\ wpc[w] # "exited" /\ UNCHANGED pod
  BY WorkerAlone, FinalParts DEF AllInv, IInv
<1>2. pod'[w[1]] # "exiting"
  BY <1>1 DEF AllInv, IInv, MemoryInv, Gone
<1> QED BY <1>1, <1>2, NoneEnding

LEMMA LeftHandler ==
  ASSUME AllInv, IInv', OneProcess \/ NoneRestarts, NEW h \in Handlers,
         Request(h) \/ HandlerStep(h)
  PROVE  LeftOpen'
<1>1. UNCHANGED pod
  BY DEF Request, HandlerStep, Submit, Execute, Accept, BeginRefusal, EndRefusal,
         SkipRefusal, podVars
<1>2. \E p \in Pods : pod[p] = "up"
  <2>1. CASE Request(h)
    BY <2>1 DEF Request, Submit, Execute
  <2>2. CASE HandlerStep(h)
    <3>1. hpc[h] # "idle"
      BY <2>2 DEF HandlerStep, Accept, BeginRefusal, EndRefusal, SkipRefusal
    <3>2. hpod[h] \in Pods
      BY AttendParts DEF AllInv
    <3> QED BY <3>1, <3>2 DEF AllInv, IInv, MemoryInv, Served
  <2> QED BY <2>1, <2>2
<1> QED BY <1>1, <1>2, NoneEnding

LEMMA LeftOutside ==
  ASSUME AllInv, OneProcess \/ NoneRestarts, MaxClears = 0,
         \/ \E j \in Jobs : RetryDue(j)
         \/ \E u \in writes : LandOrphan(u)
         \/ \E t \in Tenants : Clear(t)
  PROVE  LeftOpen'
<1>1. ASSUME NEW j \in Jobs, RetryDue(j) PROVE LeftOpen'
  <2>1. UNCHANGED pod /\ \A k \in Jobs : Still(k)
    BY <1>1, PhaseParts DEF RetryDue, Row, podVars, Still, At
  <2>2. ASSUME NEW u \in writes' PROVE \E v \in writes :
          /\ u.live = v.live /\ u.pod = v.pod /\ u.job = v.job /\ u.op = v.op
          /\ Still(u.job)
    <3>1. PICK v \in writes : u = IF v.job = j /\ v.row.retry = "future"
                                 THEN [v EXCEPT !.row.retry = "due"] ELSE v
      BY <1>1 DEF RetryDue
    <3>2. v \in Write /\ v.job \in Jobs
      BY FinalParts DEF AllInv
    <3>3. u.live = v.live /\ u.pod = v.pod /\ u.job = v.job /\ u.op = v.op
      BY <3>1, <3>2 DEF Write
    <3> QED BY <2>1, <3>2, <3>3
  <2> QED BY <2>1, <2>2, LeftStays
<1>2. ASSUME NEW u \in writes, LandOrphan(u) PROVE LeftOpen'
  <2>1. UNCHANGED pod /\ writes' = writes \ {u} /\ Land(u)
    BY <1>2 DEF LandOrphan, Land, podVars
  <2>2. \A v \in writes' : v \in writes /\ v.job \in Jobs /\ v.job # u.job
    BY <2>1, FinalParts DEF AllInv, FinalInv, WritesFit
  <2>3. \A v \in writes' : Still(v.job)
    BY <2>1, <2>2, LandPhase DEF AllStillBut
  <2> QED BY <2>1, <2>2, <2>3, LeftStays
<1>3. ASSUME NEW t \in Tenants, Clear(t) PROVE FALSE
  BY <1>3, BoundAssumption DEF Clear, AllInv, IInv, TypeInv, TypeOK
<1> QED BY <1>1, <1>2, <1>3

\* What a process leaves when it ends is what its workers were waiting for.
LEMMA LeftByStop ==
  ASSUME AllInv, OneProcess \/ NoneRestarts, NEW p \in Pods, StopEnds(p)
  PROVE  LeftOpen'
<1>1. pod[p] = "stopping" /\ row' = row
  BY DEF StopEnds
<1>2. \A q \in Pods : q = p
  BY <1>1 DEF OneProcess, NoneRestarts, AllInv, IInv, MemoryInv, NoRestart
<1>3. ASSUME NEW v \in writes PROVE v.op \in UpdateOps /\ At(v.job) = "running"
  <2>1. v.pod = p
    BY <1>2, FinalParts DEF AllInv
  <2>2. AwaitedByWorker(v)
    BY <1>1, <2>1 DEF AllInv, FinalInv, WritesFit, Owned, AwaitedByRecovery, LeftBehind
  <2>3. v.op \in UpdateOps /\ v.op # "stale"
    BY <2>2 DEF AwaitedByWorker, UpdateOps
  <2> QED BY <2>3, OpenWrites
<1>4. \A u \in writes' : \E v \in writes : u.op = v.op /\ u.job = v.job
  BY FinalParts DEF StopEnds, Write, AllInv
<1>5. \A j : At(j)' = At(j)
  BY <1>1 DEF At
<1> QED BY <1>3, <1>4, <1>5 DEF LeftOpen

LEMMA LeftPods ==
  ASSUME AllInv, IInv', OneProcess \/ NoneRestarts, NEW p \in Pods,
         \/ PodStep(p) \/ StopStep(p) \/ Stop(p) \/ Crash(p) \/ RecoveryFails(p)
         \/ \E j \in Jobs : BeginStale(p, j)
  PROVE  LeftOpen'
<1>0. pod \in [Pods -> {"down", "recovering", "up", "stopping", "exiting"}]
  BY DEF AllInv, IInv, TypeInv, TypeOK
<1>1. CASE StopEnds(p)
  BY <1>1, LeftByStop
<1>2. CASE EndStale(p)
  <2>1. PICK u \in AwaitedBy(<<"recovery", p>>) : Land(u)
    BY <1>2 DEF EndStale
  <2>2. pod'[p] = "recovering"
    BY <1>2, <2>1, RecoveryWrites DEF EndStale, AwaitedByRecovery, AllInv, FinalInv
  <2> QED BY <2>2, NoneEnding
<1>3. CASE \/ Start(p) \/ Serve(p) \/ Stop(p) \/ PutPoison(p) \/ Exit(p) \/ Crash(p)
           \/ RecoveryFails(p) \/ \E j \in Jobs : BeginStale(p, j) \/ Recover(p, j)
                                                  \/ DelayedEnqueue(p, j)
  <2>1. pod'[p] # "exiting"
    BY <1>0, <1>3
    DEF Start, Serve, Stop, PutPoison, Exit, Crash, RecoveryFails, BeginStale, Recover,
        DelayedEnqueue, Recovering, Enqueues, podVars
  <2> QED BY <2>1, NoneEnding
<1> QED BY <1>1, <1>2, <1>3 DEF PodStep, StopStep

LEMMA LeftStep ==
  ASSUME AllInv, IInv', CoreConditions, [Next]_vars
  PROVE  LeftOpen'
<1>1. CASE UNCHANGED vars
  BY <1>1 DEF AllInv, PhaseInv, LeftOpen, LeftBehind, At, vars, storeVars, podVars
<1> QED BY <1>1, LeftWorker, LeftHandler, LeftOutside, LeftPods
    DEF Next, WorkerMove, CoreConditions

LEMMA CopiesKept ==
  ASSUME AllInv,
         \A u \in writes' : \E v \in writes : u.op = v.op /\ u.row.status = v.row.status
  PROVE  CopiesRun'
  BY DEF AllInv, PhaseInv, CopiesRun

LEMMA CopiesRead ==
  ASSUME AllInv, NEW by, NEW p, NEW j \in Jobs, NEW op, Read(by, p, j, op),
         op \in Midway => At(j) = "running"
  PROVE  CopiesRun'
<1>1. SUFFICES ASSUME NEW u \in writes', u \notin writes, u.op \in Midway
               PROVE  PhaseOf(u.row.status) = "running"
  BY DEF AllInv, PhaseInv, CopiesRun
<1>2. u.op = op /\ u.row = Patched(row[j], op)
  BY <1>1 DEF Read
<1>3. row[j] \in Row /\ PhaseOf(row[j].status) = "running"
  BY <1>1, <1>2, PhaseParts DEF At
<1>4. Patched(row[j], op).status \in {row[j].status, "STAGE3_RUNNING"}
  BY <1>1, <1>2, <1>3 DEF Patched, Midway, Row
<1>5. PhaseOf("STAGE3_RUNNING") = "running"
  BY DEF PhaseOf, Failures
<1> QED BY <1>2, <1>3, <1>4, <1>5

LEMMA CopiesStep ==
  ASSUME AllInv, CoreConditions, [Next]_vars
  PROVE  CopiesRun'
<1>0. \A u \in writes : u \in Write
  BY FinalParts DEF AllInv
<1>1. CASE writes' \subseteq writes
  BY <1>1, CopiesKept
<1>2. ASSUME NEW u \in writes, Land(u) PROVE CopiesRun'
  BY <1>1, <1>2 DEF Land
<1>3. ASSUME NEW w \in Workers, WorkerStep(w) \/ Expire(w) \/ StoreFails(w)
      PROVE  CopiesRun'
  <2>1. CASE Claimless(w) \/ Claim(w) \/ StoreFails(w)
    BY <1>1, <2>1, ClaimlessEffect
    DEF AllInv, IInv, Claim, Transition, StoreFails, storeVars
  <2>2. CASE BeginUpdate(w)
    <3>1. wjob[w] \in Jobs /\ Engaged(w)
      BY <2>2, FinalParts DEF BeginUpdate, UpdateOps, Engaged, Owning, Settling, AllInv
    <3> QED BY <2>2, <3>1, CopiesRead DEF BeginUpdate, AllInv, PhaseInv, EngagedRuns
  <2>3. CASE EndUpdate(w)
    BY <1>2, <2>3 DEF EndUpdate, AwaitedBy
  <2>4. CASE Expire(w)
    <3>1. \A u \in writes' : \E v \in writes : u.op = v.op /\ u.row.status = v.row.status
      BY <1>0, <2>4 DEF Expire, Orphaned, Write
    <3> QED BY <3>1, CopiesKept
  <2> QED BY <1>3, <2>1, <2>2, <2>3, <2>4 DEF WorkerStep, Claimless
<1>4. ASSUME NEW h \in Handlers, Request(h) \/ HandlerStep(h) PROVE CopiesRun'
  <2>1. ~BeginRefusal(h) /\ ~SkipRefusal(h)
    BY DEF BeginRefusal, SkipRefusal, Room, CoreConditions
  <2>2. ~EndRefusal(h)
    BY NoHandlerWrites DEF EndRefusal, FinalInv, AllInv
  <2>3. writes' = writes
    BY <1>4, <2>1, <2>2
    DEF Request, HandlerStep, Submit, Execute, Accept, Create, storeVars
  <2> QED BY <1>1, <2>3
<1>5. ASSUME NEW j \in Jobs, RetryDue(j) PROVE CopiesRun'
  <2>1. ASSUME NEW u \in writes' PROVE \E v \in writes :
          u.op = v.op /\ u.row.status = v.row.status
    <3>1. PICK v \in writes : u = IF v.job = j /\ v.row.retry = "future"
                                 THEN [v EXCEPT !.row.retry = "due"] ELSE v
      BY <1>5 DEF RetryDue
    <3> QED BY <1>0, <3>1 DEF Write, Row
  <2> QED BY <2>1, CopiesKept
<1>6. ASSUME NEW t \in Tenants, Clear(t) PROVE CopiesRun'
  BY <1>1, <1>6 DEF Clear, ClearTenant
<1>7. ASSUME NEW p \in Pods,
             \/ PodStep(p) \/ StopStep(p) \/ Stop(p) \/ Crash(p) \/ RecoveryFails(p)
             \/ \E j \in Jobs : BeginStale(p, j)
      PROVE  CopiesRun'
  <2>1. CASE EndStale(p)
    BY <1>2, <2>1 DEF EndStale, AwaitedBy
  <2>2. ASSUME NEW j \in Jobs, BeginStale(p, j) PROVE CopiesRun'
    BY <2>2, CopiesRead DEF BeginStale, Midway
  <2>3. CASE StopEnds(p)
    <3>1. \A u \in writes' : \E v \in writes : u.op = v.op /\ u.row.status = v.row.status
      BY <1>0, <2>3 DEF StopEnds, Write
    <3> QED BY <3>1, CopiesKept
  <2>4. CASE \/ Start(p) \/ Serve(p) \/ Stop(p) \/ PutPoison(p) \/ Exit(p) \/ Crash(p)
             \/ RecoveryFails(p) \/ \E j \in Jobs : Recover(p, j) \/ DelayedEnqueue(p, j)
    <3>1. writes' \subseteq writes
      BY <2>4 DEF Start, Serve, Stop, PutPoison, Exit, Crash, RecoveryFails, Recover,
                  DelayedEnqueue, Transition, storeVars
    <3> QED BY <1>1, <3>1
  <2> QED BY <1>7, <2>1, <2>2, <2>3, <2>4 DEF PodStep, StopStep
<1>8. CASE UNCHANGED vars
  BY <1>1, <1>8 DEF vars, storeVars
<1> QED BY <1>2, <1>3, <1>4, <1>5, <1>6, <1>7, <1>8 DEF Next, LandOrphan

LEMMA PhaseStep ==
  ASSUME AllInv, IInv', CoreConditions, [Next]_vars
  PROVE  PhaseInv'
<1>1. EngagedRuns'
  BY ShapeOfNext, EngagedStays
<1>2. LeftOpen'
  BY LeftStep
<1>3. CopiesRun'
  BY CopiesStep
<1> QED BY <1>1, <1>2, <1>3 DEF PhaseInv
LEMMA PhaseInitially == ASSUME PipelineInit PROVE PhaseInv
<1>1. writes = {} /\ \A w \in Workers : wpc[w] \in {"idle", "exited"}
  BY DEF PipelineInit, StoreInit
<1> QED BY <1>1 DEF PhaseInv, EngagedRuns, LeftOpen, CopiesRun, Engaged, Owning, Settling

-----------------------------------------------------------------------------
(* Each shape is a step of the promise.                                    *)

LEMMA PhaseIs ==
  ASSUME AllInv, NEW c \in Commits
  PROVE  CommitPhase[c] = IF created[c] = 0 THEN "none" ELSE At(<<c, 1>>)
<1>1. created[c] \in {0, 1} /\ (created[c] = 1 => index[c] = 1)
  BY DEF AllInv, TextInv, OneOfEach
<1>2. CommitPhase[c] = IF index[c] = 0 THEN "none" ELSE At(<<c, index[c]>>)
  BY DEF CommitPhase, At
<1>3. CASE created[c] = 1
  <2>1. index[c] = 1 /\ <<c, index[c]>> = <<c, 1>>
    BY <1>1, <1>3
  <2>2. At(<<c, index[c]>>) = At(<<c, 1>>)
    BY <2>1 DEF At
  <2> QED BY <1>2, <1>3, <2>1, <2>2
<1>4. CASE created[c] = 0
  <2>1. SUFFICES ASSUME index[c] # 0 PROVE At(<<c, index[c]>>) = "none"
    BY <1>2, <1>4
  <2>2. PICK j : j = <<c, index[c]>>
    OBVIOUS
  <2>3. j \in Jobs /\ j[1] = c /\ j[2] = index[c] /\ index[c] \in 1 .. MaxGen
    BY <2>1, <2>2, PhaseParts DEF Jobs
  <2>4. ~Known(j)
    BY <1>4, <2>3, PhaseParts DEF Known
  <2>5. At(j) = "none"
    BY <2>3, <2>4, PhaseParts, PhaseFacts DEF At, Present
  <2> QED BY <2>2, <2>5
<1> QED BY <1>1, <1>3, <1>4

LEMMA RunIs ==
  /\ CommitRuns = {<<w, wjob[w][1]>> : w \in {v \in Workers : Engaged(v)}}
  /\ \A w \in Workers : Engaged(w) => <<w, wjob[w][1]>> \in CommitRuns
  /\ \A run \in CommitRuns : \E w \in Workers : Engaged(w) /\ run = <<w, wjob[w][1]>>
  BY DEF CommitRuns, Engaged

\* The commit a worker is engaged on is the one of its job, and of no other.
LEMMA RunOfJob ==
  ASSUME AllInv, NEW w \in Workers, Engaged(w)
  PROVE  wjob[w] = <<wjob[w][1], 1>> /\ wjob[w] \in Jobs /\ wjob[w][1] \in Commits
         /\ created[wjob[w][1]] # 0
  BY PhaseParts DEF Jobs, Known

LEMMA SameRuns ==
  ASSUME \A w \in Workers : Held(w)
  PROVE  CommitRuns' = CommitRuns
<1>1. /\ CommitRuns = {<<w, wjob[w][1]>> : w \in {v \in Workers : Engaged(v)}}
      /\ CommitRuns' = {<<w, wjob'[w][1]>> : w \in {v \in Workers : Engaged(v)'}}
  BY DEF CommitRuns, Engaged
<1> QED BY <1>1 DEF Held

PhasesAre == \A c \in Commits :
  CommitPhase[c] = IF created[c] = 0 THEN "none" ELSE At(<<c, 1>>)

LEMMA PhaseMap == AllInv => PhasesAre
  BY PhaseIs DEF PhasesAre

LEMMA JobOf ==
  ASSUME AllInv, NEW c \in Commits, created[c] # 0
  PROVE  <<c, 1>> \in Jobs /\ Known(<<c, 1>>)
<1>1. created[c] = 1 /\ created[c] \in 0 .. MaxGen
  BY PhaseParts DEF AllInv, TextInv, OneOfEach
<1>2. 1 \in 1 .. MaxGen
  BY <1>1, PhaseParts
<1> QED BY <1>1, <1>2 DEF Jobs, Known

\* What the phases of commits are after a step that touches the job of one.
LEMMA PhasesAfter ==
  ASSUME AllInv, PhasesAre', NEW c \in Commits,
         created' = created \/ created' = [created EXCEPT ![c] = 1],
         AllStillBut(<<c, 1>>)
  PROVE  /\ \A d \in Commits : d # c => CommitPhase'[d] = CommitPhase[d]
         /\ created'[c] # 0 => CommitPhase' = [CommitPhase EXCEPT ![c] = At(<<c, 1>>)']
<1>1. ASSUME NEW d \in Commits, d # c PROVE CommitPhase'[d] = CommitPhase[d]
  <2>1. created'[d] = created[d]
    BY <1>1, PhaseParts
  <2>2. created[d] # 0 => Still(<<d, 1>>)
    BY <1>1, JobOf DEF AllStillBut
  <2> QED BY <2>1, <2>2, PhaseIs DEF PhasesAre, Still
<1>2. created'[c] # 0 => CommitPhase'[c] = At(<<c, 1>>)'
  BY DEF PhasesAre
<1>3. CommitPhase' = [d \in Commits |-> CommitPhase'[d]]
  BY DEF CommitPhase
<1>4. CommitPhase = [d \in Commits |-> CommitPhase[d]]
  BY DEF CommitPhase
<1> QED BY <1>1, <1>2, <1>3, <1>4

LEMMA LetsImplements ==
  ASSUME AllInv, PhasesAre', Lets
  PROVE  Promise!CommitsNext
<1>1. \A c \in Commits : CommitPhase'[c] = CommitPhase[c]
  BY PhaseIs, JobOf DEF Lets, PhasesAre, Still
<1>2. CommitPhase' = CommitPhase
  BY <1>1 DEF CommitPhase
<1>3. CommitRuns' \subseteq CommitRuns
  <2>1. /\ CommitRuns = {<<w, wjob[w][1]>> : w \in {v \in Workers : Engaged(v)}}
        /\ CommitRuns' = {<<w, wjob'[w][1]>> : w \in {v \in Workers : Engaged(v)'}}
    BY DEF CommitRuns, Engaged
  <2> QED BY <2>1 DEF Lets
<1>4. PICK lost : lost = CommitRuns \ CommitRuns'
  OBVIOUS
<1>5. lost \in SUBSET CommitRuns /\ CommitRuns' = CommitRuns \ lost
  BY <1>3, <1>4
<1>6. Promise!Abandon(lost)
  BY <1>2, <1>5 DEF Promise!Abandon
<1> QED BY <1>5, <1>6 DEF Promise!CommitsNext

LEMMA SubmitImplements ==
  ASSUME AllInv, PhasesAre', NEW c \in Commits, Submits(c)
  PROVE  Promise!CommitsNext
<1>1. CommitPhase[c] = "none" /\ created'[c] # 0
  BY PhaseIs, PhaseParts DEF Submits
<1>2. CommitPhase' = [CommitPhase EXCEPT ![c] = "waiting"]
  BY <1>1, PhasesAfter DEF Submits
<1>3. CommitRuns' = CommitRuns
  BY SameRuns DEF Submits
<1>4. Promise!Submit(c)
  BY <1>1, <1>2, <1>3 DEF Promise!Submit
<1> QED BY <1>4 DEF Promise!CommitsNext

\* A job of a worker or a phase is the first of its commit.
LEMMA FirstJob ==
  ASSUME AllInv, NEW j \in Jobs, At(j) # "none"
  PROVE  /\ j = <<j[1], 1>> /\ j[1] \in Commits /\ created[j[1]] # 0
         /\ CommitPhase[j[1]] = At(j)
<1>1. Present(j)
  BY PhaseParts, PhaseFacts DEF At, Present
<1>2. j = <<j[1], 1>> /\ Known(j) /\ j[1] \in Commits
  BY <1>1, PhaseParts DEF Jobs
<1>3. created[j[1]] # 0
  <2>1. j[2] = 1 /\ created[j[1]] \in Nat
    BY <1>2, PhaseParts
  <2> QED BY <1>2, <2>1 DEF Known
<1> QED BY <1>2, <1>3, PhaseIs

LEMMA ClaimImplements ==
  ASSUME AllInv, PhasesAre', NEW w \in Workers, Claims(w)
  PROVE  Promise!CommitsNext
<1>1. PICK j \in Jobs : j = wjob[w] /\ j = wjob'[w]
  BY DEF Claims
<1>2. At(j) = "waiting" /\ At(j)' = "running" /\ AllStillBut(j)
  BY <1>1 DEF Claims, At
<1>3. PICK c \in Commits : c = j[1] /\ j = <<c, 1>> /\ created[c] # 0 /\ CommitPhase[c] = At(j)
  BY <1>2, FirstJob
<1>4. CommitPhase' = [CommitPhase EXCEPT ![c] = "running"]
  <2>1. AllStillBut(<<c, 1>>) /\ created' = created
    BY <1>2, <1>3 DEF Claims
  <2>2. CommitPhase' = [CommitPhase EXCEPT ![c] = At(<<c, 1>>)']
    BY <1>3, <2>1, PhasesAfter
  <2>3. At(<<c, 1>>)' = "running"
    BY <1>2, <1>3
  <2> QED BY <2>2, <2>3
<1>5. \A run \in CommitRuns : run[1] # w /\ run[2] # c
  <2>1. ASSUME NEW v \in Workers, Engaged(v) PROVE v # w /\ wjob[v][1] # c
    <3>1. v # w
      BY <2>1 DEF Claims
    <3>2. wjob[v] = <<wjob[v][1], 1>>
      BY <2>1, RunOfJob
    <3>3. wjob[v] # j
      BY <1>2, <2>1 DEF AllInv, PhaseInv, EngagedRuns
    <3> QED BY <1>3, <3>1, <3>2, <3>3
  <2> QED BY <2>1, RunIs
<1>6. CommitRuns' = CommitRuns \cup {<<w, c>>}
  <2>1. /\ CommitRuns = {<<v, wjob[v][1]>> : v \in {x \in Workers : Engaged(x)}}
        /\ CommitRuns' = {<<v, wjob'[v][1]>> : v \in {x \in Workers : Engaged(x)'}}
    BY DEF CommitRuns, Engaged
  <2>2. Engaged(w)' /\ wjob'[w][1] = c /\ \A v \in Workers : v # w => Held(v)
    BY <1>1, <1>3 DEF Claims
  <2>3. ~Engaged(w)
    BY DEF Claims
  <2> QED BY <2>1, <2>2, <2>3 DEF Held
<1>7. Promise!RunsOf(c) = {}
  BY <1>5 DEF Promise!RunsOf
<1>8. Promise!Claim(w, c)
  BY <1>2, <1>3, <1>4, <1>5, <1>6, <1>7 DEF Promise!Claim
<1> QED BY <1>8 DEF Promise!CommitsNext

LEMMA ConcludeImplements ==
  ASSUME AllInv, PhasesAre', NEW j \in Jobs, Concludes(j)
  PROVE  Promise!CommitsNext
<1>1. PICK c \in Commits : c = j[1] /\ j = <<c, 1>> /\ created[c] # 0 /\ CommitPhase[c] = At(j)
  BY FirstJob DEF Concludes
<1>2. PICK outcome : outcome = At(j)'
  OBVIOUS
<1>3. CommitPhase' = [CommitPhase EXCEPT ![c] = outcome]
  <2>1. AllStillBut(<<c, 1>>) /\ created' = created
    BY <1>1 DEF Concludes
  <2>2. CommitPhase' = [CommitPhase EXCEPT ![c] = At(<<c, 1>>)']
    BY <1>1, <2>1, PhasesAfter
  <2> QED BY <1>1, <1>2, <2>2
<1>4. CommitRuns' = CommitRuns \ Promise!RunsOf(c)
  <2>1. /\ CommitRuns = {<<v, wjob[v][1]>> : v \in {x \in Workers : Engaged(x)}}
        /\ CommitRuns' = {<<v, wjob'[v][1]>> : v \in {x \in Workers : Engaged(x)'}}
    BY DEF CommitRuns, Engaged
  <2>2. \A v \in Workers : Engaged(v) => (wjob[v] = j <=> wjob[v][1] = c)
    BY <1>1, RunOfJob
  <2>3. \A v \in Workers : Engaged(v)' <=> Engaged(v) /\ wjob[v][1] # c
    BY <2>2 DEF Concludes
  <2>4. \A v \in Workers : Engaged(v)' => wjob'[v] = wjob[v]
    BY DEF Concludes
  <2> QED BY <2>1, <2>3, <2>4 DEF Promise!RunsOf
<1>5. Promise!Conclude(c)
  BY <1>1, <1>2, <1>3, <1>4 DEF Promise!Conclude, Concludes
<1> QED BY <1>5 DEF Promise!CommitsNext

LEMMA OverdueImplements ==
  ASSUME AllInv, PhasesAre', NEW j \in Jobs, Overdues(j)
  PROVE  Promise!CommitsNext
<1>1. PICK c \in Commits : c = j[1] /\ j = <<c, 1>> /\ created[c] # 0 /\ CommitPhase[c] = At(j)
  BY FirstJob DEF Overdues
<1>2. CommitPhase' = [CommitPhase EXCEPT ![c] = "failed"]
  <2>1. AllStillBut(<<c, 1>>) /\ created' = created /\ At(<<c, 1>>)' = "failed"
    BY <1>1 DEF Overdues
  <2> QED BY <1>1, <2>1, PhasesAfter
<1>3. CommitRuns' = CommitRuns
  BY SameRuns DEF Overdues
<1>4. Promise!RunsOf(c) = {}
  <2>1. ASSUME NEW v \in Workers, Engaged(v) PROVE wjob[v][1] # c
    BY <1>1, <2>1, RunOfJob DEF Overdues
  <2> QED BY <2>1, RunIs DEF Promise!RunsOf
<1>5. Promise!Overdue(c)
  BY <1>1, <1>2, <1>3, <1>4 DEF Promise!Overdue, Overdues
<1> QED BY <1>5 DEF Promise!CommitsNext

LEMMA ShapeImplements ==
  ASSUME AllInv, PhasesAre', Shape
  PROVE  Promise!CommitsNext
  BY LetsImplements, SubmitImplements, ClaimImplements, ConcludeImplements, OverdueImplements
  DEF Shape

LEMMA PromiseInitially == ASSUME PipelineInit PROVE Promise!CommitsInit
<1>1. CommitPhase = [c \in Commits |-> "none"]
  BY DEF PipelineInit, StoreInit, CommitPhase
<1>2. CommitRuns = {}
  BY DEF PipelineInit, CommitRuns, Owning, Settling
<1> QED BY <1>1, <1>2 DEF Promise!CommitsInit

\* The pipeline implements IngestCommits where CommitRunsOnce and
\* CompletedIsFinal hold: from its submission on, a commit is waiting, in the
\* hands of one worker, or at an end it never leaves, whatever times out, fails,
\* stops, crashes and is recovered.
THEOREM PromiseIsKept ==
  ASSUME OneProcess \/ NoneRestarts, QueueMax = 0, NoCallTimesOut,
         Texts \subseteq {TRUE}, MaxClears = 0
  PROVE  Spec => ImplementsCommits
<1>0. CoreConditions
  BY DEF CoreConditions
<1>1. PipelineInit => TextInv /\ FinalInv /\ PhaseInv /\ Promise!CommitsInit
  BY FinalInitially, PhaseInitially, PromiseInitially
  DEF PipelineInit, StoreInit, TextInv, OneOfEach
<1>2. AllInv /\ IInv' /\ [Next]_vars => TextInv' /\ FinalInv' /\ PhaseInv'
  BY <1>0, TextStep, FinalStep, PhaseStep DEF AllInv, IInv, ClaimInv, CoreConditions
<1>3. AllInv /\ PhasesAre' /\ [Next]_vars => Promise!CommitsNext
  BY <1>0, ShapeOfNext, ShapeImplements
<1> QED BY <1>1, <1>2, <1>3, PhaseMap, RunnerInvariant, PTL
    DEF Spec, AllInv, ImplementsCommits, Promise!CommitsSpec
=============================================================================
