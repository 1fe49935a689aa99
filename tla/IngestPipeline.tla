------------------------- MODULE IngestPipeline -------------------------
(***************************************************************************)
(* The ingest pipeline: the HTTP handlers that create jobs, the executor   *)
(* (IngestExecutor) that queues and runs them, and the runner              *)
(* (_run_ingest_job) that takes a job through stage 2 and stage 3, over    *)
(* the job store of IngestJobStore.                                        *)
(*                                                                         *)
(* A pod is one server process: its event loop owns the queue, the         *)
(* delayed tasks, the workers and the semaphores, and interleaves its      *)
(* coroutines only where they await.  The store is shared by all pods and  *)
(* survives their crashes.  session_write is one step with its possible    *)
(* outcomes here.                                                          *)
(***************************************************************************)
EXTENDS IngestJobStore, Sequences

CONSTANTS
  Pods,           \* server processes over one store
  InitiallyUp,    \* pods that are serving in the initial state
  WorkerCount, QueueMax, GlobalLimit, TenantLimit, MaxRetries,
  Stage2Modes,    \* subset of {"off", "llm", "missing"}: client_meta and env
  TimeoutPoints,  \* where job_timeout_s may expire
  Handlers,       \* requests that can be in progress at the same time
  Texts,          \* whether the submitted turns may carry text, or none
  MaxRequests, MaxStarts, MaxTimeouts, MaxFaults, MaxClears  \* bounds

UpdateOps == {"stage2", "marks", "stage3", "complete", "reject", "fail2",
              "fail3", "retry", "giveup"}

\* Where a worker is, from the claim of a job to its last store call.
Owning == {"stage2", "prepare", "extract", "marks", "stage3", "session",
           "complete", "reject", "fail2", "fail3"}
Settling == {"expired", "retry", "giveup"}      \* _handle_timeout
Inside == {"load", "claim"} \cup Owning \cup Settling
WorkerPc == {"idle", "fetch", "global", "tenant", "exited"} \cup Inside

ASSUME PipelineAssumption ==
  /\ InitiallyUp \subseteq Pods
  /\ WorkerCount \in Nat \ {0}
  /\ GlobalLimit \in Nat \ {0}
  /\ TenantLimit \in Nat \ {0}
  /\ QueueMax \in Nat          \* 0: unbounded
  /\ MaxRetries \in Nat
  /\ Stage2Modes \subseteq {"off", "llm", "missing"}
  /\ Texts \subseteq BOOLEAN
  \* A worker's first two store calls are over long before job_timeout_s.
  /\ TimeoutPoints \subseteq Owning

ASSUME BoundAssumption ==
  /\ MaxRequests \in Nat /\ MaxStarts \in Nat /\ MaxTimeouts \in Nat
  /\ MaxFaults \in Nat /\ MaxClears \in Nat

Workers == Pods \X (1 .. WorkerCount)
Poison == << >>                \* the None that stop() puts for each worker

VARIABLES
  pod,        \* "down", "recovering", "up", "stopping" or "exiting"
  listed,     \* per pod: job -> status it had when recovery listed it
  poisons,    \* per pod: how many None stop() still has to put
  queue,      \* per pod: the asyncio.Queue
  delayed,    \* per pod: job -> pending _delayed_enqueue tasks
  wpc, wjob, wmarks,   \* workers: where, on which job, record had marks
  hpc, hpod, hjob,     \* handlers: where, in which pod, on which job
  accepted,   \* history: jobs a 202 (or the 200 of execute) was sent for
  used        \* how much of each bound is used up

podVars     == <<pod, listed, poisons>>
queueVars   == <<queue, delayed>>
workerVars  == <<wpc, wjob, wmarks>>
handlerVars == <<hpc, hpod, hjob>>
history     == <<accepted, used>>
vars == <<storeVars, podVars, queueVars, workerVars, handlerVars, history>>

PipelineInit ==
  /\ StoreInit
  /\ pod = [p \in Pods |-> IF p \in InitiallyUp THEN "up" ELSE "down"]
  /\ listed = [p \in Pods |-> [j \in Jobs |-> "ABSENT"]]
  /\ poisons = [p \in Pods |-> 0]
  /\ queue = [p \in Pods |-> << >>]
  /\ delayed = [p \in Pods |-> [j \in Jobs |-> 0]]
  /\ wpc = [w \in Workers |-> IF w[1] \in InitiallyUp THEN "idle" ELSE "exited"]
  /\ wjob = [w \in Workers |-> NoJob]
  /\ wmarks = [w \in Workers |-> FALSE]
  /\ hpc = [h \in Handlers |-> "idle"]
  /\ hpod \in [Handlers -> Pods]
  /\ hjob = [h \in Handlers |-> NoJob]
  /\ accepted = {}
  /\ used = [requests |-> 0, starts |-> 0, timeouts |-> 0, faults |-> 0, clears |-> 0]

-----------------------------------------------------------------------------
(* IngestExecutor.enqueue                                                  *)

MutantRoom(p) == Len(queue[p]) < QueueMax      \* 0 taken for a size

Room(p) == QueueMax = 0 \/ Len(queue[p]) < QueueMax

Enqueues(p) == pod[p] \in {"recovering", "up"}   \* workers and not stopping

\* enqueue(delay_s=0) where the caller ignores the result: a full queue loses
\* the job.
Offer(p, j) ==
  queue' = IF Room(p) THEN [queue EXCEPT ![p] = Append(@, j)] ELSE queue

Delay(p, j) ==
  delayed' = IF Enqueues(p) THEN [delayed EXCEPT ![p][j] = @ + 1] ELSE delayed

\* _delayed_enqueue wakes up: its sleep ends no earlier than next_retry_at.
DelayedEnqueue(p, j) ==
  /\ Enqueues(p)
  /\ delayed[p][j] > 0
  /\ row[j].retry # "future"
  /\ delayed' = [delayed EXCEPT ![p][j] = @ - 1]
  /\ Offer(p, j)
  /\ UNCHANGED <<storeVars, podVars, workerVars, handlerVars, history>>

\* next_retry_at passes, in the row and in the copies of it still to be written.
RetryDue(j) ==
  /\ row[j].retry = "future"
  /\ row' = [row EXCEPT ![j].retry = "due"]
  /\ writes' = {IF w.job = j /\ w.row.retry = "future"
                THEN [w EXCEPT !.row.retry = "due"] ELSE w : w \in writes}
  /\ UNCHANGED <<index, created, session, podVars, queueVars, workerVars,
                 handlerVars, history>>

-----------------------------------------------------------------------------
(* IngestExecutor._worker_loop and _execute_one                            *)

Holding(p, pcs) == Cardinality({w \in Workers : w[1] = p /\ wpc[w] \in pcs})

Goto(w, pc) == wpc' = [wpc EXCEPT ![w] = pc]

\* Back to the loop, whose condition is checked before the next get().
Finish(w) ==
  /\ Goto(w, IF pod[w[1]] = "stopping" THEN "exited" ELSE "idle")
  /\ wjob' = [wjob EXCEPT ![w] = NoJob]

Get(w) ==
  /\ wpc[w] = "idle"
  /\ queue[w[1]] # << >>
  /\ queue' = [queue EXCEPT ![w[1]] = Tail(@)]
  /\ IF Head(queue[w[1]]) = Poison
     THEN Goto(w, "exited") /\ UNCHANGED wjob
     ELSE Goto(w, "fetch") /\ wjob' = [wjob EXCEPT ![w] = Head(queue[w[1]])]
  /\ UNCHANGED <<storeVars, podVars, delayed, wmarks, handlerVars, history>>

\* get_job, then back to sleep if the job's retry is not due yet.
Fetch(w) ==
  LET j == wjob[w] IN
  /\ wpc[w] = "fetch"
  /\ IF Present(j) /\ row[j].retry # "future"
     THEN Goto(w, "global") /\ UNCHANGED <<wjob, delayed>>
     ELSE /\ Finish(w)
          /\ IF Present(j) THEN Delay(w[1], j) ELSE UNCHANGED delayed
  /\ UNCHANGED <<storeVars, podVars, queue, wmarks, handlerVars, history>>

AcquireGlobal(w) ==
  /\ wpc[w] = "global"
  /\ Holding(w[1], {"tenant"} \cup Inside) < GlobalLimit
  /\ Goto(w, "tenant")
  /\ UNCHANGED <<storeVars, podVars, queueVars, wjob, wmarks, handlerVars, history>>

AcquireTenant(w) ==
  /\ wpc[w] = "tenant"
  /\ Cardinality({v \in Workers :
        /\ v[1] = w[1]
        /\ wpc[v] \in Inside
        /\ Tenant[wjob[v][1]] = Tenant[wjob[w][1]]}) < TenantLimit
  /\ Goto(w, "load")
  /\ UNCHANGED <<storeVars, podVars, queueVars, wjob, wmarks, handlerVars, history>>

-----------------------------------------------------------------------------
(* _run_ingest_job                                                         *)

\* The job is read again; only a RECEIVED one is worth claiming.
Load(w) ==
  LET j == wjob[w] IN
  /\ wpc[w] = "load"
  /\ IF row[j].status = "RECEIVED"
     THEN /\ Goto(w, "claim")
          /\ wmarks' = [wmarks EXCEPT ![w] = row[j].marks]
          /\ UNCHANGED wjob
     ELSE Finish(w) /\ UNCHANGED wmarks
  /\ UNCHANGED <<storeVars, podVars, queueVars, handlerVars, history>>

Claim(w) ==
  /\ wpc[w] = "claim"
  /\ \/ /\ Transition(wjob[w], "RECEIVED", "STAGE2_RUNNING")
        /\ Goto(w, "stage2")
        /\ UNCHANGED wjob
     \/ /\ row[wjob[w]].status # "RECEIVED"
        /\ Finish(w)
        /\ UNCHANGED storeVars
  /\ UNCHANGED <<podVars, queueVars, wmarks, handlerVars, history>>

\* After the stage-2 attempt is recorded.  (create_job stores a non-empty turns
\* list and user_tokens, so the two payload guards do not fire.)
Prepare(w) ==
  /\ wpc[w] = "prepare"
  /\ IF wmarks[w] THEN Goto(w, "stage3")
     ELSE \E mode \in Stage2Modes :
            Goto(w, CASE mode = "off" -> "marks"
                      [] mode = "llm" -> "extract"
                      [] OTHER        -> "fail2")
  /\ UNCHANGED <<storeVars, podVars, queueVars, wjob, wmarks, handlerVars, history>>

\* The turn-mark extractor answers, or raises (or its answer is invalid).
Extract(w) ==
  /\ wpc[w] = "extract"
  /\ \E next \in {"marks", "fail2"} : Goto(w, next)
  /\ UNCHANGED <<storeVars, podVars, queueVars, wjob, wmarks, handlerVars, history>>

\* session_write returns ok or skipped_existing, another status, or raises.
SessionWrite(w) ==
  /\ wpc[w] = "session"
  /\ \E next \in {"complete", "reject", "fail3"} : Goto(w, next)
  /\ UNCHANGED <<storeVars, podVars, queueVars, wjob, wmarks, handlerVars, history>>

BeginUpdate(w) ==
  /\ wpc[w] \in UpdateOps
  /\ AwaitedBy(<<"worker", w>>) = {}
  /\ Read(<<"worker", w>>, w[1], wjob[w], wpc[w])
  /\ UNCHANGED <<podVars, queueVars, workerVars, handlerVars, history>>

MutantAfterUpdate(w) ==               \* the retry is written, never scheduled
  /\ CASE wpc[w] = "stage2" -> Goto(w, "prepare") /\ UNCHANGED wjob
       [] wpc[w] = "marks"  -> Goto(w, "stage3") /\ UNCHANGED wjob
       [] wpc[w] = "stage3" -> Goto(w, "session") /\ UNCHANGED wjob
       [] OTHER             -> Finish(w)
  /\ UNCHANGED delayed

\* Where the worker goes when the store call it awaits returns.
AfterUpdate(w) ==
  /\ CASE wpc[w] = "stage2" -> Goto(w, "prepare") /\ UNCHANGED wjob
       [] wpc[w] = "marks"  -> Goto(w, "stage3") /\ UNCHANGED wjob
       [] wpc[w] = "stage3" -> Goto(w, "session") /\ UNCHANGED wjob
       [] OTHER             -> Finish(w)
  /\ IF wpc[w] = "retry" THEN Delay(w[1], wjob[w]) ELSE UNCHANGED delayed

EndUpdate(w) ==
  /\ wpc[w] \in UpdateOps
  /\ \E u \in AwaitedBy(<<"worker", w>>) : Land(u)
  /\ AfterUpdate(w)
  /\ UNCHANGED <<podVars, queue, wmarks, handlerVars, history>>

\* The row is gone: the update returns without writing.
SkipUpdate(w) ==
  /\ wpc[w] \in UpdateOps
  /\ AwaitedBy(<<"worker", w>>) = {}
  /\ ~Present(wjob[w])
  /\ AfterUpdate(w)
  /\ UNCHANGED <<storeVars, podVars, queue, wmarks, handlerVars, history>>

-----------------------------------------------------------------------------
(* asyncio.wait_for(run_job, job_timeout_s) expires; _handle_timeout.      *)

Expire(w) ==
  /\ wpc[w] \in TimeoutPoints
  /\ used.timeouts < MaxTimeouts
  /\ used' = [used EXCEPT !.timeouts = @ + 1]
  /\ Goto(w, "expired")
  /\ writes' = Orphaned(<<"worker", w>>)
  /\ UNCHANGED <<row, index, created, session, podVars, queueVars, wjob, wmarks,
                 handlerVars, accepted>>

MaxAttempts == MaxRetries + 1

\* Only stage-3 attempts count, and a job that never got there counts as one.
\* A job that is gone is judged by its attempts when it was fetched.
JudgeTimeout(w) ==
  LET exhausted == row[wjob[w]].stage3 >= MaxAttempts \/ MaxAttempts = 1 IN
  /\ wpc[w] = "expired"
  /\ \/ (exhausted \/ ~Present(wjob[w])) /\ Goto(w, "giveup")
     \/ ~exhausted /\ Goto(w, "retry")
  /\ UNCHANGED <<storeVars, podVars, queueVars, wjob, wmarks, handlerVars, history>>

\* A statement whose caller was cancelled reaches the database.
LandOrphan(u) ==
  /\ ~u.live
  /\ Land(u)
  /\ UNCHANGED <<podVars, queueVars, workerVars, handlerVars, history>>

\* The store raises.  Inside the try of stage 3 the runner turns it into a
\* failure; elsewhere it reaches the worker loop, which logs it.
StoreFails(w) ==
  /\ wpc[w] \in UpdateOps \cup {"fetch", "load", "claim", "expired"}
  /\ used.faults < MaxFaults
  /\ used' = [used EXCEPT !.faults = @ + 1]
  /\ writes' = writes \ AwaitedBy(<<"worker", w>>)
  /\ IF wpc[w] \in {"complete", "reject"}
     THEN Goto(w, "fail3") /\ UNCHANGED wjob
     ELSE Finish(w)
  /\ UNCHANGED <<row, index, created, session, podVars, queueVars, wmarks,
                 handlerVars, accepted>>

-----------------------------------------------------------------------------
(* The HTTP handlers: ingest_dialog_v1, ingest_job_execute and the ingest  *)
(* part of the tenant clear.                                               *)

Respond(h, pc) == hpc' = [hpc EXCEPT ![h] = pc]

\* create_job; with wait=true the 400 comes after the job is stored.
Submit(h, p, c, text, wait) ==
  /\ hpc[h] = "idle" /\ pod[p] = "up"
  /\ used.requests < MaxRequests
  /\ used' = [used EXCEPT !.requests = @ + 1]
  /\ \/ Reusable(c) /\ UNCHANGED storeVars
     \/ Create(c, text)
  /\ Respond(h, IF wait THEN "idle" ELSE "created")
  /\ hpod' = [hpod EXCEPT ![h] = p]
  /\ hjob' = [hjob EXCEPT ![h] = IF wait THEN NoJob ELSE <<c, index'[c]>>]
  /\ UNCHANGED <<podVars, queueVars, workerVars, accepted>>

\* The execute endpoint: any stored job, whatever its status.
Execute(h, p, j) ==
  /\ hpc[h] = "idle" /\ pod[p] = "up"
  /\ used.requests < MaxRequests
  /\ used' = [used EXCEPT !.requests = @ + 1]
  /\ Present(j)
  /\ Respond(h, "created")
  /\ hpod' = [hpod EXCEPT ![h] = p]
  /\ hjob' = [hjob EXCEPT ![h] = j]
  /\ UNCHANGED <<storeVars, podVars, queueVars, workerVars, accepted>>

Accept(h) ==
  /\ hpc[h] = "created" /\ Room(hpod[h])
  /\ Offer(hpod[h], hjob[h])
  /\ accepted' = accepted \cup {hjob[h]}
  /\ Respond(h, "idle")
  /\ hjob' = [hjob EXCEPT ![h] = NoJob]
  /\ UNCHANGED <<storeVars, podVars, delayed, workerVars, hpod, used>>

\* The queue is full: the job is marked ENQUEUE_FAILED and a 503 is sent.
BeginRefusal(h) ==
  /\ hpc[h] = "created" /\ ~Room(hpod[h])
  /\ Read(<<"handler", h>>, hpod[h], hjob[h], "enqfail")
  /\ Respond(h, "enqfail")
  /\ UNCHANGED <<podVars, queueVars, workerVars, hpod, hjob, history>>

EndRefusal(h) ==
  /\ hpc[h] = "enqfail"
  /\ \E u \in AwaitedBy(<<"handler", h>>) : Land(u)
  /\ Respond(h, "idle")
  /\ hjob' = [hjob EXCEPT ![h] = NoJob]
  /\ UNCHANGED <<podVars, queueVars, workerVars, hpod, history>>

\* The row was cleared meanwhile: update_status writes nothing.
SkipRefusal(h) ==
  /\ hpc[h] = "created" /\ ~Room(hpod[h])
  /\ ~Present(hjob[h])
  /\ Respond(h, "idle")
  /\ hjob' = [hjob EXCEPT ![h] = NoJob]
  /\ UNCHANGED <<storeVars, podVars, queueVars, workerVars, hpod, history>>

Clear(t) ==
  /\ \E p \in Pods : pod[p] = "up"
  /\ used.clears < MaxClears
  /\ used' = [used EXCEPT !.clears = @ + 1]
  /\ ClearTenant(t)
  /\ UNCHANGED <<podVars, queueVars, workerVars, handlerVars, accepted>>

-----------------------------------------------------------------------------
(* The life of a pod: start, recovery, graceful stop, crash.               *)

IdleWorkers(p) ==
  wpc' = [w \in Workers |-> IF w[1] = p THEN "idle" ELSE wpc[w]]

NoWorkers(p) ==
  /\ wpc' = [w \in Workers |-> IF w[1] = p THEN "exited" ELSE wpc[w]]
  /\ wjob' = [w \in Workers |-> IF w[1] = p THEN NoJob ELSE wjob[w]]

MutantRecoverable ==                  \* whatever is not COMPLETED is taken up again
  [j \in Jobs |->
     IF row[j].status # "COMPLETED" THEN row[j].status ELSE "ABSENT"]

Recoverable ==
  [j \in Jobs |-> IF row[j].status \in Pending THEN row[j].status ELSE "ABSENT"]

\* start(): the workers, then the list of the jobs left RECEIVED or RUNNING.
Start(p) ==
  /\ pod[p] = "down"
  /\ used.starts < MaxStarts
  /\ used' = [used EXCEPT !.starts = @ + 1]
  /\ pod' = [pod EXCEPT ![p] = "recovering"]
  /\ IdleWorkers(p)
  /\ listed' = [listed EXCEPT ![p] = Recoverable]
  /\ UNCHANGED <<storeVars, poisons, queueVars, wjob, wmarks, handlerVars, accepted>>

Recovered(p, j) == listed' = [listed EXCEPT ![p][j] = "ABSENT"]

Recovering(p, j) ==
  /\ pod[p] = "recovering"
  /\ listed[p][j] # "ABSENT"
  /\ AwaitedBy(<<"recovery", p>>) = {}

\* One listed job: a RUNNING one is set back to RECEIVED, unless its status
\* moved since, and the job is queued, or delayed until its retry is due.
Recover(p, j) ==
  /\ Recovering(p, j)
  /\ Recovered(p, j)
  /\ \/ /\ listed[p][j] = "RECEIVED"
        /\ UNCHANGED storeVars
        /\ IF row[j].retry = "future"
           THEN Delay(p, j) /\ UNCHANGED queue
           ELSE Offer(p, j) /\ UNCHANGED delayed
     \/ /\ listed[p][j] # "RECEIVED"
        /\ Transition(j, listed[p][j], "RECEIVED")
        /\ IF row[j].retry = "future"
           THEN Delay(p, j) /\ UNCHANGED queue
           ELSE Offer(p, j) /\ UNCHANGED delayed
     \/ /\ listed[p][j] \notin {"RECEIVED", row[j].status}
        /\ UNCHANGED <<storeVars, queueVars>>
  /\ UNCHANGED <<pod, poisons, workerVars, handlerVars, history>>

\* A job not updated for recover_stale_s is failed instead.
BeginStale(p, j) ==
  /\ Recovering(p, j)
  /\ Read(<<"recovery", p>>, p, j, "stale")
  /\ UNCHANGED <<podVars, queueVars, workerVars, handlerVars, history>>

EndStale(p) ==
  /\ \E u \in AwaitedBy(<<"recovery", p>>) : Land(u) /\ Recovered(p, u.job)
  /\ UNCHANGED <<pod, poisons, queueVars, workerVars, handlerVars, history>>

\* The store raises: the server logs it and serves without the rest.
RecoveryFails(p) ==
  /\ pod[p] = "recovering"
  /\ used.faults < MaxFaults
  /\ used' = [used EXCEPT !.faults = @ + 1]
  /\ listed' = [listed EXCEPT ![p] = [j \in Jobs |-> "ABSENT"]]
  /\ writes' = writes \ AwaitedBy(<<"recovery", p>>)
  /\ pod' = [pod EXCEPT ![p] = "up"]
  /\ UNCHANGED <<row, index, created, session, poisons, queueVars, workerVars,
                 handlerVars, accepted>>

Serve(p) ==
  /\ pod[p] = "recovering"
  /\ \A j \in Jobs : listed[p][j] = "ABSENT"
  /\ pod' = [pod EXCEPT ![p] = "up"]
  /\ UNCHANGED <<storeVars, listed, poisons, queueVars, workerVars, handlerVars, history>>

Quiet(p) == \A h \in Handlers : hpod[h] = p => hpc[h] = "idle"

\* The server drains its requests, then calls stop().  (A pod stops only while
\* a start is left, so that the system does not stay down for good.)
Stop(p) ==
  /\ pod[p] = "up" /\ Quiet(p)
  /\ used.starts < MaxStarts
  /\ pod' = [pod EXCEPT ![p] = "stopping"]
  /\ poisons' = [poisons EXCEPT ![p] = WorkerCount]
  /\ UNCHANGED <<storeVars, listed, queueVars, workerVars, handlerVars, history>>

\* put_nowait(None), or the put() that waits for room.
PutPoison(p) ==
  /\ pod[p] = "stopping" /\ poisons[p] > 0 /\ Room(p)
  /\ queue' = [queue EXCEPT ![p] = Append(@, Poison)]
  /\ poisons' = [poisons EXCEPT ![p] = @ - 1]
  /\ UNCHANGED <<storeVars, pod, listed, delayed, workerVars, handlerVars, history>>

\* The workers are gone, or cancelled after shutdown_grace_s: each has removed
\* its job from _running_jobs by then, so the rollback finds nothing to do.
StopEnds(p) ==
  /\ pod[p] = "stopping" /\ poisons[p] = 0
  /\ pod' = [pod EXCEPT ![p] = "exiting"]
  /\ NoWorkers(p)
  /\ writes' = {IF u.pod = p THEN [u EXCEPT !.live = FALSE] ELSE u : u \in writes}
  /\ queue' = [queue EXCEPT ![p] = << >>]
  /\ delayed' = [delayed EXCEPT ![p] = [j \in Jobs |-> 0]]
  /\ UNCHANGED <<row, index, created, session, listed, poisons, wmarks, handlerVars, history>>

\* The event loop joins its threads before the process ends.
Exit(p) ==
  /\ pod[p] = "exiting"
  /\ \A u \in writes : u.pod # p
  /\ pod' = [pod EXCEPT ![p] = "down"]
  /\ UNCHANGED <<storeVars, listed, poisons, queueVars, workerVars, handlerVars, history>>

\* The process dies: what it had not written is gone.
Crash(p) ==
  /\ pod[p] # "down"
  /\ used.starts < MaxStarts
  /\ pod' = [pod EXCEPT ![p] = "down"]
  /\ listed' = [listed EXCEPT ![p] = [j \in Jobs |-> "ABSENT"]]
  /\ poisons' = [poisons EXCEPT ![p] = 0]
  /\ queue' = [queue EXCEPT ![p] = << >>]
  /\ delayed' = [delayed EXCEPT ![p] = [j \in Jobs |-> 0]]
  /\ NoWorkers(p)
  /\ hpc' = [h \in Handlers |-> IF hpod[h] = p THEN "idle" ELSE hpc[h]]
  /\ hjob' = [h \in Handlers |-> IF hpod[h] = p THEN NoJob ELSE hjob[h]]
  /\ writes' = {u \in writes : u.pod # p}
  /\ UNCHANGED <<row, index, created, session, wmarks, hpod, history>>

-----------------------------------------------------------------------------
WorkerStep(w) ==
  \/ Get(w) \/ Fetch(w) \/ AcquireGlobal(w) \/ AcquireTenant(w)
  \/ Load(w) \/ Claim(w) \/ Prepare(w) \/ Extract(w) \/ SessionWrite(w)
  \/ BeginUpdate(w) \/ EndUpdate(w) \/ SkipUpdate(w) \/ JudgeTimeout(w)

HandlerStep(h) == Accept(h) \/ BeginRefusal(h) \/ EndRefusal(h) \/ SkipRefusal(h)

PodStep(p) ==
  \/ Start(p) \/ EndStale(p) \/ Serve(p)
  \/ \E j \in Jobs : Recover(p, j) \/ DelayedEnqueue(p, j)

StopStep(p) == PutPoison(p) \/ StopEnds(p) \/ Exit(p)

Request(h) ==
  \E p \in Pods :
    \/ \E c \in Commits, text \in Texts, wait \in BOOLEAN : Submit(h, p, c, text, wait)
    \/ \E j \in Jobs : Execute(h, p, j)

Next ==
  \/ \E w \in Workers : WorkerStep(w) \/ Expire(w) \/ StoreFails(w)
  \/ \E h \in Handlers : Request(h) \/ HandlerStep(h)
  \/ \E j \in Jobs : RetryDue(j)
  \/ \E u \in writes : LandOrphan(u)
  \/ \E t \in Tenants : Clear(t)
  \/ \E p \in Pods :
       \/ PodStep(p) \/ StopStep(p)
       \/ Stop(p) \/ Crash(p) \/ RecoveryFails(p)
       \/ \E j \in Jobs : BeginStale(p, j)

Spec == PipelineInit /\ [][Next]_vars

\* Coroutines that can run do run, threads finish, time passes, a process that
\* is down is started again.  Requests, timeouts, faults and crashes need not
\* happen.
Fairness ==
  /\ \A w \in Workers : WF_vars(WorkerStep(w))
  /\ \A h \in Handlers : WF_vars(HandlerStep(h))
  /\ \A j \in Jobs : WF_vars(RetryDue(j))
  /\ \A p \in Pods : WF_vars(PodStep(p)) /\ WF_vars(StopStep(p))
  /\ WF_vars(\E u \in writes : LandOrphan(u))

FairSpec == Spec /\ Fairness

-----------------------------------------------------------------------------
(* Properties.                                                             *)

Actors == ({"worker"} \X Workers) \cup ({"handler"} \X Handlers)
             \cup ({"recovery"} \X Pods)

Write == [by : Actors, pod : Pods, live : BOOLEAN, job : Jobs,
          op : UpdateOps \cup {"enqfail", "stale"}, row : Row]

\* The type invariant: every variable holds what the code can store in it.
TypeOK ==
  /\ StoreTypeOK
  /\ \A u \in writes : u \in Write
  /\ pod \in [Pods -> {"down", "recovering", "up", "stopping", "exiting"}]
  /\ listed \in [Pods -> [Jobs -> Pending \cup {"ABSENT"}]]
  /\ poisons \in [Pods -> 0 .. WorkerCount]
  /\ queue \in [Pods -> Seq(Jobs \cup {Poison})]
  /\ delayed \in [Pods -> [Jobs -> Nat]]
  /\ wpc \in [Workers -> WorkerPc]
  /\ wjob \in [Workers -> Jobs \cup {NoJob}]
  /\ wmarks \in [Workers -> BOOLEAN]
  /\ hpc \in [Handlers -> {"idle", "created", "enqfail"}]
  /\ hpod \in [Handlers -> Pods]
  /\ hjob \in [Handlers -> Jobs \cup {NoJob}]
  /\ accepted \subseteq Jobs
  /\ used \in [requests : 0 .. MaxRequests, starts : 0 .. MaxStarts,
               timeouts : 0 .. MaxTimeouts, faults : 0 .. MaxFaults,
               clears : 0 .. MaxClears]

\* No job has two runners at a time, however often it is submitted, executed,
\* retried, timed out or recovered: what the claim in _run_ingest_job is for
\* ("Avoid duplicate concurrent runners").
SingleRunner ==
  \A v, w \in Workers :
    wpc[v] \in Owning /\ wpc[w] \in Owning /\ wjob[v] = wjob[w] => v = w

\* commit_id is the key that blocks duplicate parallel execution: no two workers
\* run jobs of one commit at the same time.
CommitRunsOnce ==
  \A v, w \in Workers :
    /\ wpc[v] \in Owning /\ wpc[w] \in Owning
    /\ wjob[v][1] = wjob[w][1]
    => v = w

\* A job a client was told is accepted, and that is not finished, is in
\* somebody's hands as long as a pod serves: queued, delayed, held by a worker
\* or waiting for recovery, unless a store call raised.  (A job dropped on an early
\* return, in the queue or on a timeout stays RECEIVED or RUNNING with nobody.)
Attended(j) ==
  \E p \in Pods :
    \/ \E i \in 1 .. Len(queue[p]) : queue[p][i] = j
    \/ delayed[p][j] > 0
    \/ listed[p][j] # "ABSENT"
    \/ \E w \in Workers : wjob[w] = j

AcceptedIsAttended ==
  (\E p \in Pods : pod[p] \in {"recovering", "up"}) /\ used.faults = 0 =>
    \A j \in accepted : row[j].status \in Pending => Attended(j)

\* The runner never lets a finished job go back ("This prevents status rollback
\* / duplicate writes"): COMPLETED is final.
CompletedIsFinal ==
  [][\A j \in Jobs : row[j].status = "COMPLETED" => row'[j].status = "COMPLETED"]_vars

\* A job that was dropped by create_job or cleared with its tenant never comes
\* back, whichever runner was still at work on it.
StaysDeleted ==
  \A j \in Jobs : ~Present(j) /\ j[2] <= created[j[1]] => row'[j].status = "ABSENT"

DeletedStaysDeleted == [][StaysDeleted]_vars

\* What a client sees of a commit, and who is on it: from the claim of its job
\* until the worker has let go of it, its timeout included.
PhaseOf(status) ==
  CASE status = "ABSENT"    -> "none"
    [] status = "RECEIVED"  -> "waiting"
    [] status = "COMPLETED" -> "completed"
    [] status \in Failures  -> "failed"
    [] OTHER                -> "running"

CommitPhase ==
  [c \in Commits |->
     IF index[c] = 0 THEN "none" ELSE PhaseOf(row[<<c, index[c]>>].status)]

CommitRuns ==
  {<<w, wjob[w][1]>> : w \in {v \in Workers : wpc[v] \in Owning \cup Settling}}

Promise == INSTANCE IngestCommits WITH
  Runners <- Workers, phase <- CommitPhase, runs <- CommitRuns

\* The pipeline does with a commit what IngestCommits promises: one claim at a
\* time, no outcome but its runner's while there is one, no way back from the
\* end, through timeouts, retries, faults, stops and crashes.
ImplementsCommits == Promise!CommitsSpec

Settled(j) == row[j].status \notin Pending

\* Every accepted job reaches COMPLETED or a FAILED status, which the polling
\* loop of the README waits for, through timeouts, retries, stops and crashes.
AcceptedSettles == \A j \in Jobs : (j \in accepted) ~> Settled(j)

\* A pod that starts to stop does end.
StopCompletes == \A p \in Pods : (pod[p] = "stopping") ~> (pod[p] = "down")
=============================================================================
