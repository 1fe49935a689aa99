------------------------- MODULE IngestJobStore -------------------------
(***************************************************************************)
(* The ingest job store of the memory service: the tables ingest_jobs,     *)
(* ingest_commit_index_v2 and ingest_session_state, in the two backends    *)
(* the server can be started with (SQLite and PostgreSQL).                 *)
(*                                                                         *)
(* create_job, try_transition_status and clear_by_tenant are one database  *)
(* transaction that locks what it reads, hence one step.  update_status    *)
(* and update_stage2 read a row, patch the copy and write it back without  *)
(* a lock in between, hence two: the patched copy waits in `writes' after  *)
(* the read, and lands later, whatever happened to the row meanwhile.      *)
(*                                                                         *)
(* A job id is a fresh uuid: here the pair of the commit it was created    *)
(* for and its rank among the jobs of that commit.  A submission without   *)
(* a commit_id is a commit nobody submits twice.  Error texts, metrics and *)
(* timestamps are left out; next_retry_at is "none", "future" or "due".    *)
(***************************************************************************)
EXTENDS Naturals, FiniteSets

CONSTANTS
  Commits,   \* the (tenant_id, session_id, commit_id) triples submitted
  Tenants, Sessions,
  Tenant,    \* Commits -> Tenants
  Session,   \* Commits -> Sessions
  MaxGen,    \* bound: how many jobs one commit may ever create
  Backend    \* "sqlite" or "pg": MEMORY_STORE_BACKEND

ASSUME StoreAssumption ==
  /\ Tenant \in [Commits -> Tenants]
  /\ Session \in [Commits -> Sessions]
  /\ MaxGen \in Nat
  /\ Backend \in {"sqlite", "pg"}

Jobs == Commits \X (1 .. MaxGen)
NoJob == << >>

Pending  == {"RECEIVED", "STAGE2_RUNNING", "STAGE3_RUNNING"}
Failures == {"STAGE2_FAILED", "STAGE3_FAILED", "ENQUEUE_FAILED"}
Statuses == Pending \cup Failures \cup {"COMPLETED"}

Row == [status : Statuses \cup {"ABSENT"}, stage2 : Nat, stage3 : Nat,
        retry : {"none", "future", "due"}, marks : BOOLEAN, text : BOOLEAN]

Absent == [status |-> "ABSENT", stage2 |-> 0, stage3 |-> 0,
           retry |-> "none", marks |-> FALSE, text |-> FALSE]

NewRow(text) == [Absent EXCEPT !.status = "RECEIVED", !.text = text]

VARIABLES
  row,      \* ingest_jobs: job -> row, Absent when there is none
  index,    \* ingest_commit_index_v2: commit -> rank of its job, 0 for none
  created,  \* how many jobs each commit has created so far
  session,  \* ingest_session_state: session -> latest job and status
  writes    \* rows read and patched by an update that has not landed yet

storeVars == <<row, index, created, session, writes>>

NoSession == [job |-> NoJob, status |-> "ABSENT"]

StoreInit ==
  /\ row = [j \in Jobs |-> Absent]
  /\ index = [c \in Commits |-> 0]
  /\ created = [c \in Commits |-> 0]
  /\ session = [s \in Sessions |-> NoSession]
  /\ writes = {}

Present(j) == row[j].status # "ABSENT"

SessionAfter(j, status) ==
  [session EXCEPT ![Session[j[1]]] = [job |-> j, status |-> status]]

-----------------------------------------------------------------------------
(* create_job.                                                             *)

MutantReusable(c) ==                  \* only a finished job blocks its commit
  /\ index[c] # 0
  /\ row[<<c, index[c]>>].status = "COMPLETED"

\* The job a commit resolves to, when create_job answers with an existing one:
\* a finished job, or one whose stored turns carry some text.
Reusable(c) ==
  /\ index[c] # 0
  /\ Present(<<c, index[c]>>)
  /\ \/ row[<<c, index[c]>>].status = "COMPLETED"
     \/ row[<<c, index[c]>>].text

\* A fresh job; an indexed job that was not reusable is deleted with it.
Create(c, text) ==
  LET j == <<c, created[c] + 1>> IN
  /\ ~Reusable(c)
  /\ created[c] < MaxGen
  /\ created' = [created EXCEPT ![c] = @ + 1]
  /\ index' = [index EXCEPT ![c] = created[c] + 1]
  /\ row' = [k \in Jobs |-> IF k = j THEN NewRow(text)
                            ELSE IF k = <<c, index[c]>> THEN Absent
                            ELSE row[k]]
  /\ session' = SessionAfter(j, "RECEIVED")
  /\ UNCHANGED writes

-----------------------------------------------------------------------------
(* try_transition_status.                                                  *)

MutantTransition(j, from, to) ==      \* the WHERE clause without its status
  /\ Present(j)
  /\ row' = [row EXCEPT ![j].status = to]
  /\ session' = SessionAfter(j, to)
  /\ UNCHANGED <<index, created, writes>>

Transition(j, from, to) ==
  /\ row[j].status = from
  /\ row' = [row EXCEPT ![j].status = to]
  /\ session' = SessionAfter(j, to)
  /\ UNCHANGED <<index, created, writes>>

-----------------------------------------------------------------------------
(* update_status and update_stage2, as the callers of the pipeline use     *)
(* them.  An argument that is None keeps the column as it was read.        *)

Patched(r, op) ==
  CASE op = "stage2"   -> [r EXCEPT !.stage2 = @ + 1]
    [] op = "marks"    -> [r EXCEPT !.marks = TRUE]
    [] op = "stage3"   -> [r EXCEPT !.status = "STAGE3_RUNNING", !.stage3 = @ + 1]
    [] op = "complete" -> [r EXCEPT !.status = "COMPLETED"]
    [] op = "fail2"    -> [r EXCEPT !.status = "STAGE2_FAILED"]
    [] op = "giveup"   -> [r EXCEPT !.status = "STAGE3_FAILED", !.retry = "none"]
    [] op = "retry"    -> [r EXCEPT !.status = "RECEIVED", !.retry = "future"]
    [] op = "enqfail"  -> [r EXCEPT !.status = "ENQUEUE_FAILED"]
    [] OTHER           -> [r EXCEPT !.status = "STAGE3_FAILED"]

\* The SELECT: the patched copy of the row, `live' while the caller awaits it.
Read(by, pod, j, op) ==
  /\ Present(j)
  /\ writes' = writes \cup
       {[by |-> by, pod |-> pod, live |-> TRUE, job |-> j, op |-> op,
         row |-> Patched(row[j], op)]}
  /\ UNCHANGED <<row, index, created, session>>

MutantLanded(w) == w.row              \* an upsert on both backends

\* What the write leaves in the row.  SQLite replaces the whole row, present or
\* not; PostgreSQL updates the columns of that statement where the row exists.
Landed(w) ==
  IF Backend = "sqlite" THEN w.row
  ELSE IF ~Present(w.job) THEN Absent
  ELSE IF w.op = "marks" THEN [row[w.job] EXCEPT !.marks = w.row.marks]
  ELSE [w.row EXCEPT !.marks = row[w.job].marks]

Land(w) ==
  /\ w \in writes
  /\ writes' = writes \ {w}
  /\ row' = [row EXCEPT ![w.job] = Landed(w)]
  /\ session' = IF w.op = "marks" THEN session
                ELSE SessionAfter(w.job, w.row.status)
  /\ UNCHANGED <<index, created>>

\* The caller is cancelled: the statement runs on in its thread.
Orphaned(by) ==
  {IF w.by = by THEN [w EXCEPT !.live = FALSE] ELSE w : w \in writes}

AwaitedBy(by) == {w \in writes : w.by = by /\ w.live}

-----------------------------------------------------------------------------
(* clear_by_tenant.                                                        *)

ClearTenant(t) ==
  /\ row' = [j \in Jobs |-> IF Tenant[j[1]] = t THEN Absent ELSE row[j]]
  /\ index' = [c \in Commits |-> IF Tenant[c] = t THEN 0 ELSE index[c]]
  /\ session' = [s \in Sessions |->
       IF \E j \in Jobs : Session[j[1]] = s /\ Tenant[j[1]] # t /\ Present(j)
       THEN session[s] ELSE NoSession]
  /\ UNCHANGED <<created, writes>>

StoreTypeOK ==
  /\ row \in [Jobs -> Row]
  /\ index \in [Commits -> 0 .. MaxGen]
  /\ created \in [Commits -> 0 .. MaxGen]
  /\ session \in [Sessions ->
       [job : Jobs \cup {NoJob}, status : Statuses \cup {"ABSENT"}]]
=============================================================================
