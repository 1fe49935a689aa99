--------------------------- MODULE IngestCommits ---------------------------
(***************************************************************************)
(* What the ingest promises of a commit, whatever its jobs, its queues,    *)
(* its processes and their restarts: a commit that was submitted waits, is *)
(* claimed by one runner that has nothing else to do, and ends completed   *)
(* or failed, for good.  Nobody but its runner moves it while it has one;  *)
(* a run whose runner is gone can only be given back, or judged.           *)
(***************************************************************************)
CONSTANTS Commits, Runners

VARIABLES
  phase,   \* per commit: "none", "waiting", "running", "completed", "failed"
  runs     \* pairs of a runner and the commit it is on

commitVars == <<phase, runs>>

CommitsInit ==
  /\ phase = [c \in Commits |-> "none"]
  /\ runs = {}

RunsOf(c) == {run \in runs : run[2] = c}

Submit(c) ==
  /\ phase[c] = "none"
  /\ phase' = [phase EXCEPT ![c] = "waiting"]
  /\ UNCHANGED runs

Claim(r, c) ==
  /\ phase[c] = "waiting"
  /\ RunsOf(c) = {} /\ ~\E run \in runs : run[1] = r
  /\ phase' = [phase EXCEPT ![c] = "running"]
  /\ runs' = runs \cup {<<r, c>>}

\* The runner lets go of the commit as it writes the outcome; a retry is one too.
Conclude(c) ==
  /\ phase[c] = "running"
  /\ \E outcome \in {"waiting", "completed", "failed"} :
       phase' = [phase EXCEPT ![c] = outcome]
  /\ runs' = runs \ RunsOf(c)

\* A commit that has waited too long is failed unseen.
Overdue(c) ==
  /\ phase[c] = "waiting" /\ RunsOf(c) = {}
  /\ phase' = [phase EXCEPT ![c] = "failed"]
  /\ UNCHANGED runs

\* Runners are gone, and leave what they were on as it is.
Abandon(lost) ==
  /\ UNCHANGED phase
  /\ runs' = runs \ lost

CommitsNext ==
  \/ \E lost \in SUBSET runs : Abandon(lost)
  \/ \E c \in Commits : Submit(c) \/ Conclude(c) \/ Overdue(c)
  \/ \E r \in Runners, c \in Commits : Claim(r, c)

CommitsSpec == CommitsInit /\ [][CommitsNext]_commitVars
=============================================================================
