---------------------------- MODULE UsageWal ---------------------------
(***************************************************************************)
(* The log of billable usage: threads of the ingest jobs and of retrieval  *)
(* append what their calls to a model cost, one loop posts the oldest rows *)
(* to a sink and deletes what it has confirmed.  The table survives the    *)
(* process, which may crash, or stop in an order of its own; the loop does *)
(* not survive an error of the table where nothing catches it.             *)
(*                                                                         *)
(* A call is known by tenant, key, job or request, stage and index: when a *)
(* job is run again, the event of its second run has the id of the first.  *)
(***************************************************************************)
EXTENDS Naturals, FiniteSets

CONSTANTS
  Calls,        \* ids of events
  Batch,        \* rows in one post
  MaxRuns,      \* how often a call is made
  MaxErrors, MaxRestarts   \* bounds of the check

ASSUME WalAssumption ==
  /\ Batch \in Nat \ {0} /\ MaxRuns \in Nat
  /\ MaxErrors \in Nat /\ MaxRestarts \in Nat

Event == [id : Calls, run : Nat]
WalRow == [id : Calls, run : Nat, at : Nat]      \* at: created_at, in order
What(r) == [id |-> r.id, run |-> r.run]
Whats(rows) == {What(r) : r \in rows}
IdsOf(rows) == {r.id : r \in rows}

VARIABLES
  wal,          \* the rows, all of them pending
  clock,        \* of created_at
  life,         \* "up", "mute" (up, but its loop has ended), "stopping" (the
                \* executor's grace period) or "down"
  post,         \* the rows of the post in flight, {} if there is none
  taken,        \* the sink has accepted it
  late,         \* posts nobody waits for any more, that may still arrive
  sink,         \* the events that the sink has accepted
  runs,         \* how often each call was made
  spent,         \* faults and restarts so far
  acked,        \* history: events that the sink has confirmed
  lost,         \* history: calls whose last event could not be appended
  raced         \* history: calls appended again while they were in a post

table == <<wal, clock>>
posting == <<post, taken, late>>
walHistory == <<acked, lost, raced>>
walVars == <<table, life, posting, sink, runs, spent, walHistory>>

WalInit ==
  /\ wal = {} /\ clock = 0
  /\ life = "up"
  /\ post = {} /\ taken = FALSE /\ late = {}
  /\ sink = {}
  /\ runs = [c \in Calls |-> 0]
  /\ spent = [faults |-> 0, restarts |-> 0]
  /\ acked = {} /\ lost = {} /\ raced = {}

Fault == spent.faults < MaxErrors /\ spent' = [spent EXCEPT !.faults = @ + 1]

-----------------------------------------------------------------------------
(* Appending: INSERT OR REPLACE by the id of the event.                    *)

\* A row that is replaced is a new row, also in the order.
Appended(c) ==
  {r \in wal : r.id # c} \cup {[id |-> c, run |-> runs[c] + 1, at |-> clock + 1]}

\* An error of the database is swallowed.  The jobs go on, and append, while the
\* executor is being stopped.
Emit(c) ==
  /\ life # "down" /\ runs[c] < MaxRuns
  /\ runs' = [runs EXCEPT ![c] = @ + 1]
  /\ \/ /\ wal' = Appended(c) /\ clock' = clock + 1
        /\ lost' = lost \ {c}
        /\ raced' = IF c \in IdsOf(post) THEN raced \cup {c} ELSE raced \ {c}
        /\ UNCHANGED spent
     \/ /\ Fault
        /\ lost' = lost \cup {c}
        /\ UNCHANGED <<table, raced>>
  /\ UNCHANGED <<life, posting, sink, acked>>

-----------------------------------------------------------------------------
(* flush_once                                                              *)

\* The oldest rows: no more than a batch.
Older(r) == {q \in wal : q.at < r.at}
MutantOldest == IF Cardinality(wal) < Batch THEN {}   \* waits for a whole batch
                ELSE {r \in wal : Cardinality(Older(r)) < Batch}
Oldest == {r \in wal : Cardinality(Older(r)) < Batch}

Begin ==
  /\ life = "up" /\ post = {}
  /\ Oldest # {}
  /\ post' = Oldest /\ taken' = FALSE
  /\ UNCHANGED <<table, life, late, sink, runs, spent, walHistory>>

\* The rows are read outside of any handler: an error ends the task of the loop,
\* and nobody starts it again in this process.
BeginFails ==
  /\ life = "up" /\ post = {} /\ Fault
  /\ life' = "mute"
  /\ UNCHANGED <<table, posting, sink, runs, walHistory>>

Take ==
  /\ post # {} /\ ~taken
  /\ taken' = TRUE
  /\ sink' = sink \cup Whats(post)
  /\ UNCHANGED <<table, life, post, late, runs, spent, walHistory>>

\* _mark_sent: by id, whatever the row says by now.
MutantUnsent == wal \ Oldest          \* as many as were sent, by their order
Unsent == {r \in wal : r.id \notin IdsOf(post)}

Confirm ==
  /\ post # {} /\ taken
  /\ wal' = Unsent
  /\ acked' = acked \cup Whats(post)
  /\ post' = {} /\ taken' = FALSE
  /\ UNCHANGED <<clock, life, late, sink, runs, spent, lost, raced>>

\* The sink refuses, or its answer does not come, or what it confirmed cannot be
\* deleted: the rows stay, and only count the attempt, which nothing looks at.  The
\* table may refuse to count, too, and that error ends the loop.
GivenUp == IF taken THEN late ELSE late \cup {Whats(post)}

Refuse ==
  /\ post # {} /\ Fault
  /\ late' \in {late, GivenUp}
  /\ post' = {} /\ taken' = FALSE
  /\ life' \in {life, "mute"}
  /\ UNCHANGED <<table, sink, runs, walHistory>>

Arrive ==
  \E events \in late :
    /\ late' = late \ {events}
    /\ sink' = sink \cup events
    /\ UNCHANGED <<table, life, post, taken, runs, spent, walHistory>>

-----------------------------------------------------------------------------
(* lifespan: the loop is cancelled first, then the executor is stopped.    *)

Ends(next) ==
  /\ life' = next
  /\ late' \in {late, GivenUp}
  /\ post' = {} /\ taken' = FALSE
  /\ UNCHANGED <<table, sink, runs, walHistory>>

\* (MaxRestarts bounds the stops: a process that is stopped is started again.)
Stoppable == spent.restarts < MaxRestarts
StopLoop == life = "up" /\ Stoppable /\ Ends("stopping") /\ UNCHANGED spent
\* To wait for a loop that has ended is to meet its error: the executor is not stopped.
StopMute == life = "mute" /\ Stoppable /\ Ends("down") /\ UNCHANGED spent
Exits == life = "stopping" /\ Ends("down") /\ UNCHANGED spent
Crashes == life # "down" /\ Stoppable /\ Fault /\ Ends("down")

Restart ==
  /\ life = "down" /\ life' = "up"
  /\ spent' = [spent EXCEPT !.restarts = @ + 1]
  /\ UNCHANGED <<table, posting, sink, runs, walHistory>>

WalNext ==
  \/ \E c \in Calls : Emit(c)
  \/ Begin \/ BeginFails \/ Take \/ Confirm \/ Refuse \/ Arrive
  \/ StopLoop \/ StopMute \/ Exits \/ Crashes \/ Restart

\* The loop runs every few seconds and the post has a timeout; the sink answers;
\* the grace period is bounded, and somebody starts the process again.
WalFairness ==
  /\ WF_walVars(Begin) /\ WF_walVars(Take) /\ WF_walVars(Confirm)
  /\ WF_walVars(Exits) /\ WF_walVars(Restart)

WalSpec == WalInit /\ [][WalNext]_walVars
LiveWalSpec == WalSpec /\ WalFairness

-----------------------------------------------------------------------------
(* Properties                                                              *)

Latest(c) == [id |-> c, run |-> runs[c]]

WalTypeOK ==
  /\ wal \subseteq WalRow /\ clock \in Nat
  /\ \A r, q \in wal : r.id = q.id \/ r.at = q.at => r = q
  /\ life \in {"up", "mute", "stopping", "down"}
  /\ post \subseteq WalRow /\ taken \in BOOLEAN
  /\ late \subseteq SUBSET Event
  /\ sink \subseteq Event /\ acked \subseteq Event
  /\ runs \in [Calls -> Nat]
  /\ lost \subseteq Calls /\ raced \subseteq Calls

\* What a call cost the last time is in the table or with the sink, whichever
\* step a crash, a stop, a lost answer or a refusal came between.  (Not if its
\* event replaced one that was being posted: the confirmation of the older event
\* deletes the newer.)
UsageKept ==
  \A c \in Calls : runs[c] > 0 /\ c \notin lost /\ c \notin raced =>
    Latest(c) \in Whats(wal) \cup sink

\* What the sink has confirmed is not in the table any more, so that it is sent
\* again only by a post that was under way: a bill counts a call twice at most
\* where an answer was lost.
ConfirmedNotResent == Whats(wal) \cap acked = {} /\ acked \subseteq sink

\* The log as an outbox: its variables, of those of the log.
Made == {[id |-> c, run |-> r] : c \in Calls, r \in 1..MaxRuns}
Outbox == INSTANCE UsageOutbox WITH
            Runs      <- 1..MaxRuns,
            made      <- {e \in Made : e.run <= runs[e.id]},
            waiting   <- Whats(wal),
            delivered <- sink

\* Across crashes, stops, refusals, lost and late answers the log delivers at
\* least once what it kept, delivers only what was made, and forgets only calls
\* of which the sink has an event: it implements the outbox of UsageOutbox.
ImplementsOutbox == Outbox!OutboxSpec

\* Every call whose event was appended gets to the sink, this event or another
\* of that call, over refusals, stops and crashes: unless an error of the table ends
\* the loop, and nobody starts the process again.
UsageArrives == \A c \in Calls : Outbox!Heard(c) \/ <>[](life = "mute")

\* What the comment at _emit_usage_event says: the flush guarantees delivery.
DeliveryGuaranteed == \A c \in Calls : Outbox!Heard(c)
=============================================================================
