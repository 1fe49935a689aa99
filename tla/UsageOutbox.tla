---------------------------- MODULE UsageOutbox ----------------------------
(***************************************************************************)
(* What the usage log promises, whatever its table, its batches and its    *)
(* restarts: an event that was kept waits until the sink has it, or has    *)
(* another event of the same call; an event may be delivered more than     *)
(* once, and only an event that was made is; no call waits forever.        *)
(***************************************************************************)
CONSTANTS Calls, Runs       \* ids of calls; the runs of a call

Event == [id : Calls, run : Runs]
IdsIn(events) == {e.id : e \in events}

VARIABLES
  made,       \* the events of the calls that were made
  waiting,    \* kept, and not known to be delivered
  delivered   \* what the sink has

outbox == <<made, waiting, delivered>>

OutboxInit == made = {} /\ waiting = {} /\ delivered = {}

\* A call is made and its event kept, in place of an older one of that call, or lost.
Make(e) ==
  /\ e \notin made /\ made' = made \cup {e}
  /\ waiting' \in {waiting, {w \in waiting : w.id # e.id} \cup {e}}
  /\ UNCHANGED delivered

\* The sink gets events, perhaps again, perhaps such as wait no more.
Deliver(events) ==
  /\ events # {} /\ events \subseteq made
  /\ delivered' = delivered \cup events
  /\ UNCHANGED <<made, waiting>>

\* What the sink has an event of need not wait.
Settle(calls) ==
  /\ calls \subseteq IdsIn(delivered)
  /\ waiting' = {w \in waiting : w.id \notin calls}
  /\ UNCHANGED <<made, delivered>>

OutboxNext ==
  \/ \E e \in Event : Make(e)
  \/ \E events \in SUBSET made : Deliver(events)
  \/ \E calls \in SUBSET Calls : Settle(calls)

\* A call that waits is heard of, by this event or another of its.
Heard(c) == c \in IdsIn(waiting) ~> c \in IdsIn(delivered)

OutboxSpec == OutboxInit /\ [][OutboxNext]_outbox
=============================================================================
