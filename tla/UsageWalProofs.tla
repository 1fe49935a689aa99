--------------------------- MODULE UsageWalProofs ---------------------------
(***************************************************************************)
(* The usage log loses no event it kept, sends none it saw confirmed, and  *)
(* implements the outbox, for any calls, any size of a batch and any       *)
(* number of runs, faults and restarts.                                    *)
(***************************************************************************)
EXTENDS UsageWal, TLAPS

\* An event of a run that was made.
Happened(e) == e \in Event /\ e.run \in 1..MaxRuns /\ e.run <= runs[e.id]

\* What is in the table, under way, with the sink or confirmed was made.
OnlyMade ==
  /\ \A r \in wal \cup post : Happened(What(r))
  /\ \A events \in late : \A e \in events : Happened(e)
  /\ \A e \in sink \cup acked : Happened(e)

\* A row of the post that is still in the table is the one that was posted,
\* unless its call was appended again since.
SameRow == \A p \in post, r \in wal : p.id = r.id /\ p.id \notin raced => r = p

Ordered == \A r \in wal : r.at <= clock

\* The inductive invariant: the two properties need to know that events of a
\* later run are new, and which row the confirmation of a post deletes.
IInv ==
  /\ WalTypeOK /\ OnlyMade /\ SameRow /\ Ordered
  /\ taken => Whats(post) \subseteq sink
  /\ UsageKept /\ ConfirmedNotResent

-----------------------------------------------------------------------------
(* Rows and events.                                                        *)

LEMMA RowEvents ==
  ASSUME NEW r \in WalRow PROVE What(r) \in Event /\ What(r).id = r.id /\ What(r).run = r.run
  BY DEF WalRow, Event, What

\* The events of rows are rows' events, by their ids too.
LEMMA EventIds ==
  ASSUME NEW R, R \subseteq WalRow
  PROVE  /\ Whats(R) \subseteq Event
         /\ \A r \in R : What(r) \in Whats(R) /\ r.id \in IdsOf(R)
         /\ \A e \in Whats(R) : \E r \in R : e = What(r) /\ e.id = r.id /\ e.id \in IdsOf(R)
         /\ \A c \in IdsOf(R) : \E r \in R : r.id = c
  BY RowEvents DEF Whats, IdsOf

\* A later run makes no event undone.
LEMMA HappenedLasts ==
  ASSUME WalTypeOK, NEW c \in Calls, runs' = [runs EXCEPT ![c] = @ + 1],
         NEW e, Happened(e)
  PROVE  Happened(e)'
  <1>1. e.id \in Calls /\ runs[e.id] \in Nat /\ runs[c] \in Nat
    BY DEF Happened, Event, WalTypeOK
  <1>2. runs'[e.id] = IF e.id = c THEN runs[c] + 1 ELSE runs[e.id]
    BY <1>1 DEF WalTypeOK
  <1> QED BY <1>1, <1>2 DEF Happened, Event

-----------------------------------------------------------------------------
(* Appending.                                                              *)

LEMMA EmitKeeps ==
  ASSUME IInv, WalAssumption, NEW c \in Calls, Emit(c)
  PROVE  IInv'
  <1> USE DEF IInv
  <1>1. /\ runs' = [runs EXCEPT ![c] = @ + 1] /\ runs[c] < MaxRuns
        /\ UNCHANGED <<life, post, taken, late, sink, acked>>
    BY DEF Emit, posting
  <1>2. \A e : Happened(e) => Happened(e)'
    BY <1>1, HappenedLasts
  <1>3. runs' \in [Calls -> Nat]
    BY <1>1 DEF WalTypeOK
  <1>4. \A d \in Calls : d # c => Latest(d)' = Latest(d)
    BY <1>1 DEF Latest, WalTypeOK
  <1>5. CASE /\ wal' = Appended(c) /\ clock' = clock + 1 /\ lost' = lost \ {c}
             /\ raced' = IF c \in IdsOf(post) THEN raced \cup {c} ELSE raced \ {c}
    <2>0. PICK new : new = [id |-> c, run |-> runs[c] + 1, at |-> clock + 1]
      OBVIOUS
    <2>1. /\ new \in WalRow /\ new \in wal' /\ Happened(What(new))'
          /\ What(new) = Latest(c)'
          /\ ~Happened(What(new))
          /\ wal' \subseteq wal \cup {new}
          /\ \A r \in wal : r.id # c => r \in wal'
          /\ \A r \in wal' : r.id = c => r = new
          /\ wal' \subseteq WalRow /\ Ordered'
          /\ \A r, q \in wal' : r.id = q.id \/ r.at = q.at => r = q
      <3>1. runs[c] \in Nat /\ clock \in Nat /\ MaxRuns \in Nat
        BY DEF WalTypeOK, WalAssumption
      <3>2. runs'[c] = runs[c] + 1
        BY <1>1, <3>1 DEF WalTypeOK
      <3>3. new \in WalRow /\ new.id = c /\ new.run = runs[c] + 1 /\ new.at = clock + 1
        BY <2>0, <3>1 DEF WalRow
      <3>4. wal' = {r \in wal : r.id # c} \cup {new}
        BY <1>5, <2>0 DEF Appended
      <3>5. What(new) = [id |-> c, run |-> runs[c] + 1]
        BY <3>3 DEF What
      <3>6. What(new) = Latest(c)'
        BY <3>2, <3>5 DEF Latest
      <3>7. Happened(What(new))' /\ ~Happened(What(new))
        BY <1>1, <3>1, <3>2, <3>3, RowEvents DEF Happened
      <3>8. wal' \subseteq WalRow /\ Ordered'
        <4>1. \A r \in wal : r \in WalRow /\ r.at <= clock /\ r.at \in Nat
          BY DEF WalTypeOK, Ordered, WalRow
        <4> QED BY <1>5, <3>1, <3>3, <3>4, <4>1 DEF Ordered
      <3>9. \A r, q \in wal' : r.id = q.id \/ r.at = q.at => r = q
        <4>1. \A r \in wal : r.at <= clock /\ r.at \in Nat
          BY DEF WalTypeOK, Ordered, WalRow
        <4>2. \A r, q \in wal : r.id = q.id \/ r.at = q.at => r = q
          BY DEF WalTypeOK
        <4>3. \A r \in wal : r.at # clock + 1
          BY <3>1, <4>1
        <4> QED BY <3>3, <3>4, <4>2, <4>3
      <3> QED BY <3>3, <3>4, <3>6, <3>7, <3>8, <3>9
    <2>2. WalTypeOK'
      <3>1. clock' \in Nat /\ lost' \subseteq Calls /\ raced' \subseteq Calls
        BY <1>5 DEF WalTypeOK
      <3> QED BY <1>1, <1>3, <2>1, <3>1 DEF WalTypeOK
    <2>3. OnlyMade'
      BY <1>1, <1>2, <2>1 DEF OnlyMade
    <2>4. SameRow'
      <3> SUFFICES ASSUME NEW p \in post, NEW r \in wal', p.id = r.id, p.id \notin raced'
                   PROVE  r = p
        BY <1>1 DEF SameRow
      <3>1. p.id \in IdsOf(post)
        BY DEF IdsOf
      <3>2. p.id # c
        BY <1>5, <3>1
      <3>3. new.id = c
        BY <2>0
      <3>4. r \in wal /\ p.id \notin raced
        BY <1>5, <2>1, <3>2, <3>3
      <3> QED BY <3>4 DEF SameRow
    <2>5. UsageKept'
      <3> SUFFICES ASSUME NEW d \in Calls, runs'[d] > 0, d \notin lost', d \notin raced'
                   PROVE  Latest(d)' \in Whats(wal') \cup sink
        BY <1>1 DEF UsageKept, Whats
      <3>1. CASE d = c
        BY <2>1, <3>1 DEF Whats
      <3>2. CASE d # c
        <4>1. Latest(d) \in Whats(wal) \cup sink /\ Latest(d)' = Latest(d)
          BY <1>1, <1>4, <1>5, <3>2 DEF UsageKept, WalTypeOK
        <4>2. \A r \in wal : What(r) = Latest(d) => r.id = d
          BY RowEvents DEF WalTypeOK, Latest
        <4> QED BY <2>1, <3>2, <4>1, <4>2 DEF Whats
      <3> QED BY <3>1, <3>2
    <2>6. ConfirmedNotResent'
      <3>1. What(new) \notin acked
        BY <2>1 DEF OnlyMade
      <3> QED BY <1>1, <2>1, <3>1 DEF ConfirmedNotResent, Whats
    <2> QED BY <1>1, <2>1, <2>2, <2>3, <2>4, <2>5, <2>6 DEF Whats
  <1>6. CASE lost' = lost \cup {c} /\ UNCHANGED <<wal, clock, raced>>
    <2>1. WalTypeOK'
      BY <1>1, <1>3, <1>6 DEF WalTypeOK
    <2>2. OnlyMade' /\ SameRow' /\ Ordered'
      BY <1>1, <1>2, <1>6 DEF OnlyMade, SameRow, Ordered
    <2>3. UsageKept'
      <3> SUFFICES ASSUME NEW d \in Calls, runs'[d] > 0, d \notin lost', d \notin raced'
                   PROVE  Latest(d)' \in Whats(wal') \cup sink
        BY <1>1 DEF UsageKept, Whats
      <3>1. d # c /\ d \notin lost /\ d \notin raced
        BY <1>6
      <3>2. runs[d] > 0
        BY <1>1, <3>1 DEF WalTypeOK
      <3> QED BY <1>4, <1>6, <3>1, <3>2 DEF UsageKept
    <2>4. ConfirmedNotResent' /\ (taken' => Whats(post') \subseteq sink')
      BY <1>1, <1>6 DEF ConfirmedNotResent, Whats
    <2> QED BY <2>1, <2>2, <2>3, <2>4
  <1> QED BY <1>5, <1>6 DEF Emit, table

-----------------------------------------------------------------------------
(* Flushing, and the life of the process.                                  *)

LEMMA BeginKeeps ==
  ASSUME IInv, Begin PROVE IInv'
  <1>1. /\ post' = Oldest /\ Oldest \subseteq wal /\ ~taken'
        /\ UNCHANGED <<wal, clock, life, late, sink, runs, acked, lost, raced>>
    BY DEF Begin, Oldest, table, walHistory
  <1>2. WalTypeOK'
    BY <1>1 DEF IInv, WalTypeOK, Begin
  <1>3. OnlyMade' /\ Ordered'
    BY <1>1 DEF IInv, OnlyMade, Happened, Ordered
  <1>4. SameRow'
    BY <1>1 DEF IInv, SameRow, WalTypeOK
  <1>5. UsageKept' /\ ConfirmedNotResent'
    BY <1>1 DEF IInv, UsageKept, ConfirmedNotResent, Whats, Latest
  <1> QED BY <1>1, <1>2, <1>3, <1>4, <1>5 DEF IInv

LEMMA TakeKeeps ==
  ASSUME IInv, Take PROVE IInv'
  <1>1. /\ sink' = sink \cup Whats(post) /\ taken'
        /\ UNCHANGED <<wal, clock, life, post, late, runs, acked, lost, raced>>
    BY DEF Take, table, walHistory
  <1>2. \A e \in Whats(post) : Happened(e) /\ e \in Event
    BY DEF IInv, OnlyMade, Whats, Happened
  <1>3. WalTypeOK'
    BY <1>1, <1>2 DEF IInv, WalTypeOK, Take
  <1>4. OnlyMade' /\ Ordered' /\ SameRow'
    BY <1>1, <1>2 DEF IInv, OnlyMade, Happened, Ordered, SameRow
  <1>5. UsageKept' /\ ConfirmedNotResent'
    BY <1>1 DEF IInv, UsageKept, ConfirmedNotResent, Whats, Latest
  <1> QED BY <1>1, <1>3, <1>4, <1>5 DEF IInv, Whats

LEMMA ConfirmKeeps ==
  ASSUME IInv, Confirm PROVE IInv'
  <1>1. /\ wal' = Unsent /\ acked' = acked \cup Whats(post) /\ post' = {} /\ ~taken'
        /\ Whats(post) \subseteq sink
        /\ UNCHANGED <<clock, life, late, sink, runs, lost, raced>>
    BY DEF Confirm, IInv
  <1>2. Unsent \subseteq wal /\ \A r \in Unsent : What(r) \notin Whats(post)
    <2>1. post \subseteq WalRow /\ wal \subseteq WalRow
      BY DEF IInv, WalTypeOK
    <2> QED BY <2>1, EventIds, RowEvents DEF Unsent
  <1>3. \A e \in Whats(post) : Happened(e) /\ e \in Event
    BY DEF IInv, OnlyMade, Whats, Happened
  <1>4. WalTypeOK'
    BY <1>1, <1>2, <1>3 DEF IInv, WalTypeOK, Confirm
  <1>5. OnlyMade' /\ Ordered' /\ SameRow'
    BY <1>1, <1>2, <1>3 DEF IInv, OnlyMade, Happened, Ordered, SameRow
  <1>6. UsageKept'
    <2> SUFFICES ASSUME NEW c \in Calls, runs[c] > 0, c \notin lost, c \notin raced,
                        Latest(c) \notin sink
                 PROVE  Latest(c) \in Whats(Unsent)
      BY <1>1 DEF UsageKept, Latest, Whats
    <2>1. PICK r \in wal : What(r) = Latest(c)
      BY DEF IInv, UsageKept, Whats
    <2>2. r.id = c
      BY <2>1, RowEvents DEF IInv, WalTypeOK, Latest
    <2>3. r.id \notin IdsOf(post)
      <3> SUFFICES ASSUME r.id \in IdsOf(post) PROVE FALSE
        OBVIOUS
      <3>1. PICK p \in post : p.id = r.id
        BY DEF IdsOf
      <3>2. r = p
        BY <2>2, <3>1 DEF IInv, SameRow
      <3> QED BY <1>1, <2>1, <3>2 DEF Whats
    <2> QED BY <2>1, <2>3 DEF Unsent, Whats
  <1>7. ConfirmedNotResent'
    BY <1>1, <1>2 DEF IInv, ConfirmedNotResent, Whats
  <1> QED BY <1>1, <1>4, <1>5, <1>6, <1>7 DEF IInv

\* What only forgets the post, keeps the table and the sink.
LEMMA EndsKeeps ==
  ASSUME IInv, late' \in {late, GivenUp}, post' = {}, taken' = FALSE,
         life' \in {"up", "mute", "stopping", "down"},
         UNCHANGED <<wal, clock, sink, runs, acked, lost, raced>>
  PROVE  IInv'
  <1>1. \A e \in Whats(post) : Happened(e) /\ e \in Event
    BY DEF IInv, OnlyMade, Whats, Happened
  <1>2. \A events \in late' : events \in late \/ events = Whats(post)
    BY DEF GivenUp
  <1>3. WalTypeOK'
    BY <1>1, <1>2 DEF IInv, WalTypeOK
  <1>4. OnlyMade'
    <2>1. \A events \in late' : \A e \in events : Happened(e)
      BY <1>1, <1>2 DEF IInv, OnlyMade
    <2> QED BY <2>1 DEF IInv, OnlyMade, Happened
  <1>5. UsageKept' /\ ConfirmedNotResent' /\ SameRow' /\ Ordered'
    BY DEF IInv, UsageKept, ConfirmedNotResent, Whats, Latest, SameRow, Ordered
  <1> QED BY <1>3, <1>4, <1>5 DEF IInv

LEMMA ArriveKeeps ==
  ASSUME IInv, Arrive PROVE IInv'
  <1>1. PICK events \in late :
          /\ late' = late \ {events} /\ sink' = sink \cup events
          /\ UNCHANGED <<wal, clock, life, post, taken, runs, acked, lost, raced>>
    BY DEF Arrive, table, walHistory
  <1>2. \A e \in events : Happened(e) /\ e \in Event
    BY <1>1 DEF IInv, OnlyMade, Happened
  <1>3. WalTypeOK'
    BY <1>1, <1>2 DEF IInv, WalTypeOK
  <1>4. OnlyMade'
    BY <1>1, <1>2 DEF IInv, OnlyMade, Happened
  <1>5. UsageKept' /\ ConfirmedNotResent' /\ SameRow' /\ Ordered'
    BY <1>1 DEF IInv, UsageKept, ConfirmedNotResent, Whats, Latest, SameRow, Ordered
  <1> QED BY <1>1, <1>3, <1>4, <1>5 DEF IInv, Whats

\* What changes only the life of the process and the counters of the bounds.
LEMMA LifeKeeps ==
  ASSUME IInv, life' \in {"up", "mute", "stopping", "down"},
         UNCHANGED <<wal, clock, post, taken, late, sink, runs, acked, lost, raced>>
  PROVE  IInv'
  <1>1. WalTypeOK'
    BY DEF IInv, WalTypeOK
  <1>2. OnlyMade'
    BY DEF IInv, OnlyMade, Happened
  <1> QED BY <1>1, <1>2 DEF IInv, UsageKept, ConfirmedNotResent, Whats, Latest, SameRow, Ordered

LEMMA Step ==
  ASSUME IInv, WalAssumption, [WalNext]_walVars PROVE IInv'
  <1>1. CASE \E c \in Calls : Emit(c)
    BY <1>1, EmitKeeps
  <1>2. CASE Begin \/ Take \/ Confirm \/ Arrive
    BY <1>2, BeginKeeps, TakeKeeps, ConfirmKeeps, ArriveKeeps
  <1>3. CASE Refuse
    <2>1. life' \in {"up", "mute", "stopping", "down"}
      BY <1>3 DEF Refuse, IInv, WalTypeOK
    <2> QED BY <1>3, <2>1, EndsKeeps DEF Refuse, table, walHistory
  <1>4. CASE StopLoop \/ StopMute \/ Exits \/ Crashes
    <2>1. PICK next \in {"stopping", "down"} : Ends(next)
      BY <1>4 DEF StopLoop, StopMute, Exits, Crashes
    <2> QED BY <2>1, EndsKeeps DEF Ends, table, walHistory
  <1>5. CASE BeginFails \/ Restart \/ UNCHANGED walVars
    <2>1. /\ life' \in {"up", "mute", "stopping", "down"}
          /\ UNCHANGED <<wal, clock, post, taken, late, sink, runs, acked, lost, raced>>
      BY <1>5 DEF BeginFails, Restart, walVars, table, posting, walHistory, IInv, WalTypeOK
    <2> QED BY <2>1, LifeKeeps
  <1> QED BY <1>1, <1>2, <1>3, <1>4, <1>5 DEF WalNext

LEMMA Start == WalInit => IInv
  <1> SUFFICES ASSUME WalInit PROVE IInv
    OBVIOUS
  <1>1. WalTypeOK
    BY DEF WalInit, WalTypeOK
  <1>2. OnlyMade /\ SameRow /\ Ordered
    BY DEF WalInit, OnlyMade, SameRow, Ordered
  <1>3. UsageKept /\ ConfirmedNotResent /\ ~taken
    BY DEF WalInit, UsageKept, ConfirmedNotResent, Whats
  <1> QED BY <1>1, <1>2, <1>3 DEF IInv

LEMMA Inductive == WalSpec => []IInv
  <1>1. IInv /\ [WalNext]_walVars => IInv'
    BY Step, WalAssumption
  <1> QED BY <1>1, Start, PTL DEF WalSpec

\* The last event of every call that was appended, and not while its call was in
\* a post, is in the table or with the sink.
THEOREM KeptUsage == WalSpec => []UsageKept
  <1>1. IInv => UsageKept
    BY DEF IInv
  <1> QED BY <1>1, Inductive, PTL

\* What the sink has confirmed is in the table no more.
THEOREM ConfirmedOnce == WalSpec => []ConfirmedNotResent
  <1>1. IInv => ConfirmedNotResent
    BY DEF IInv
  <1> QED BY <1>1, Inductive, PTL
-----------------------------------------------------------------------------
(* The refinement.                                                         *)

\* The events the outbox takes for made are those that happened.
LEMMA MadeHappened ==
  ASSUME WalTypeOK, WalAssumption, NEW e, Happened(e)
  PROVE  e \in Made /\ e.run <= runs[e.id]
  BY DEF Happened, Event, Made, WalAssumption

LEMMA EmitMakes ==
  ASSUME IInv, WalAssumption, NEW c \in Calls, Emit(c)
  PROVE  Outbox!OutboxNext
  <1> DEFINE made == {e \in Made : e.run <= runs[e.id]}
  <1>1. PICK e : e = [id |-> c, run |-> runs[c] + 1]
    OBVIOUS
  <1>2. runs[c] \in Nat /\ runs[c] + 1 \in 1..MaxRuns /\ runs \in [Calls -> Nat]
    BY DEF Emit, IInv, WalTypeOK, WalAssumption
  <1>3. runs' = [runs EXCEPT ![c] = @ + 1] /\ sink' = sink
    BY DEF Emit, posting
  <1>4. e \in Outbox!Event /\ e \in Made /\ e \notin made
    BY <1>1, <1>2 DEF Outbox!Event, Made
  <1>5. made' = made \cup {e}
    <2>1. ASSUME NEW f \in Made PROVE f.run <= runs'[f.id] <=> f.run <= runs[f.id] \/ f = e
      <3>1. PICK d \in Calls, r \in 1..MaxRuns : f = [id |-> d, run |-> r]
        BY DEF Made
      <3>2. f.id = d /\ f.run = r /\ r \in Nat /\ runs[d] \in Nat
        BY <1>2, <3>1
      <3>3. CASE d = c
        BY <1>1, <1>2, <1>3, <3>1, <3>2, <3>3
      <3>4. CASE d # c
        BY <1>1, <1>2, <1>3, <3>1, <3>2, <3>4
      <3> QED BY <3>3, <3>4
    <2> QED BY <1>4, <2>1
  <1>6. Whats(wal)' \in {Whats(wal), {w \in Whats(wal) : w.id # e.id} \cup {e}}
    <2>1. CASE wal' = wal
      BY <2>1 DEF Whats
    <2>2. CASE wal' = Appended(c)
      <3>1. wal \subseteq WalRow
        BY DEF IInv, WalTypeOK
      <3>2. Whats(wal)' = {What(r) : r \in {q \in wal : q.id # c}} \cup {e}
        <4>1. PICK new : new = [id |-> c, run |-> runs[c] + 1, at |-> clock + 1]
          OBVIOUS
        <4>2. wal' = {q \in wal : q.id # c} \cup {new} /\ What(new) = e
          BY <1>1, <2>2, <4>1 DEF Appended, What
        <4> QED BY <4>2 DEF Whats
      <3>3. {What(r) : r \in {q \in wal : q.id # c}} = {w \in Whats(wal) : w.id # c}
        BY <3>1, RowEvents DEF Whats
      <3> QED BY <1>1, <3>2, <3>3
    <2> QED BY <2>1, <2>2 DEF Emit, table
  <1>7. Outbox!Make(e)
    BY <1>3, <1>4, <1>5, <1>6 DEF Outbox!Make
  <1> QED BY <1>4, <1>7 DEF Outbox!OutboxNext

LEMMA StepIsOutboxStep ==
  ASSUME IInv, WalAssumption, [WalNext]_walVars
  PROVE  [Outbox!OutboxNext]_(Outbox!outbox)
  <1> DEFINE made == {e \in Made : e.run <= runs[e.id]}
  <1>1. CASE \E c \in Calls : Emit(c)
    BY <1>1, EmitMakes
  <1>2. ASSUME NEW events, \A e \in events : Happened(e),
               sink' = sink \cup events, UNCHANGED <<wal, runs>>
        PROVE  [Outbox!OutboxNext]_(Outbox!outbox)
    <2>1. events \subseteq made
      BY <1>2, MadeHappened DEF IInv
    <2>2. made' = made /\ Whats(wal)' = Whats(wal)
      BY <1>2 DEF Whats
    <2>3. CASE events = {}
      BY <1>2, <2>2, <2>3 DEF Outbox!outbox
    <2>4. CASE events # {}
      <3>1. Outbox!Deliver(events)
        BY <1>2, <2>1, <2>2, <2>4 DEF Outbox!Deliver
      <3> QED BY <2>1, <3>1 DEF Outbox!OutboxNext
    <2> QED BY <2>3, <2>4
  <1>3. CASE Take
    <2>1. \A e \in Whats(post) : Happened(e)
      BY DEF IInv, OnlyMade, Whats
    <2> QED BY <1>2, <1>3, <2>1 DEF Take, table
  <1>4. CASE Arrive
    <2>1. PICK events \in late : sink' = sink \cup events /\ UNCHANGED <<wal, runs>>
      BY <1>4 DEF Arrive, table
    <2>2. \A e \in events : Happened(e)
      BY <2>1 DEF IInv, OnlyMade
    <2> QED BY <1>2, <2>1, <2>2
  <1>5. CASE Confirm
    <2>1. /\ wal' = Unsent /\ UNCHANGED <<sink, runs>>
          /\ Whats(post) \subseteq sink /\ post \subseteq WalRow /\ wal \subseteq WalRow
      BY <1>5 DEF Confirm, IInv, WalTypeOK
    <2>2. IdsOf(post) \subseteq Outbox!IdsIn(sink) /\ IdsOf(post) \subseteq Calls
      <3> SUFFICES ASSUME NEW c \in IdsOf(post) PROVE c \in Outbox!IdsIn(sink) /\ c \in Calls
        OBVIOUS
      <3>1. PICK r \in post : r.id = c
        BY DEF IdsOf
      <3>2. What(r) \in sink /\ What(r).id = c /\ c \in Calls
        BY <2>1, <3>1, RowEvents DEF Whats, WalRow
      <3> QED BY <3>2 DEF Outbox!IdsIn
    <2>3. Whats(wal)' = {w \in Whats(wal) : w.id \notin IdsOf(post)}
      <3>1. Whats(wal)' = {What(r) : r \in {q \in wal : q.id \notin IdsOf(post)}}
        BY <2>1 DEF Whats, Unsent
      <3>2. \A r \in wal : What(r).id = r.id
        BY <2>1, RowEvents
      <3> QED BY <3>1, <3>2 DEF Whats
    <2>4. Outbox!Settle(IdsOf(post))
      BY <2>1, <2>2, <2>3 DEF Outbox!Settle
    <2> QED BY <2>2, <2>4 DEF Outbox!OutboxNext
  <1>6. CASE \/ Begin \/ BeginFails \/ Refuse \/ StopLoop \/ StopMute \/ Exits
             \/ Crashes \/ Restart \/ UNCHANGED walVars
    <2>1. UNCHANGED <<wal, sink, runs>>
      BY <1>6 DEF Begin, BeginFails, Refuse, StopLoop, StopMute, Exits, Crashes, Ends,
         Restart, walVars, table, posting
    <2> QED BY <2>1 DEF Outbox!outbox, Whats
  <1> QED BY <1>1, <1>3, <1>4, <1>5, <1>6 DEF WalNext

\* The log implements the outbox: it starts as one, and every step of its
\* threads, of the loop, of the sink and of the process is a step of it or none.
THEOREM LogIsAnOutbox == WalSpec => ImplementsOutbox
  <1>1. WalInit => Outbox!OutboxInit
    BY DEF WalInit, Outbox!OutboxInit, Made, Whats
  <1>2. IInv /\ [WalNext]_walVars => [Outbox!OutboxNext]_(Outbox!outbox)
    BY StepIsOutboxStep, WalAssumption
  <1> QED BY <1>1, <1>2, Inductive, PTL DEF WalSpec, ImplementsOutbox, Outbox!OutboxSpec
=============================================================================
