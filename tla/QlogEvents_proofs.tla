--------------------------- MODULE QlogEvents_proofs ---------------------------
(***************************************************************************)
(* Theorems about what the events of a QlogBuffer hold: whole messages and *)
(* live blocks, in every history in which no reset began while a log call  *)
(* was in flight.                                                          *)
(***************************************************************************)
EXTENDS QlogClaims_proofs

(***************************************************************************)
(* The inductive invariant: what each event looks like at each place of    *)
(* the one call that works on it.                                          *)
(***************************************************************************)
\* Where a call has an event in the making, or a reset has one in the undoing.
WorkPCs == FillPCs \cup {"reset_used", "reset_free", "reset_ext"}
Works(t, s) == pc[t] \in WorkPCs /\ event[t] = s

\* The extended data of e is all there or not there at all; H: the heap.
ExtWhole(e, H) ==
  /\ e.ext_type <=> e.ext_data # Null
  /\ e.ext_data # Null => e.ext_data \in H
Text(e, k) == e.stamp = k /\ e.message = k

\* An event that nobody works on holds one whole message or nothing.
Settled(e, H) ==
  /\ ExtWhole(e, H)
  /\ IF e.used THEN e.message # Null /\ Text(e, e.message) /\ e.ext_data \in {Null, e.message}
     ELSE Text(e, Null) /\ e.ext_data = Null

\* What the call at p with ticket k and pointer b has made of its event e.
Stage(p, k, b, e, H) ==
  /\ p \in {"log_stamp", "log_text", "log_message", "log_ext_check", "log_used",
            "log_unlock", "reset_used"} => ExtWhole(e, H)
  /\ p \in {"log_ext_free", "reset_free"} => b = e.ext_data /\ b # Null /\ b \in H
  /\ p = "log_ext_clear" => b = e.ext_data /\ b # Null /\ b \notin H
  /\ p = "log_ext_store" => e.ext_data = Null /\ ~e.ext_type
  /\ p = "log_ext_publish" => e.ext_data = k /\ k \in H /\ ~e.ext_type
  /\ p \in {"log_text", "log_message"} => e.stamp = k
  /\ p \in FillPCs \ {"log_stamp", "log_text", "log_message"} => Text(e, k)
  /\ p \in {"log_used", "log_unlock"} => e.ext_data \in {Null, k}
  /\ p = "log_unlock" => e.used
  /\ p \in ResetPCs => Text(e, Null)
  /\ p \in {"reset_free", "reset_ext"} => ~e.used
  /\ p = "reset_ext" => b = e.ext_data /\ b \notin H

\* Before the call has stored its data.
FreshPCs == {"log_tas", "log_stamp", "log_text", "log_message", "log_ext_check",
             "log_ext_free", "log_ext_clear", "log_ext_store"}

\* Every block belongs to one event, and no block has the ticket of a call
\* that has yet to store its own.
BlocksKept ==
  /\ \A r, s \in Slots :
       events[r].ext_data = events[s].ext_data => r = s \/ events[s].ext_data = Null
  /\ \A k \in heap : \E s \in Slots : events[s].ext_data = k
  /\ \A s \in Slots : events[s].ext_data <= tickets
  /\ \A t \in Threads, s \in Slots :
       pc[t] \in FreshPCs => events[s].ext_data # ticket[t]

EventsInv ==
  /\ \A t \in Threads :
       pc[t] \in WorkPCs => Stage(pc[t], ticket[t], ptr[t], events[event[t]], heap)
  /\ \A s \in Slots : (\A t \in Threads : ~Works(t, s)) => Settled(events[s], heap)
  /\ BlocksKept

\* What is known of a state in which nothing was disturbed.
Calm == TypeInv /\ FillInv /\ FlightInv /\ EventsInv /\ ~disturbed

LEMMA StageHeap ==
  ASSUME NEW p, NEW k, NEW b, NEW e, NEW G, NEW H, Stage(p, k, b, e, G),
         e.ext_data \in G <=> e.ext_data \in H
  PROVE  Stage(p, k, b, e, H)
BY DEF Stage, ExtWhole

LEMMA SettledHeap ==
  ASSUME NEW e, NEW G, NEW H, Settled(e, G),
         e.ext_data \in G <=> e.ext_data \in H
  PROVE  Settled(e, H)
BY DEF Settled, ExtWhole

\* Nobody else works on the event of a call or a reset that works on one.
LEMMA OneWorker ==
  ASSUME Calm, NEW t \in Threads, NEW u \in Threads, NEW s,
         Works(t, s), Works(u, s)
  PROVE  t = u
<1>s. s \in Slots  BY DEF Calm, TypeInv, TypeOK, Works
<1>1. CASE pc[t] \in FillPCs /\ pc[u] \in FillPCs
  BY <1>s, <1>1 DEF Calm, FillInv, OneFiller, Filling, Works
<1>2. CASE pc[t] \in ResetPCs /\ pc[u] \in ResetPCs
  BY <1>2 DEF Calm, TypeInv, LockInv, BufferLockExclusive, HoldPCs
<1>3. \A v, w \in Threads : ~(pc[v] \in ResetPCs /\ pc[w] \in FillPCs)
  BY DEF Calm, FillInv, ResetAlone, InFlight, FlightPCs
<1>4. QED  BY <1>1, <1>2, <1>3 DEF Works, WorkPCs, ResetPCs

\* A step of t that changes its event s, and its block of the heap.
EventStep(t, from, to, e, H) ==
  /\ Goto(t, from, to)
  /\ \A u \in Threads : u # t => ~Works(u, event[t])
  /\ e \in EventType
  /\ events' = [events EXCEPT ![event[t]] = e]
  /\ heap' = H
  /\ H \subseteq heap \cup {e.ext_data}
  /\ heap \subseteq H \cup {events[event[t]].ext_data}
  /\ events[event[t]].ext_data \in H => e.ext_data = events[event[t]].ext_data
  /\ \/ e.ext_data \in {Null, events[event[t]].ext_data}
     \/ from = "log_ext_store" /\ to = "log_ext_publish" /\ e.ext_data = ticket[t]
  /\ \A u \in Threads : u # t =>
       event'[u] = event[u] /\ ticket'[u] = ticket[u] /\ ptr'[u] = ptr[u]
  /\ IF to \in WorkPCs
     THEN /\ event'[t] = event[t]
          /\ Stage(to, ticket'[t], ptr'[t], e, H)
     ELSE Settled(e, H)
  /\ to \in FreshPCs => from \in FreshPCs /\ ticket'[t] = ticket[t]
  /\ tickets' = tickets
  /\ Null \notin H

LEMMA EventStepMoves ==
  ASSUME Calm, NEW t \in Threads, NEW from, NEW to, NEW e, NEW H,
         EventStep(t, from, to, e, H)
  PROVE  /\ event[t] \in Slots
         /\ pc[t] = from /\ pc'[t] = to
         /\ \A u \in Threads : u # t => pc'[u] = pc[u] /\ event'[u] = event[u]
                                        /\ ticket'[u] = ticket[u] /\ ptr'[u] = ptr[u]
         /\ events'[event[t]] = e
         /\ \A s \in Slots : s # event[t] => events'[s] = events[s]
BY DEF EventStep, Goto, Calm, TypeInv, LockInv, TypeOK

\* The blocks stay apart, found and fresh.
LEMMA EventStepBlocks ==
  ASSUME Calm, NEW t \in Threads, NEW from, NEW to, NEW e, NEW H,
         EventStep(t, from, to, e, H)
  PROVE  BlocksKept'
<1> DEFINE s == event[t]
           old == events[s].ext_data
<1>1. /\ s \in Slots /\ events'[s] = e
      /\ \A r \in Slots : r # s => events'[r] = events[r]
  BY EventStepMoves
<1>2. BlocksKept  BY DEF Calm, EventsInv
<1>m. /\ pc[t] = from /\ pc'[t] = to
      /\ \A u \in Threads : u # t => pc'[u] = pc[u] /\ ticket'[u] = ticket[u]
  BY EventStepMoves
<1>f. to \in FreshPCs => from \in FreshPCs /\ ticket'[t] = ticket[t]
  BY DEF EventStep
<1>3. CASE e.ext_data \in {Null, old}
  <2>1. \A r \in Slots : events'[r].ext_data \in {Null, events[r].ext_data}
    BY <1>1, <1>3
  <2>2. \A r, q \in Slots : events'[r].ext_data = events'[q].ext_data =>
                              r = q \/ events'[q].ext_data = Null
    BY <1>2, <2>1 DEF BlocksKept
  <2>3. \A r \in Slots : events'[r].ext_data <= tickets'
    BY <1>2, <2>1 DEF BlocksKept, EventStep, Calm, TypeInv, TypeOK, Null
  <2>4. ASSUME NEW u \in Threads, NEW r \in Slots, pc'[u] \in FreshPCs
        PROVE  events'[r].ext_data # ticket'[u]
    <3>1. pc[u] \in FreshPCs /\ ticket'[u] = ticket[u]
      BY <1>f, <1>m, <2>4
    <3>2. ticket[u] # Null
      BY <3>1 DEF Calm, TypeInv, FlightTicket, InFlight, FlightPCs, FillPCs, LogPCs,
                  FreshPCs
    <3>3. QED  BY <1>2, <2>1, <3>1, <3>2 DEF BlocksKept
  <2>5. ASSUME NEW k \in H PROVE \E r \in Slots : events'[r].ext_data = k
    <3>1. CASE k = e.ext_data  BY <1>1, <3>1
    <3>2. CASE k # e.ext_data
      <4>1. k \in heap /\ k # old
        BY <2>5, <3>2 DEF EventStep
      <4>2. PICK r \in Slots : events[r].ext_data = k  BY <1>2, <4>1 DEF BlocksKept
      <4>3. r # s  BY <4>1, <4>2
      <4>4. QED  BY <1>1, <4>2, <4>3
    <3>3. QED  BY <3>1, <3>2
  <2>6. heap' = H  BY DEF EventStep
  <2>7. QED  BY <2>2, <2>3, <2>4, <2>5, <2>6 DEF BlocksKept
<1>4. CASE from = "log_ext_store" /\ to = "log_ext_publish" /\ e.ext_data = ticket[t]
  <2>1. /\ pc[t] = "log_ext_store" /\ pc'[t] = "log_ext_publish"
        /\ \A u \in Threads : u # t => pc'[u] = pc[u] /\ ticket'[u] = ticket[u]
    BY <1>4, EventStepMoves
  <2>2. /\ InFlight(t) /\ ticket[t] \in 1 .. tickets
        /\ \A r \in Slots : events[r].ext_data # ticket[t]
    BY <1>2, <2>1 DEF Calm, FlightInv, BlocksKept, InFlight, FlightPCs, FillPCs, LogPCs,
                      FreshPCs
  <2>3. \A r, q \in Slots : events'[r].ext_data = events'[q].ext_data =>
                              r = q \/ events'[q].ext_data = Null
    BY <1>1, <1>2, <1>4, <2>2 DEF BlocksKept
  <2>4. \A r \in Slots : events'[r].ext_data <= tickets'
    BY <1>1, <1>2, <1>4, <2>2 DEF BlocksKept, EventStep
  <2>5. ASSUME NEW u \in Threads, NEW r \in Slots, pc'[u] \in FreshPCs
        PROVE  events'[r].ext_data # ticket'[u]
    <3>1. u # t  BY <2>1, <2>5 DEF FreshPCs
    <3>2. pc[u] \in FreshPCs /\ ticket'[u] = ticket[u] /\ InFlight(u)
      BY <2>1, <2>5, <3>1 DEF InFlight, FlightPCs, FillPCs, LogPCs, FreshPCs
    <3>3. ticket[u] # ticket[t]
      BY <2>2, <3>1, <3>2 DEF Calm, FlightInv
    <3>4. QED  BY <1>1, <1>2, <1>4, <3>2, <3>3 DEF BlocksKept
  <2>6. ASSUME NEW k \in H PROVE \E r \in Slots : events'[r].ext_data = k
    <3>1. CASE k = e.ext_data  BY <1>1, <3>1
    <3>2. CASE k # e.ext_data
      <4>1. k \in heap /\ k # old
        BY <2>6, <3>2 DEF EventStep
      <4>2. PICK r \in Slots : events[r].ext_data = k  BY <1>2, <4>1 DEF BlocksKept
      <4>3. r # s  BY <4>1, <4>2
      <4>4. QED  BY <1>1, <4>2, <4>3
    <3>3. QED  BY <3>1, <3>2
  <2>7. heap' = H  BY DEF EventStep
  <2>8. QED  BY <2>3, <2>4, <2>5, <2>6, <2>7 DEF BlocksKept
<1>5. QED  BY <1>3, <1>4 DEF EventStep

LEMMA EventStepKeeps ==
  ASSUME Calm, NEW t \in Threads, NEW from, NEW to, NEW e, NEW H,
         EventStep(t, from, to, e, H)
  PROVE  EventsInv'
<1> DEFINE s == event[t]
           old == events[s].ext_data
<1>h. heap' = H  BY DEF EventStep
<1>m. /\ s \in Slots /\ pc'[t] = to /\ events'[s] = e
      /\ \A r \in Slots : r # s => events'[r] = events[r]
      /\ \A u \in Threads : u # t => pc'[u] = pc[u] /\ event'[u] = event[u]
                                     /\ ticket'[u] = ticket[u] /\ ptr'[u] = ptr[u]
  BY EventStepMoves
<1>1. /\ s \in Slots /\ pc'[t] = to /\ events'[s] = e /\ heap' = H
      /\ \A r \in Slots : r # s => events'[r] = events[r]
      /\ \A u \in Threads : u # t => pc'[u] = pc[u] /\ event'[u] = event[u]
                                     /\ ticket'[u] = ticket[u] /\ ptr'[u] = ptr[u]
  BY <1>h, <1>m
<1>2. /\ \A u \in Threads : u # t => ~Works(u, s)
      /\ H \subseteq heap \cup {e.ext_data} /\ heap \subseteq H \cup {old}
      /\ Null \notin H /\ Null \notin heap
  BY DEF EventStep, Calm, TypeInv, TypeOK, Tickets, Null
<1>3. BlocksKept /\ BlocksKept'  BY EventStepBlocks DEF Calm, EventsInv
\* The blocks of the other events are neither freed nor allocated.
<1>4. ASSUME NEW r \in Slots, r # s
      PROVE  events[r].ext_data \in heap <=> events[r].ext_data \in H
  <2>1. events[r].ext_data = Null \/ events[r].ext_data # old
    BY <1>1, <1>3, <1>4 DEF BlocksKept
  <2>2. events[r].ext_data = Null \/ events[r].ext_data # e.ext_data
    BY <1>1, <1>3, <1>4 DEF BlocksKept
  <2>3. QED  BY <1>2, <2>1, <2>2
<1>5. ASSUME NEW u \in Threads, pc'[u] \in WorkPCs
      PROVE  Stage(pc'[u], ticket'[u], ptr'[u], events'[event'[u]], heap')
  <2>1. CASE u = t
    BY <1>1, <1>5, <2>1 DEF EventStep
  <2>2. CASE u # t
    <3>1. pc[u] \in WorkPCs /\ event[u] \in Slots /\ event[u] # s
      BY <1>1, <1>2, <1>5, <2>2 DEF Works, Calm, TypeInv, TypeOK
    <3>2. Stage(pc[u], ticket[u], ptr[u], events[event[u]], heap)
      BY <3>1 DEF Calm, EventsInv
    <3>3. Stage(pc[u], ticket[u], ptr[u], events[event[u]], H)
      BY <1>4, <3>1, <3>2, StageHeap
    <3>4. QED  BY <1>1, <2>2, <3>1, <3>3
  <2>3. QED  BY <2>1, <2>2
<1>6. ASSUME NEW r \in Slots, \A u \in Threads : ~Works(u, r)'
      PROVE  Settled(events'[r], heap')
  <2>1. CASE r = s
    <3>1. to \notin WorkPCs
      BY <1>1, <1>6, <2>1 DEF Works, EventStep
    <3>2. QED  BY <1>1, <2>1, <3>1 DEF EventStep
  <2>2. CASE r # s
    <3>1. \A u \in Threads : ~Works(u, r)
      <4>1. ~Works(t, r)  BY <2>2 DEF Works
      <4>2. QED  BY <1>1, <1>6, <4>1 DEF Works
    <3>2. Settled(events[r], heap)  BY <3>1 DEF Calm, EventsInv
    <3>3. Settled(events[r], H)  BY <1>4, <2>2, <3>2, SettledHeap
    <3>4. QED  BY <1>1, <2>2, <3>3
  <2>3. QED  BY <2>1, <2>2
<1>7. QED  BY <1>3, <1>5, <1>6 DEF EventsInv

\* What is known of the event of a thread that works on it.
LEMMA Worker ==
  ASSUME Calm, NEW t \in Threads
  PROVE  /\ event[t] \in Slots /\ events[event[t]] \in EventType
         /\ ticket[t] \in TicketOrNull /\ Null \notin heap
         /\ pc[t] \in WorkPCs =>
              /\ Stage(pc[t], ticket[t], ptr[t], events[event[t]], heap)
              /\ \A u \in Threads : u # t => ~Works(u, event[t])
<1>1. event[t] \in Slots /\ events[event[t]] \in EventType /\ ticket[t] \in TicketOrNull
  BY DEF Calm, TypeInv, TypeOK
<1>2. Null \notin heap  BY DEF Calm, TypeInv, TypeOK, Tickets, Null
<1>3. ASSUME pc[t] \in WorkPCs, NEW u \in Threads, u # t
      PROVE  ~Works(u, event[t])
  BY <1>3, OneWorker DEF Works
<1>4. pc[t] \in WorkPCs => Stage(pc[t], ticket[t], ptr[t], events[event[t]], heap)
  BY DEF Calm, EventsInv
<1>5. QED  BY <1>1, <1>2, <1>3, <1>4

\* A step of the thread that works on an event, to another place of its work.
LEMMA WorkStep ==
  ASSUME Calm, NEW t \in Threads, NEW from \in WorkPCs, NEW to \in WorkPCs,
         Goto(t, from, to), to \in FreshPCs => from \in FreshPCs,
         NEW e \in EventType, events' = [events EXCEPT ![event[t]] = e],
         NEW H, heap' = H, Null \notin H, H \subseteq heap \cup {e.ext_data},
         heap \subseteq H \cup {events[event[t]].ext_data},
         events[event[t]].ext_data \in H => e.ext_data = events[event[t]].ext_data,
         \/ e.ext_data \in {Null, events[event[t]].ext_data}
         \/ from = "log_ext_store" /\ to = "log_ext_publish" /\ e.ext_data = ticket[t],
         UNCHANGED <<event, ticket, tickets>>,
         \A u \in Threads : u # t => ptr'[u] = ptr[u],
         Stage(to, ticket[t], ptr'[t], e, H)
  PROVE  EventsInv'
<1>1. pc[t] = from  BY DEF Goto
<1>2. \A u \in Threads : u # t => ~Works(u, event[t])  BY <1>1, Worker
<1>3. EventStep(t, from, to, e, H)  BY <1>2 DEF EventStep
<1>4. QED  BY <1>3, EventStepKeeps

\* A step that changes the text or the flags of the event only.
LEMMA TextStep ==
  ASSUME Calm, NEW t \in Threads, NEW from \in WorkPCs, NEW to \in WorkPCs,
         Goto(t, from, to), to \in FreshPCs => from \in FreshPCs,
         NEW e \in EventType, events' = [events EXCEPT ![event[t]] = e],
         e.ext_data = events[event[t]].ext_data,
         UNCHANGED <<heap, event, ticket, tickets>>,
         \A u \in Threads : u # t => ptr'[u] = ptr[u],
         Stage(to, ticket[t], ptr'[t], e, heap)
  PROVE  EventsInv'
<1>1. Null \notin heap  BY Worker
<1>2. QED  BY <1>1, WorkStep

\* A step outside of the work on events.
LEMMA IdleStep ==
  ASSUME Calm, NEW t \in Threads, NEW from, NEW to, Goto(t, from, to),
         from \notin WorkPCs, to \notin WorkPCs, UNCHANGED <<events, heap>>,
         \A u \in Threads : u # t =>
           event'[u] = event[u] /\ ticket'[u] = ticket[u] /\ ptr'[u] = ptr[u],
         tickets' \in Int, tickets <= tickets',
         to \in FreshPCs => ticket'[t] \in Int /\ ticket'[t] > tickets
  PROVE  EventsInv'
<1>1. /\ pc[t] = from /\ pc'[t] = to
      /\ \A u \in Threads : u # t => pc'[u] = pc[u]
  BY DEF Goto, Calm, TypeInv, LockInv
<1>2. \A u \in Threads : pc'[u] \in WorkPCs =>
        /\ u # t /\ pc[u] \in WorkPCs
        /\ Stage(pc'[u], ticket'[u], ptr'[u], events'[event'[u]], heap')
  BY <1>1 DEF Calm, EventsInv
<1>3. \A u \in Threads, s \in Slots : Works(u, s)' <=> Works(u, s)
  BY <1>1 DEF Works
<1>4. \A s \in Slots : (\A u \in Threads : ~Works(u, s)') => Settled(events'[s], heap')
  BY <1>3 DEF Calm, EventsInv
<1>5. BlocksKept'
  <2>1. BlocksKept  BY DEF Calm, EventsInv
  <2>2. \A s \in Slots : events[s].ext_data \in Int /\ tickets \in Int
    BY DEF Calm, TypeInv, TypeOK, EventType, TicketOrNull, Tickets, Null
  <2>3. \A s \in Slots : events'[s].ext_data <= tickets'
    BY <2>1, <2>2 DEF BlocksKept
  <2>4. \A u \in Threads, s \in Slots : pc'[u] \in FreshPCs =>
          events'[s].ext_data # ticket'[u]
    <3>1. \A s \in Slots : to \in FreshPCs => events[s].ext_data # ticket'[t]
      BY <2>1, <2>2 DEF BlocksKept
    <3>2. QED  BY <1>1, <2>1, <3>1 DEF BlocksKept
  <2>5. QED  BY <2>1, <2>3, <2>4 DEF BlocksKept
<1>6. QED  BY <1>2, <1>4, <1>5 DEF EventsInv

-----------------------------------------------------------------------------
\* Each step of a log call takes its event to the next stage.
LEMMA TakeKeepsEvents ==
  ASSUME Calm, NEW t \in Threads, LogTakeEvent(t)
  PROVE  EventsInv'
<1> DEFINE s == event[t]
           e == [events[s] EXCEPT !.lock = TRUE]
<1>1. s \in Slots /\ events[s] \in EventType /\ Null \notin heap /\ pc[t] = "log_tas"
  BY Worker DEF LogTakeEvent, Goto
<1>2. \A u \in Threads : ~Works(u, s)
  <2>1. \A u \in Threads : ~Filling(u, s)
    BY <1>1 DEF LogTakeEvent, EventFree, Calm, FillInv, FillersLock
  <2>2. \A u \in Threads : pc[u] \notin ResetPCs
    BY <1>1 DEF Calm, FillInv, ResetAlone, InFlight, FlightPCs
  <2>3. QED  BY <2>1, <2>2 DEF Works, WorkPCs, Filling, ResetPCs
<1>3. Settled(events[s], heap)  BY <1>1, <1>2 DEF Calm, EventsInv
<1>4. /\ e \in EventType /\ e.ext_data = events[s].ext_data
      /\ e.ext_type = events[s].ext_type
      /\ events' = [events EXCEPT ![s] = e]
  BY <1>1 DEF EventType, LogTakeEvent
<1> HIDE DEF e
<1>5. Stage("log_stamp", ticket'[t], ptr'[t], e, heap)
  BY <1>3, <1>4 DEF Stage, Settled, ExtWhole, FillPCs, LogPCs, ResetPCs
<1>6. EventStep(t, "log_tas", "log_stamp", e, heap)
  BY <1>1, <1>2, <1>4, <1>5 DEF EventStep, LogTakeEvent, WorkPCs, FillPCs, LogPCs,
     FreshPCs, history
<1>7. QED  BY <1>6, EventStepKeeps

LEMMA StampKeepsEvents ==
  ASSUME Calm, NEW t \in Threads, LogStamp(t)
  PROVE  EventsInv'
<1> DEFINE s == event[t]
           e == [events[s] EXCEPT !.stamp = ticket[t]]
<1>1. /\ events[s] \in EventType /\ ticket[t] \in TicketOrNull
      /\ pc[t] = "log_stamp"
  BY Worker DEF LogStamp, Goto
<1>2. Stage("log_stamp", ticket[t], ptr[t], events[s], heap)
  BY <1>1, Worker DEF WorkPCs, FillPCs, LogPCs
<1>3. /\ e \in EventType /\ e.ext_data = events[s].ext_data
      /\ e.ext_type = events[s].ext_type /\ e.stamp = ticket[t]
      /\ events' = [events EXCEPT ![s] = e]
  BY <1>1, Worker DEF EventType, LogStamp, TicketOrNull, Calm, TypeInv, TypeOK
<1> HIDE DEF e
<1>4. Stage("log_text", ticket[t], ptr'[t], e, heap)
  BY <1>2, <1>3 DEF Stage, ExtWhole, FillPCs, LogPCs, ResetPCs
<1>5. QED
  BY <1>3, <1>4, TextStep DEF LogStamp, WorkPCs, FillPCs, LogPCs, FreshPCs, history

LEMMA TextKeepsEvents ==
  ASSUME Calm, NEW t \in Threads, LogText(t)
  PROVE  EventsInv'
<1> DEFINE s == event[t]
           e == [events[s] EXCEPT !.message = Null]
<1>1. /\ events[s] \in EventType /\ ticket[t] \in TicketOrNull
      /\ pc[t] = "log_text"
  BY Worker DEF LogText, Goto
<1>2. Stage("log_text", ticket[t], ptr[t], events[s], heap)
  BY <1>1, Worker DEF WorkPCs, FillPCs, LogPCs
<1>3. /\ e \in EventType /\ e.ext_data = events[s].ext_data
      /\ e.ext_type = events[s].ext_type /\ e.stamp = events[s].stamp
      /\ events' = [events EXCEPT ![s] = e]
  BY <1>1, Worker DEF EventType, LogText, TicketOrNull, Calm, TypeInv, TypeOK
<1> HIDE DEF e
<1>4. Stage("log_message", ticket[t], ptr'[t], e, heap)
  BY <1>2, <1>3 DEF Stage, ExtWhole, FillPCs, LogPCs, ResetPCs
<1>5. QED
  BY <1>3, <1>4, TextStep DEF LogText, WorkPCs, FillPCs, LogPCs, FreshPCs, history

LEMMA MessageKeepsEvents ==
  ASSUME Calm, NEW t \in Threads, LogMessage(t)
  PROVE  EventsInv'
<1> DEFINE s == event[t]
           e == [events[s] EXCEPT !.message = ticket[t]]
<1>1. /\ events[s] \in EventType /\ ticket[t] \in TicketOrNull
      /\ pc[t] = "log_message"
  BY Worker DEF LogMessage, Goto
<1>2. Stage("log_message", ticket[t], ptr[t], events[s], heap)
  BY <1>1, Worker DEF WorkPCs, FillPCs, LogPCs
<1>3. /\ e \in EventType /\ e.ext_data = events[s].ext_data
      /\ e.ext_type = events[s].ext_type
      /\ e.stamp = events[s].stamp /\ e.message = ticket[t]
      /\ events' = [events EXCEPT ![s] = e]
  BY <1>1, Worker DEF EventType, LogMessage, Calm, TypeInv, TypeOK
<1> HIDE DEF e
<1>4. Stage("log_ext_check", ticket[t], ptr'[t], e, heap)
  BY <1>2, <1>3 DEF Stage, ExtWhole, Text, FillPCs, LogPCs, ResetPCs
<1>5. QED
  BY <1>3, <1>4, TextStep DEF LogMessage, WorkPCs, FillPCs, LogPCs, FreshPCs, history

LEMMA ExtCheckKeepsEvents ==
  ASSUME Calm, NEW t \in Threads, LogExtCheck(t)
  PROVE  EventsInv'
<1> DEFINE s == event[t]
           e == events[s]
           to == AfterExtCheck(t, e.ext_data)
<1>1. e \in EventType /\ s \in Slots /\ pc[t] = "log_ext_check"
  BY Worker DEF LogExtCheck, Goto
<1>2. Stage("log_ext_check", ticket[t], ptr[t], e, heap)
  BY <1>1, Worker DEF WorkPCs, FillPCs, LogPCs
<1>3. /\ Goto(t, "log_ext_check", to)
      /\ events' = [events EXCEPT ![s] = e]
      /\ UNCHANGED <<heap, event, ticket, tickets>>
      /\ \A u \in Threads : u # t => ptr'[u] = ptr[u]
      /\ to = "log_ext_free" => ptr'[t] = e.ext_data
  BY <1>1 DEF LogExtCheck, Goto, Calm, TypeInv, TypeOK, LockInv, history
<1>4. /\ to = "log_ext_free" => e.ext_data # Null
      /\ to \in {"log_ext_store", "log_used"} => e.ext_data = Null
      /\ to \in {"log_ext_free", "log_ext_store", "log_used"}
  BY DEF AfterExtCheck, AfterOldExt
<1>5. Stage(to, ticket[t], ptr'[t], e, heap)
  <2> HIDE DEF to, e
  <2>1. CASE to = "log_ext_free"
    BY <1>2, <1>3, <1>4, <2>1 DEF Stage, ExtWhole, Text, FillPCs, LogPCs, ResetPCs
  <2>2. CASE to = "log_ext_store"
    BY <1>2, <1>4, <2>2 DEF Stage, ExtWhole, Text, FillPCs, LogPCs, ResetPCs
  <2>3. CASE to = "log_used"
    BY <1>2, <1>4, <2>3 DEF Stage, ExtWhole, Text, FillPCs, LogPCs, ResetPCs
  <2>4. QED  BY <1>4, <2>1, <2>2, <2>3
<1>6. to \in WorkPCs /\ "log_ext_check" \in WorkPCs \cap FreshPCs
  BY <1>4 DEF WorkPCs, FillPCs, LogPCs, FreshPCs
<1> HIDE DEF to
<1>7. QED  BY <1>1, <1>3, <1>5, <1>6, TextStep

LEMMA ExtFreeKeepsEvents ==
  ASSUME Calm, NEW t \in Threads, LogExtFree(t)
  PROVE  EventsInv'
<1> DEFINE s == event[t]
           e == events[s]
           H == heap \ {ptr[t]}
<1>1. e \in EventType /\ s \in Slots /\ pc[t] = "log_ext_free" /\ Null \notin heap
  BY Worker DEF LogExtFree, Goto
<1>2. Stage("log_ext_free", ticket[t], ptr[t], e, heap)
  BY <1>1, Worker DEF WorkPCs, FillPCs, LogPCs
<1>3. /\ Goto(t, "log_ext_free", "log_ext_clear")
      /\ events' = [events EXCEPT ![s] = e] /\ heap' = H
      /\ UNCHANGED <<event, ticket, tickets, ptr>>
  BY <1>1 DEF LogExtFree, Calm, TypeInv, TypeOK, history
<1>4. ptr[t] = e.ext_data /\ ptr[t] # Null /\ Text(e, ticket[t])
  BY <1>2 DEF Stage, FillPCs, LogPCs
<1>5. /\ Null \notin H /\ H \subseteq heap \cup {e.ext_data}
      /\ heap \subseteq H \cup {e.ext_data} /\ e.ext_data \notin H
  BY <1>1, <1>4
<1>6. Stage("log_ext_clear", ticket[t], ptr'[t], e, H)
  BY <1>3, <1>4, <1>5 DEF Stage, FillPCs, LogPCs, ResetPCs
<1>7. {"log_ext_free", "log_ext_clear"} \subseteq WorkPCs \cap FreshPCs
  BY DEF WorkPCs, FillPCs, LogPCs, FreshPCs
<1> HIDE DEF H
<1>8. QED  BY <1>1, <1>3, <1>5, <1>6, <1>7, WorkStep

\* What is left of an event without its extended data.
LEMMA ExtGone ==
  ASSUME TypeOK, NEW s \in Slots
  PROVE  \E e \in EventType :
           /\ WithoutExt(s) = [events EXCEPT ![s] = e]
           /\ e.ext_data = Null /\ ~e.ext_type /\ e.used = events[s].used
           /\ e.stamp = events[s].stamp /\ e.message = events[s].message
<1> DEFINE e == [events[s] EXCEPT !.ext_data = Null, !.ext_type = FALSE]
<1>1. events \in [Slots -> EventType] /\ events[s] \in EventType  BY DEF TypeOK
<1>2. e \in EventType /\ e.ext_data = Null /\ ~e.ext_type
  BY <1>1 DEF EventType, TicketOrNull
<1>3. e.used = events[s].used /\ e.stamp = events[s].stamp
      /\ e.message = events[s].message
  BY <1>1 DEF EventType
<1>4. WithoutExt(s) = [events EXCEPT ![s] = e]  BY <1>1 DEF WithoutExt, EventType
<1> HIDE DEF e
<1>5. QED  BY <1>2, <1>3, <1>4

LEMMA ExtClearKeepsEvents ==
  ASSUME Calm, NEW t \in Threads, LogExtClear(t)
  PROVE  EventsInv'
<1> DEFINE s == event[t]
           old == events[s].ext_data
           to == AfterOldExt(t)
<1>1. s \in Slots /\ pc[t] = "log_ext_clear" /\ Null \notin heap /\ TypeOK
  BY Worker DEF LogExtClear, Goto, Calm, TypeInv
<1>2. Stage("log_ext_clear", ticket[t], ptr[t], events[s], heap)
  BY <1>1, Worker DEF WorkPCs, FillPCs, LogPCs
<1>3. old \notin heap /\ Text(events[s], ticket[t])
  BY <1>2 DEF Stage, FillPCs, LogPCs
<1>4. PICK e \in EventType :
        /\ WithoutExt(s) = [events EXCEPT ![s] = e]
        /\ e.ext_data = Null /\ ~e.ext_type
        /\ e.stamp = events[s].stamp /\ e.message = events[s].message
  BY <1>1, ExtGone
<1>5. /\ Goto(t, "log_ext_clear", to)
      /\ events' = [events EXCEPT ![s] = e]
      /\ UNCHANGED <<heap, event, ticket, tickets>>
      /\ \A u \in Threads : u # t => ptr'[u] = ptr[u]
  BY <1>4 DEF LogExtClear, Calm, TypeInv, TypeOK, history
<1>6. to \in {"log_ext_store", "log_used"}  BY DEF AfterOldExt
<1>7. Stage(to, ticket[t], ptr'[t], e, heap)
  <2> HIDE DEF to
  <2>1. Text(e, ticket[t])  BY <1>3, <1>4 DEF Text
  <2>2. QED
    BY <1>4, <1>6, <2>1 DEF Stage, ExtWhole, FillPCs, LogPCs, ResetPCs
<1>8. to \in WorkPCs /\ "log_ext_clear" \in WorkPCs \cap FreshPCs
  BY <1>6 DEF WorkPCs, FillPCs, LogPCs, FreshPCs
<1> HIDE DEF to
<1>9. heap \subseteq heap \cup {e.ext_data} /\ heap \subseteq heap \cup {old}
  OBVIOUS
<1>10. QED  BY <1>1, <1>3, <1>4, <1>5, <1>7, <1>8, <1>9, WorkStep

LEMMA ExtStoreKeepsEvents ==
  ASSUME Calm, NEW t \in Threads, LogExtStore(t)
  PROVE  EventsInv'
<1> DEFINE s == event[t]
           e == [events[s] EXCEPT !.ext_data = ticket[t]]
           H == heap \cup {ticket[t]}
<1>1. /\ events[s] \in EventType /\ ticket[t] \in TicketOrNull /\ s \in Slots
      /\ pc[t] = "log_ext_store" /\ Null \notin heap
  BY Worker DEF LogExtStore, Goto
<1>2. Stage("log_ext_store", ticket[t], ptr[t], events[s], heap)
  BY <1>1, Worker DEF WorkPCs, FillPCs, LogPCs
<1>3. ticket[t] # Null
  BY <1>1 DEF Calm, TypeInv, FlightTicket, InFlight, FlightPCs, FillPCs, LogPCs
<1>4. /\ e \in EventType /\ e.ext_data = ticket[t] /\ e.ext_type = events[s].ext_type
      /\ e.stamp = events[s].stamp /\ e.message = events[s].message
      /\ events' = [events EXCEPT ![s] = e]
  BY <1>1 DEF EventType, LogExtStore, Calm, TypeInv, TypeOK
<1>5. /\ events[s].ext_data = Null /\ ~events[s].ext_type
      /\ Text(events[s], ticket[t])
  BY <1>2 DEF Stage, FillPCs, LogPCs
<1> HIDE DEF e
<1>6. Text(e, ticket[t])  BY <1>4, <1>5 DEF Text
<1>7. Stage("log_ext_publish", ticket[t], ptr'[t], e, H)
  BY <1>4, <1>5, <1>6 DEF Stage, FillPCs, LogPCs, ResetPCs
<1>8. /\ Null \notin H /\ H \subseteq heap \cup {e.ext_data}
      /\ heap \subseteq H \cup {events[s].ext_data} /\ events[s].ext_data \notin H
  BY <1>1, <1>3, <1>4, <1>5
<1>9. /\ Goto(t, "log_ext_store", "log_ext_publish") /\ heap' = H
      /\ UNCHANGED <<event, ticket, tickets, ptr>>
  BY DEF LogExtStore, history
<1>10. {"log_ext_store", "log_ext_publish"} \subseteq WorkPCs
       /\ "log_ext_publish" \notin FreshPCs
  BY DEF WorkPCs, FillPCs, LogPCs, FreshPCs
<1> HIDE DEF H
<1>11. QED  BY <1>4, <1>7, <1>8, <1>9, <1>10, WorkStep

LEMMA ExtPublishKeepsEvents ==
  ASSUME Calm, NEW t \in Threads, LogExtPublish(t)
  PROVE  EventsInv'
<1> DEFINE s == event[t]
           e == [events[s] EXCEPT !.ext_type = TRUE]
<1>1. /\ events[s] \in EventType /\ s \in Slots /\ pc[t] = "log_ext_publish"
      /\ Null \notin heap
  BY Worker DEF LogExtPublish, Goto
<1>2. Stage("log_ext_publish", ticket[t], ptr[t], events[s], heap)
  BY <1>1, Worker DEF WorkPCs, FillPCs, LogPCs
<1>3. /\ e \in EventType /\ e.ext_data = events[s].ext_data /\ e.ext_type
      /\ e.stamp = events[s].stamp /\ e.message = events[s].message
      /\ events' = [events EXCEPT ![s] = e]
  BY <1>1 DEF EventType, LogExtPublish, Calm, TypeInv, TypeOK
<1>4. /\ events[s].ext_data = ticket[t] /\ ticket[t] \in heap
      /\ Text(events[s], ticket[t])
  BY <1>2 DEF Stage, FillPCs, LogPCs
<1> HIDE DEF e
<1>5. Text(e, ticket[t])  BY <1>3, <1>4 DEF Text
<1>6. Stage("log_used", ticket[t], ptr'[t], e, heap)
  BY <1>1, <1>3, <1>4, <1>5 DEF Stage, ExtWhole, FillPCs, LogPCs, ResetPCs
<1>7. QED
  BY <1>3, <1>6, TextStep DEF LogExtPublish, WorkPCs, FillPCs, LogPCs, FreshPCs, history

LEMMA UsedKeepsEvents ==
  ASSUME Calm, NEW t \in Threads, LogUsed(t)
  PROVE  EventsInv'
<1> DEFINE s == event[t]
           e == [events[s] EXCEPT !.used = TRUE]
<1>1. events[s] \in EventType /\ s \in Slots /\ pc[t] = "log_used"
  BY Worker DEF LogUsed, Goto
<1>2. Stage("log_used", ticket[t], ptr[t], events[s], heap)
  BY <1>1, Worker DEF WorkPCs, FillPCs, LogPCs
<1>3. /\ e \in EventType /\ e.ext_data = events[s].ext_data
      /\ e.ext_type = events[s].ext_type /\ e.used
      /\ e.stamp = events[s].stamp /\ e.message = events[s].message
      /\ events' = [events EXCEPT ![s] = e]
  BY <1>1 DEF EventType, LogUsed, Calm, TypeInv, TypeOK
<1>4. /\ events[s].ext_data \in {Null, ticket[t]} /\ ExtWhole(events[s], heap)
      /\ Text(events[s], ticket[t])
  BY <1>2 DEF Stage, FillPCs, LogPCs
<1> HIDE DEF e
<1>5. Text(e, ticket[t]) /\ ExtWhole(e, heap)
  BY <1>3, <1>4 DEF Text, ExtWhole
<1>6. Stage("log_unlock", ticket[t], ptr'[t], e, heap)
  BY <1>3, <1>4, <1>5 DEF Stage, FillPCs, LogPCs, ResetPCs
<1>7. QED
  BY <1>3, <1>6, TextStep DEF LogUsed, WorkPCs, FillPCs, LogPCs, FreshPCs, history

\* What the call leaves is whole.
LEMMA UnlockKeepsEvents ==
  ASSUME Calm, NEW t \in Threads, LogUnlock(t)
  PROVE  EventsInv'
<1> DEFINE s == event[t]
           e == [events[s] EXCEPT !.lock = FALSE]
<1>1. /\ events[s] \in EventType /\ s \in Slots /\ pc[t] = "log_unlock"
      /\ Null \notin heap
  BY Worker DEF LogUnlock, Goto
<1>2. /\ Stage("log_unlock", ticket[t], ptr[t], events[s], heap)
      /\ \A u \in Threads : u # t => ~Works(u, s)
  BY <1>1, Worker DEF WorkPCs, FillPCs, LogPCs
<1>3. /\ e \in EventType /\ e.ext_data = events[s].ext_data
      /\ e.ext_type = events[s].ext_type /\ e.used = events[s].used
      /\ e.stamp = events[s].stamp /\ e.message = events[s].message
      /\ events' = [events EXCEPT ![s] = e]
  BY <1>1 DEF EventType, LogUnlock, Released, Calm, TypeInv, TypeOK
<1>4. /\ events[s].ext_data \in {Null, ticket[t]} /\ ExtWhole(events[s], heap)
      /\ Text(events[s], ticket[t]) /\ events[s].used
  BY <1>2 DEF Stage, FillPCs, LogPCs
<1>5. ticket[t] # Null
  BY <1>1 DEF Calm, TypeInv, FlightTicket, InFlight, FlightPCs, FillPCs, LogPCs
<1> HIDE DEF e
<1>6. Settled(e, heap)
  BY <1>3, <1>4, <1>5 DEF Settled, ExtWhole, Text
<1>7. \A u \in Threads : u # t =>
        event'[u] = event[u] /\ ticket'[u] = ticket[u] /\ ptr'[u] = ptr[u]
  BY DEF LogUnlock, Calm, TypeInv, TypeOK
<1>8. "idle" \notin WorkPCs \cup FreshPCs
  BY DEF WorkPCs, FillPCs, LogPCs, FreshPCs
<1>9. /\ Goto(t, "log_unlock", "idle") /\ heap' = heap /\ tickets' = tickets
  BY DEF LogUnlock, history
<1>10. EventStep(t, "log_unlock", "idle", e, heap)
  BY <1>1, <1>2, <1>3, <1>6, <1>7, <1>8, <1>9 DEF EventStep
<1>11. QED  BY <1>10, EventStepKeeps

-----------------------------------------------------------------------------
\* The steps of a reset.
LEMMA ResetFieldsKeepsEvents ==
  ASSUME Calm, NEW t \in Threads, ResetFields(t)
  PROVE  EventsInv'
<1> DEFINE s == event[t]
           e == [events[s] EXCEPT !.stamp = Null, !.message = Null, !.lock = FALSE]
<1>1. s \in Slots /\ events[s] \in EventType /\ Null \notin heap /\ pc[t] = "reset_fields"
  BY Worker DEF ResetFields, Goto
<1>2. \A u \in Threads : ~Works(u, s)
  <2>1. \A u \in Threads : pc[u] \notin FillPCs
    BY <1>1 DEF Calm, FillInv, ResetAlone, InFlight, FlightPCs, ResetPCs
  <2>2. \A u \in Threads : pc[u] \in ResetPCs => u = t
    BY <1>1 DEF Calm, TypeInv, LockInv, BufferLockExclusive, HoldPCs, ResetPCs
  <2>3. QED  BY <1>1, <2>1, <2>2 DEF Works, WorkPCs, ResetPCs
<1>3. Settled(events[s], heap)  BY <1>1, <1>2 DEF Calm, EventsInv
<1>4. /\ e \in EventType /\ e.ext_data = events[s].ext_data
      /\ e.ext_type = events[s].ext_type /\ e.stamp = Null /\ e.message = Null
      /\ events' = [events EXCEPT ![s] = e]
  BY <1>1 DEF EventType, ResetFields, TicketOrNull, Calm, TypeInv, TypeOK
<1> HIDE DEF e
<1>5. Stage("reset_used", ticket'[t], ptr'[t], e, heap)
  BY <1>3, <1>4 DEF Stage, Settled, ExtWhole, Text, FillPCs, LogPCs
<1>6. "reset_used" \in WorkPCs /\ "reset_used" \notin FreshPCs
  BY DEF WorkPCs, FreshPCs
<1>7. /\ Goto(t, "reset_fields", "reset_used")
      /\ UNCHANGED <<heap, event, ticket, ptr, tickets>>
  BY DEF ResetFields, history
<1>8. EventStep(t, "reset_fields", "reset_used", e, heap)
  BY <1>1, <1>2, <1>4, <1>5, <1>6, <1>7 DEF EventStep
<1>9. QED  BY <1>8, EventStepKeeps

LEMMA ResetUsedKeepsEvents ==
  ASSUME Calm, NEW t \in Threads, ResetUsed(t)
  PROVE  EventsInv'
<1> DEFINE s == event[t]
           e == [events[s] EXCEPT !.used = FALSE]
           to == AfterReset(s)
<1>1. /\ events[s] \in EventType /\ s \in Slots /\ pc[t] = "reset_used"
      /\ Null \notin heap
  BY Worker DEF ResetUsed, Goto
<1>2. Stage("reset_used", ticket[t], ptr[t], events[s], heap)
  BY <1>1, Worker DEF WorkPCs
<1>3. /\ e \in EventType /\ e.ext_data = events[s].ext_data
      /\ e.ext_type = events[s].ext_type /\ ~e.used
      /\ e.stamp = events[s].stamp /\ e.message = events[s].message
      /\ events' = [events EXCEPT ![s] = e]
  BY <1>1 DEF EventType, ResetUsed, Unused, Calm, TypeInv, TypeOK
<1>4. ExtWhole(events[s], heap) /\ Text(events[s], Null)
  BY <1>2 DEF Stage, ResetPCs
<1>5. /\ Goto(t, "reset_used", to)
      /\ UNCHANGED <<heap, event, ticket, tickets>>
      /\ ptr'[t] = e.ext_data
      /\ \A u \in Threads : u # t => ptr'[u] = ptr[u]
  BY <1>3 DEF ResetUsed, Calm, TypeInv, TypeOK, history
<1>6. /\ to \in {"reset_free", "reset_ext"}
      /\ to = "reset_free" <=> e.ext_data # Null
  BY <1>3 DEF AfterReset
<1> HIDE DEF e, to
<1>7. ExtWhole(e, heap) /\ Text(e, Null)
  BY <1>3, <1>4 DEF Text, ExtWhole
<1>8. Stage(to, ticket[t], ptr'[t], e, heap)
  <2>1. CASE to = "reset_free"
    BY <1>3, <1>5, <1>6, <1>7, <2>1 DEF Stage, ExtWhole, FillPCs, LogPCs
  <2>2. CASE to = "reset_ext"
    BY <1>1, <1>3, <1>5, <1>6, <1>7, <2>2 DEF Stage, FillPCs, LogPCs
  <2>3. QED  BY <1>6, <2>1, <2>2
<1>9. {to, "reset_used"} \subseteq WorkPCs /\ to \notin FreshPCs
  BY <1>6 DEF WorkPCs, FreshPCs
<1>10. QED  BY <1>3, <1>5, <1>8, <1>9, TextStep

LEMMA ResetFreeKeepsEvents ==
  ASSUME Calm, NEW t \in Threads, ResetFree(t)
  PROVE  EventsInv'
<1> DEFINE s == event[t]
           e == events[s]
           H == heap \ {ptr[t]}
<1>1. e \in EventType /\ s \in Slots /\ pc[t] = "reset_free" /\ Null \notin heap
  BY Worker DEF ResetFree, Goto
<1>2. Stage("reset_free", ticket[t], ptr[t], e, heap)
  BY <1>1, Worker DEF WorkPCs
<1>3. /\ Goto(t, "reset_free", "reset_ext")
      /\ events' = [events EXCEPT ![s] = e] /\ heap' = H
      /\ UNCHANGED <<event, ticket, tickets, ptr>>
  BY <1>1 DEF ResetFree, Calm, TypeInv, TypeOK, history
<1>4. ptr[t] = e.ext_data /\ ptr[t] # Null /\ Text(e, Null) /\ ~e.used
  BY <1>2 DEF Stage, ResetPCs
<1>5. /\ Null \notin H /\ H \subseteq heap \cup {e.ext_data}
      /\ heap \subseteq H \cup {e.ext_data} /\ e.ext_data \notin H
  BY <1>1, <1>4
<1>6. Stage("reset_ext", ticket[t], ptr'[t], e, H)
  BY <1>3, <1>4, <1>5 DEF Stage, FillPCs, LogPCs
<1>7. {"reset_free", "reset_ext"} \subseteq WorkPCs /\ "reset_ext" \notin FreshPCs
  BY DEF WorkPCs, FreshPCs
<1> HIDE DEF H
<1>8. QED  BY <1>1, <1>3, <1>5, <1>6, <1>7, WorkStep

\* What the reset leaves is empty.
LEMMA ResetExtKeepsEvents ==
  ASSUME Calm, NEW t \in Threads, ResetExt(t)
  PROVE  EventsInv'
<1> DEFINE s == event[t]
           old == events[s].ext_data
           to == IF Succ(s) = head THEN "reset_done" ELSE "reset_fields"
<1>1. s \in Slots /\ events[s] \in EventType /\ pc[t] = "reset_ext" /\ Null \notin heap
      /\ TypeOK
  BY Worker DEF ResetExt, Goto, Calm, TypeInv
<1>2. /\ Stage("reset_ext", ticket[t], ptr[t], events[s], heap)
      /\ \A u \in Threads : u # t => ~Works(u, s)
  BY <1>1, Worker DEF WorkPCs
<1>3. ptr[t] = old /\ old \notin heap /\ Text(events[s], Null) /\ ~events[s].used
  BY <1>2 DEF Stage, ResetPCs
<1>4. PICK e \in EventType :
        /\ events' = [events EXCEPT ![s] = e]
        /\ e.ext_data = Null /\ ~e.ext_type /\ e.used = events[s].used
        /\ e.stamp = events[s].stamp /\ e.message = events[s].message
  <2>1. CASE ptr[t] # Null
    BY <1>1, <2>1, ExtGone DEF ResetExt, NulledExt
  <2>2. CASE ptr[t] = Null
    <3> DEFINE e == [events[s] EXCEPT !.ext_type = FALSE]
    <3>1. /\ e \in EventType /\ e.ext_data = old /\ ~e.ext_type
          /\ e.used = events[s].used
          /\ e.stamp = events[s].stamp /\ e.message = events[s].message
          /\ events' = [events EXCEPT ![s] = e]
      BY <1>1, <2>2 DEF EventType, ResetExt, NulledExt, TypeOK
    <3> HIDE DEF e
    <3>2. QED  BY <1>3, <2>2, <3>1
  <2>3. QED  BY <2>1, <2>2
<1>5. Settled(e, heap)
  BY <1>3, <1>4 DEF Settled, ExtWhole, Text
<1>6. /\ Goto(t, "reset_ext", to) /\ heap' = heap /\ tickets' = tickets
      /\ \A u \in Threads : u # t =>
           event'[u] = event[u] /\ ticket'[u] = ticket[u] /\ ptr'[u] = ptr[u]
  BY DEF ResetExt, Calm, TypeInv, TypeOK, history
<1>7. to \notin WorkPCs \cup FreshPCs  BY DEF WorkPCs, FillPCs, LogPCs, FreshPCs
<1> HIDE DEF to
<1>8. EventStep(t, "reset_ext", to, e, heap)
  BY <1>1, <1>2, <1>3, <1>4, <1>5, <1>6, <1>7 DEF EventStep
<1>9. QED  BY <1>8, EventStepKeeps

-----------------------------------------------------------------------------
LEMMA EventsStep ==
  ASSUME Calm, [Next]_vars
  PROVE  EventsInv'
<1> USE IdleStep DEF WorkPCs, FillPCs, LogPCs, FreshPCs, history
<1>t. /\ event \in [Threads -> Slots] /\ ticket \in [Threads -> TicketOrNull]
      /\ ptr \in [Threads -> TicketOrNull] /\ tickets \in Int
  BY DEF Calm, TypeInv, TypeOK
<1>1. ASSUME NEW t \in Threads, LogStep(t) PROVE EventsInv'
  <2>1. CASE LogRead(t)        BY <2>1, <1>t DEF LogRead
  <2>2. CASE LogAdvance(t)     BY <2>2, <1>t DEF LogAdvance
  <2>3. CASE LogDrop(t)        BY <2>3, <1>t DEF LogDrop
  <2>4. CASE LogTakeEvent(t)   BY <2>4, TakeKeepsEvents
  <2>4a. CASE LogStamp(t)      BY <2>4a, StampKeepsEvents
  <2>5. CASE LogText(t)        BY <2>5, TextKeepsEvents
  <2>6. CASE LogMessage(t)     BY <2>6, MessageKeepsEvents
  <2>7. CASE LogExtCheck(t)    BY <2>7, ExtCheckKeepsEvents
  <2>8. CASE LogExtFree(t)     BY <2>8, ExtFreeKeepsEvents
  <2>9. CASE LogExtClear(t)    BY <2>9, ExtClearKeepsEvents
  <2>10. CASE LogExtStore(t)   BY <2>10, ExtStoreKeepsEvents
  <2>11. CASE LogExtPublish(t) BY <2>11, ExtPublishKeepsEvents
  <2>12. CASE LogUsed(t)       BY <2>12, UsedKeepsEvents
  <2>13. CASE LogUnlock(t)     BY <2>13, UnlockKeepsEvents
  <2>14. QED
    BY <1>1, <2>1, <2>2, <2>3, <2>4, <2>4a, <2>5, <2>6, <2>7, <2>8, <2>9, <2>10,
       <2>11, <2>12, <2>13 DEF LogStep
<1>2. ASSUME NEW t \in Threads, PrintStep(t) PROVE EventsInv'
  <2>1. CASE PrintStop(t)      BY <2>1, <1>t DEF PrintStop
  <2>2. CASE PrintEvent(t)     BY <2>2, <1>t DEF PrintEvent
  <2>3. CASE PrintMessage(t)
    <3>1. PICK to \in {"print_ext", "print_unlock", "print_event"} :
            Goto(t, "print_message", to)
      BY <2>3 DEF PrintMessage, PrintNext
    <3>2. /\ UNCHANGED <<events, heap, ticket, tickets>>
          /\ \A u \in Threads : u # t => event'[u] = event[u] /\ ptr'[u] = ptr[u]
      BY <2>3, <1>t DEF PrintMessage, PrintNext
    <3>3. QED  BY <1>t, <3>1, <3>2
  <2>4. CASE PrintExt(t)       BY <2>4, <1>t DEF PrintExt, PrintNext
  <2>5. CASE PrintUnlock(t)    BY <2>5, <1>t DEF PrintUnlock
  <2>6. QED  BY <1>2, <2>1, <2>2, <2>3, <2>4, <2>5 DEF PrintStep
<1>3. ASSUME NEW t \in Threads, ResetStep(t) PROVE EventsInv'
  <2>1. CASE ResetFields(t)    BY <2>1, ResetFieldsKeepsEvents
  <2>2. CASE ResetUsed(t)      BY <2>2, ResetUsedKeepsEvents
  <2>3. CASE ResetFree(t)      BY <2>3, ResetFreeKeepsEvents
  <2>4. CASE ResetExt(t)       BY <2>4, ResetExtKeepsEvents
  <2>5. CASE ResetDone(t)      BY <2>5, <1>t DEF ResetDone
  <2>6. QED  BY <1>3, <2>1, <2>2, <2>3, <2>4, <2>5 DEF ResetStep
<1>4. ASSUME NEW t \in Writers, NEW x \in ExtChoices, LogLock(t, x) PROVE EventsInv'
  BY <1>4, <1>t DEF LogLock, Threads
<1>5. ASSUME NEW t \in Readers, NEW a \in DumpChoices, PrintLock(t, a) PROVE EventsInv'
  BY <1>5, <1>t DEF PrintLock, Threads
<1>6. ASSUME NEW t \in Resetters, ResetLock(t) PROVE EventsInv'
  BY <1>6, <1>t DEF ResetLock, Threads
<1>7. CASE UNCHANGED vars
  <2>1. /\ UNCHANGED <<events, heap, pc, event, ptr, ticket, tickets>>
        /\ EventsInv
    BY <1>7 DEF vars, Calm
  <2>2. BlocksKept'  BY <2>1 DEF EventsInv, BlocksKept
  <2>3. \A t \in Threads, r \in Slots : Works(t, r)' <=> Works(t, r)
    BY <2>1 DEF Works
  <2>4. QED  BY <2>1, <2>2, <2>3 DEF EventsInv
<1>8. QED
  BY <1>1, <1>2, <1>3, <1>4, <1>5, <1>6, <1>7 DEF Next, CallStep

LEMMA InitEvents == Init => EventsInv
<1> SUFFICES ASSUME Init PROVE EventsInv  OBVIOUS
<1>1. \A t \in Threads : pc[t] \notin WorkPCs \cup FreshPCs
  BY DEF Init, WorkPCs, FillPCs, LogPCs, FreshPCs
<1>2. \A s \in Slots : events[s] = EmptyEvent /\ Settled(events[s], heap)
  BY DEF Init, EmptyEvent, Settled, ExtWhole, Text
<1>3. BlocksKept
  BY <1>1, <1>2 DEF Init, BlocksKept, EmptyEvent, Null
<1>4. QED  BY <1>1, <1>2, <1>3 DEF EventsInv

\* Once a reset has disturbed a log call, the history stays disturbed.
LEMMA DisturbedStays == TypeInv /\ disturbed /\ [Next]_vars => disturbed'
<1> SUFFICES ASSUME disturbed, [Next]_vars PROVE disturbed'  OBVIOUS
<1> USE DEF history
<1>1. ASSUME NEW t \in Threads, LogStep(t) PROVE disturbed'
  BY <1>1 DEF LogStep, LogRead, LogAdvance, LogDrop, LogTakeEvent, LogStamp, LogText, LogMessage,
     LogExtCheck, LogExtFree, LogExtClear, LogExtStore, LogExtPublish, LogUsed, LogUnlock
<1>2. ASSUME NEW t \in Threads, PrintStep(t) PROVE disturbed'
  BY <1>2 DEF PrintStep, PrintStop, PrintEvent, PrintMessage, PrintExt, PrintUnlock
<1>3. ASSUME NEW t \in Threads, ResetStep(t) PROVE disturbed'
  BY <1>3 DEF ResetStep, ResetFields, ResetUsed, ResetFree, ResetExt, ResetDone
<1>4. CASE UNCHANGED vars  BY <1>4 DEF vars
<1>5. QED
  BY <1>1, <1>2, <1>3, <1>4 DEF Next, CallStep, LogLock, PrintLock, ResetLock

LEMMA EventsAlways == Spec => [](disturbed \/ EventsInv)
<1> DEFINE Inv == TypeInv /\ FillInv /\ FlightInv /\ (disturbed \/ EventsInv)
<1>1. Init => Inv  BY InitTypeInv, InitFillInv, InitFlight, InitEvents
<1>2. Inv /\ [Next]_vars => Inv'
  <2> SUFFICES ASSUME Inv, [Next]_vars PROVE Inv'  OBVIOUS
  <2>1. TypeInv' /\ FillInv' /\ FlightInv'
    BY TypeInvStep, FillInvStep, FlightStep
  <2>2. disturbed' \/ EventsInv'
    <3>1. CASE disturbed  BY <3>1, DisturbedStays
    <3>2. CASE ~disturbed  BY <3>2, EventsStep DEF Calm
    <3>3. QED  BY <3>1, <3>2
  <2>3. QED  BY <2>1, <2>2
<1>3. QED  BY <1>1, <1>2, PTL DEF Spec

\* However many calls lap the ring, a used event whose flag is clear holds one
\* whole message with its own extended data or none, unless a reset began
\* while a log call was in flight.
THEOREM UnlockedEventsWhole == Spec => []UnlockedEventWhole
<1>1. TypeInv /\ FillInv /\ FlightInv /\ (disturbed \/ EventsInv) => UnlockedEventWhole
  <2> SUFFICES ASSUME Calm, NEW s \in Slots, events[s].used, ~events[s].lock,
                      \A t \in Threads : ~Resetting(t, s)
               PROVE  /\ events[s].message # Null /\ events[s].stamp = events[s].message
                      /\ events[s].ext_type <=> events[s].ext_data # Null
                      /\ events[s].ext_data \in {Null, events[s].message}
    BY DEF UnlockedEventWhole, Calm
  <2>1. \A t \in Threads : ~Filling(t, s)
    BY DEF Calm, FillInv, FillersLock
  <2>2. \A t \in Threads : ~Works(t, s)
    BY <2>1 DEF Works, WorkPCs, Filling, Resetting, ResetPCs
  <2>3. Settled(events[s], heap)  BY <2>2 DEF Calm, EventsInv
  <2>4. QED  BY <2>3 DEF Settled, ExtWhole, Text
<1>2. Spec => []TypeInv  BY InitTypeInv, TypeInvStep, PTL DEF Spec
<1>3. QED  BY FillInvAlways, FlightAlways, EventsAlways, <1>1, <1>2, PTL

\* No log call and no reset frees a block twice, whichever calls lap the ring,
\* unless a reset began while a log call was in flight.
THEOREM BlocksFreedOnce == Spec => []NoDoubleFree
<1>1. TypeInv /\ (disturbed \/ EventsInv) => NoDoubleFree
  BY DEF NoDoubleFree, EventsInv, Stage, WorkPCs, FillPCs, LogPCs
<1>2. Spec => []TypeInv  BY InitTypeInv, TypeInvStep, PTL DEF Spec
<1>3. QED  BY EventsAlways, <1>1, <1>2, PTL

\* Every block that a log call allocated is reachable through an event until it
\* is freed, unless a reset began while a log call was in flight.
THEOREM BlocksReachable == Spec => []NoLeak
<1>1. disturbed \/ EventsInv => NoLeak
  BY DEF NoLeak, EventsInv, BlocksKept
<1>2. QED  BY EventsAlways, <1>1, PTL

=============================================================================
