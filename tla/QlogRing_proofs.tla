---------------------------- MODULE QlogRing_proofs ----------------------------
(***************************************************************************)
(* A QlogBuffer that nobody resets implements EventRing, for every ring    *)
(* size and every set of threads.                                          *)
(***************************************************************************)
EXTENDS QlogEvents_proofs

\* Without resetters no history is disturbed and no event is reset.
NoReset == ~disturbed /\ \A t \in Threads : pc[t] \notin ResetPCs

\* The call that is about to move next_write on is alone inside the lock.
RingCalm == Calm /\ NoReset /\ CursorHeld

LEMMA NoResetStep ==
  ASSUME Resetters = {}, TypeInv, NoReset, [Next]_vars
  PROVE  NoReset'
<1>1. \A t \in Threads : ~ResetStep(t)
  BY DEF NoReset, ResetStep, ResetFields, ResetUsed, ResetFree, ResetExt, ResetDone,
     Goto, ResetPCs
<1> USE DEF NoReset, TypeInv, LockInv, Goto, ResetPCs, history
<1>2. ASSUME NEW t \in Threads, LogStep(t) PROVE NoReset'
  BY <1>2 DEF LogStep, LogRead, LogAdvance, LogDrop, LogTakeEvent, LogStamp, LogText,
     LogMessage, LogExtCheck, AfterExtCheck, AfterOldExt, LogExtFree, LogExtClear,
     LogExtStore, LogExtPublish, LogUsed, LogUnlock
<1>3. ASSUME NEW t \in Threads, PrintStep(t) PROVE NoReset'
  BY <1>3 DEF PrintStep, PrintStop, PrintEvent, PrintMessage, PrintExt, PrintNext,
     PrintUnlock
<1>4. ASSUME NEW t \in Writers, NEW x \in ExtChoices, LogLock(t, x) PROVE NoReset'
  BY <1>4 DEF LogLock, Threads
<1>5. ASSUME NEW t \in Readers, NEW a \in DumpChoices, PrintLock(t, a) PROVE NoReset'
  BY <1>5 DEF PrintLock, Threads
<1>6. CASE UNCHANGED vars  BY <1>6 DEF vars
<1>7. QED  BY <1>1, <1>2, <1>3, <1>4, <1>5, <1>6 DEF Next, CallStep

-----------------------------------------------------------------------------
(***************************************************************************)
(* What a step leaves of the refinement mapping.                           *)
(***************************************************************************)
LEMMA FillerIs ==
  ASSUME OneFiller, NEW t \in Threads, NEW s \in Slots, Filling(t, s), events[s].lock
  PROVE  FillerOf(s) = ticket[t]
<1>1. \A u \in Threads : Filling(u, s) => u = t  BY DEF OneFiller
<1>2. QED  BY <1>1 DEF FillerOf

LEMMA FillerIsNext ==
  ASSUME OneFiller', NEW t \in Threads, NEW s \in Slots, Filling(t, s)', events'[s].lock
  PROVE  FillerOf(s)' = ticket'[t]
<1>1. \A u \in Threads : Filling(u, s)' => u = t  BY DEF OneFiller
<1>2. QED  BY <1>1 DEF FillerOf

\* An event keeps its cell while it keeps its filler and what a reader of the
\* promise can see of it.
LEMMA CellStays ==
  ASSUME OneFiller, OneFiller', NoOrphanLock, NEW s \in Slots,
         \A u \in Threads : Filling(u, s)' <=> Filling(u, s),
         \A u \in Threads : Filling(u, s) => ticket'[u] = ticket[u],
         events'[s].lock = events[s].lock,
         events[s].lock \/ events'[s] = events[s]
  PROVE  FillerOf(s)' = FillerOf(s) /\ HeldBy(s)' = HeldBy(s)
<1>1. HeldBy(s)' = HeldBy(s)  BY DEF HeldBy
<1>2. CASE ~events[s].lock  BY <1>1, <1>2 DEF FillerOf
<1>3. CASE events[s].lock
  <2>1. PICK t \in Threads : Filling(t, s)  BY <1>3 DEF NoOrphanLock
  <2>2. FillerOf(s) = ticket[t]  BY <1>3, <2>1, FillerIs
  <2>3. FillerOf(s)' = ticket'[t]  BY <1>3, <2>1, FillerIsNext
  <2>4. QED  BY <1>1, <2>1, <2>2, <2>3
<1>4. QED  BY <1>2, <1>3

\* A step that changes at most t's event, and that one only while it stays
\* locked, changes no cell.
LEMMA CellsStay ==
  ASSUME Calm, FillInv', ~disturbed', NEW t \in Threads, NEW from, NEW to,
         Goto(t, from, to),
         \A u \in Threads : u # t => event'[u] = event[u] /\ ticket'[u] = ticket[u],
         from \in FillPCs <=> to \in FillPCs,
         to \in FillPCs =>
           /\ event'[t] = event[t] /\ ticket'[t] = ticket[t]
           /\ \A s \in Slots : s # event[t] => events'[s] = events[s]
           /\ events'[event[t]].lock = events[event[t]].lock,
         to \notin FillPCs => UNCHANGED events
  PROVE  Cells' = Cells
<1>1. /\ pc[t] = from /\ pc'[t] = to /\ \A u \in Threads : u # t => pc'[u] = pc[u]
  BY DEF Goto, Calm, TypeInv, LockInv
<1>2. OneFiller /\ OneFiller' /\ NoOrphanLock /\ FillersLock
  BY DEF Calm, FillInv
<1>3. ASSUME NEW s \in Slots
      PROVE  FillerOf(s)' = FillerOf(s) /\ HeldBy(s)' = HeldBy(s)
  <2>1. \A u \in Threads : Filling(u, s)' <=> Filling(u, s)  BY <1>1 DEF Filling
  <2>2. \A u \in Threads : Filling(u, s) => ticket'[u] = ticket[u]
    BY <1>1 DEF Filling
  <2>3. /\ events'[s].lock = events[s].lock
        /\ events[s].lock \/ events'[s] = events[s]
    BY <1>1, <1>2 DEF FillersLock, Filling
  <2>4. QED  BY <1>2, <2>1, <2>2, <2>3, CellStays
<1>4. QED  BY <1>3 DEF Cells

\* The cells of the other events, when t begins or ends its work on one.
LEMMA OtherCells ==
  ASSUME Calm, FillInv', ~disturbed', NEW t \in Threads, NEW from, NEW to,
         Goto(t, from, to),
         \A u \in Threads : u # t => event'[u] = event[u] /\ ticket'[u] = ticket[u],
         to \in FillPCs => event'[t] = event[t],
         NEW s \in Slots, s # event[t], events'[s] = events[s]
  PROVE  FillerOf(s)' = FillerOf(s) /\ HeldBy(s)' = HeldBy(s)
<1>1. /\ pc[t] = from /\ pc'[t] = to /\ \A u \in Threads : u # t => pc'[u] = pc[u]
  BY DEF Goto, Calm, TypeInv, LockInv
<1>2. OneFiller /\ OneFiller' /\ NoOrphanLock
  BY DEF Calm, FillInv
<1>3. \A u \in Threads : Filling(u, s)' <=> Filling(u, s)  BY <1>1 DEF Filling
<1>4. \A u \in Threads : Filling(u, s) => ticket'[u] = ticket[u]
  BY <1>1 DEF Filling
<1>5. QED  BY <1>2, <1>3, <1>4, CellStays

LEMMA CursorStays ==
  ASSUME RingCalm, CursorHeld', NEW t \in Threads, NEW from, NEW to, Goto(t, from, to),
         UNCHANGED next_write
  PROVE  Cursor' = Cursor
<1>1. Cursor = next_write  BY DEF Cursor, RingCalm, CursorHeld
<1>2. Cursor' = next_write'  BY DEF Cursor, CursorHeld
<1>3. QED  BY <1>1, <1>2

LEMMA WaitingStays ==
  ASSUME Calm, NEW t \in Threads, NEW from, NEW to, Goto(t, from, to),
         from # "log_tas", to # "log_tas",
         \A u \in Threads : u # t => event'[u] = event[u] /\ ticket'[u] = ticket[u]
  PROVE  Waiting' = Waiting
<1>1. /\ pc[t] = from /\ pc'[t] = to /\ \A u \in Threads : u # t => pc'[u] = pc[u]
  BY DEF Goto, Calm, TypeInv, LockInv
<1>2. {u \in Threads : pc'[u] = "log_tas"} = {u \in Threads : pc[u] = "log_tas"}
  BY <1>1
<1>3. \A u \in Threads : pc[u] = "log_tas" => <<ticket'[u], event'[u]>> = <<ticket[u], event[u]>>
  BY <1>1
<1>4. QED  BY <1>2, <1>3 DEF Waiting

\* The call that looks at its event is no longer waiting, and no other call
\* had its ticket.
LEMMA WaitingLess ==
  ASSUME Calm, NEW t \in Threads, NEW to, Goto(t, "log_tas", to), to # "log_tas",
         \A u \in Threads : u # t => event'[u] = event[u] /\ ticket'[u] = ticket[u]
  PROVE  /\ <<ticket[t], event[t]>> \in Waiting
         /\ Waiting' = Waiting \ {<<ticket[t], event[t]>>}
<1>1. /\ pc[t] = "log_tas" /\ pc'[t] = to
      /\ \A u \in Threads : u # t => pc'[u] = pc[u]
  BY DEF Goto, Calm, TypeInv, LockInv
<1>2. \A u \in Threads : pc[u] = "log_tas" /\ u # t => ticket[u] # ticket[t]
  BY <1>1 DEF Calm, FlightInv, InFlight, FlightPCs
<1>3. ASSUME NEW w
      PROVE  w \in Waiting' <=> w \in Waiting /\ w # <<ticket[t], event[t]>>
  <2>1. w \in Waiting' <=> \E u \in Threads : /\ u # t /\ pc[u] = "log_tas"
                                              /\ w = <<ticket[u], event[u]>>
    BY <1>1 DEF Waiting
  <2>2. w \in Waiting <=> \E u \in Threads : /\ pc[u] = "log_tas"
                                             /\ w = <<ticket[u], event[u]>>
    BY DEF Waiting
  <2>3. QED  BY <1>1, <1>2, <2>1, <2>2
<1>4. <<ticket[t], event[t]>> \in Waiting  BY <1>1 DEF Waiting
<1>5. QED  BY <1>3, <1>4

-----------------------------------------------------------------------------
(***************************************************************************)
(* The steps that EventRing knows of.                                      *)
(***************************************************************************)
LEMMA AdvanceClaims ==
  ASSUME RingCalm, FillInv', ~disturbed', CursorHeld', NEW t \in Threads, LogAdvance(t)
  PROVE  Ring!Claim
<1>1. /\ pc[t] = "log_advance" /\ pc'[t] = "log_tas" /\ event' = event
      /\ \A u \in Threads : u # t => pc'[u] = pc[u] /\ ticket'[u] = ticket[u]
      /\ ticket'[t] = tickets + 1 /\ tickets' = tickets + 1 /\ UNCHANGED events
      /\ next_write' = Succ(event[t])
  BY DEF LogAdvance, Goto, RingCalm, Calm, TypeInv, LockInv, TypeOK
<1>2. Cells' = Cells
  <2>1. Calm  BY DEF RingCalm
  <2>2. Goto(t, "log_advance", "log_tas")  BY DEF LogAdvance
  <2>3. "log_advance" \notin FillPCs /\ "log_tas" \notin FillPCs  BY DEF FillPCs
  <2>4. QED  BY <1>1, <2>1, <2>2, <2>3, CellsStay
<1>3. Cursor = event[t] /\ Cursor' = Succ(event[t])
  <2>1. Cursor = next_write /\ event[t] = next_write
    BY <1>1 DEF Cursor, RingCalm, CursorHeld
  <2>2. Cursor' = next_write'  BY DEF Cursor, CursorHeld
  <2>3. QED  BY <1>1, <2>1, <2>2
<1>4. Waiting' = Waiting \cup {<<tickets + 1, event[t]>>}
  <2>1. ASSUME NEW w
        PROVE  w \in Waiting' <=> w \in Waiting \/ w = <<tickets + 1, event[t]>>
    <3>1. w \in Waiting' <=> \E u \in Threads : /\ pc'[u] = "log_tas"
                                                /\ w = <<ticket'[u], event[u]>>
      BY <1>1 DEF Waiting
    <3>2. w \in Waiting <=> \E u \in Threads : /\ pc[u] = "log_tas"
                                               /\ w = <<ticket[u], event[u]>>
      BY DEF Waiting
    <3>3. QED  BY <1>1, <3>1, <3>2
  <2>2. QED  BY <2>1
<1>5. QED  BY <1>1, <1>2, <1>3, <1>4 DEF Ring!Claim, Succ, head

LEMMA DropDrops ==
  ASSUME RingCalm, FillInv', ~disturbed', CursorHeld', NEW t \in Threads, LogDrop(t)
  PROVE  Ring!Drop(<<ticket[t], event[t]>>) /\ <<ticket[t], event[t]>> \in Waiting
<1>1. /\ Calm /\ Goto(t, "log_tas", "idle") /\ UNCHANGED <<events, next_write, tickets>>
      /\ \A u \in Threads : u # t => event'[u] = event[u] /\ ticket'[u] = ticket[u]
      /\ events[event[t]].lock /\ event[t] \in Slots
  BY DEF LogDrop, RingCalm, Calm, TypeInv, TypeOK, bufferVars, history
<1>2. "idle" \notin FillPCs /\ "log_tas" \notin FillPCs  BY DEF FillPCs, LogPCs
<1>3. Cells' = Cells  BY <1>1, <1>2, CellsStay
<1>4. Cursor' = Cursor  BY <1>1, CursorStays
<1>5. /\ <<ticket[t], event[t]>> \in Waiting
      /\ Waiting' = Waiting \ {<<ticket[t], event[t]>>}
  BY <1>1, WaitingLess
<1>6. Cells[event[t]].filler # Null
  <2>1. PICK u \in Threads : Filling(u, event[t])
    BY <1>1 DEF Calm, FillInv, NoOrphanLock
  <2>2. FillerOf(event[t]) = ticket[u]
    BY <1>1, <2>1, FillerIs DEF Calm, FillInv
  <2>3. ticket[u] # Null
    BY <1>1, <2>1 DEF Filling, Calm, TypeInv, FlightTicket, InFlight, FlightPCs
  <2>4. QED  BY <1>1, <2>2, <2>3 DEF Cells
<1>7. QED  BY <1>1, <1>3, <1>4, <1>5, <1>6 DEF Ring!Drop, Ring!Nobody, Null

LEMMA TakeBegins ==
  ASSUME RingCalm, FillInv', ~disturbed', CursorHeld', NEW t \in Threads, LogTakeEvent(t)
  PROVE  Ring!Begin(<<ticket[t], event[t]>>) /\ <<ticket[t], event[t]>> \in Waiting
<1> DEFINE s == event[t]
<1>1. /\ Calm /\ Goto(t, "log_tas", "log_stamp") /\ UNCHANGED <<next_write, tickets>>
      /\ event' = event /\ ticket' = ticket
      /\ ~events[s].lock /\ s \in Slots
      /\ events'[s].lock /\ \A r \in Slots : r # s => events'[r] = events[r]
      /\ pc'[t] = "log_stamp"
  BY DEF LogTakeEvent, EventFree, Goto, RingCalm, Calm, TypeInv, TypeOK, LockInv,
         EventType, bufferVars, history
<1>2. Cursor' = Cursor  BY <1>1, CursorStays
<1>3. <<ticket[t], s>> \in Waiting /\ Waiting' = Waiting \ {<<ticket[t], s>>}
  BY <1>1, WaitingLess
<1>4. \A r \in Slots : r # s => FillerOf(r)' = FillerOf(r) /\ HeldBy(r)' = HeldBy(r)
  BY <1>1, OtherCells
<1>5. FillerOf(s) = Null  BY <1>1 DEF FillerOf
<1>6. FillerOf(s)' = ticket[t] /\ HeldBy(s)' = Null
  <2>1. Filling(t, s)'  BY <1>1 DEF Filling, FillPCs, LogPCs
  <2>2. PICK r \in Slots : r = s  BY <1>1
  <2>3. Filling(t, r)' /\ events'[r].lock  BY <1>1, <2>1, <2>2 DEF Filling
  <2>4. FillerOf(r)' = ticket'[t] /\ HeldBy(r)' = Null
    BY <2>3, FillerIsNext DEF FillInv, HeldBy
  <2>5. QED  BY <1>1, <2>2, <2>4
<1>7. Cells' = [Cells EXCEPT ![s] = [filler |-> ticket[t], holds |-> Null]]
  BY <1>1, <1>4, <1>6 DEF Cells
<1>8. QED
  BY <1>1, <1>2, <1>3, <1>5, <1>7 DEF Ring!Begin, Ring!Nobody, Null, Cells

LEMMA UnlockCommits ==
  ASSUME RingCalm, FillInv', ~disturbed', CursorHeld', NEW t \in Threads, LogUnlock(t),
         NEW s \in Slots, event[t] = s
  PROVE  Ring!Commit(s)
<1>1. /\ Calm /\ Goto(t, "log_unlock", "idle") /\ UNCHANGED <<next_write, tickets>>
      /\ \A u \in Threads : u # t => event'[u] = event[u] /\ ticket'[u] = ticket[u]
      /\ pc[t] = "log_unlock" /\ events[s] \in EventType
      /\ events' = [events EXCEPT ![s] = [events[s] EXCEPT !.lock = FALSE]]
      /\ events \in [Slots -> EventType]
  BY DEF LogUnlock, Released, Goto, RingCalm, Calm, TypeInv, TypeOK, bufferVars, history
<1>2. /\ ~events'[s].lock /\ events'[s].used = events[s].used
      /\ events'[s].stamp = events[s].stamp /\ events'[s].message = events[s].message
      /\ \A r \in Slots : r # s => events'[r] = events[r]
  BY <1>1 DEF EventType
<1>3. Filling(t, s)  BY <1>1 DEF Filling, FillPCs, LogPCs
<1>4. FillerOf(s) = ticket[t]
  BY <1>1, <1>3, FillerIs DEF Calm, FillInv, FillersLock
<1>5. ticket[t] # Null
  BY <1>1, <1>3 DEF Calm, TypeInv, FlightTicket, InFlight, FlightPCs, Filling
<1>6. FillerOf(s)' = Null /\ HeldBy(s)' = ticket[t]
  <2>1. Stage("log_unlock", ticket[t], ptr[t], events[s], heap)
    BY <1>1, Worker DEF WorkPCs, FillPCs, LogPCs
  <2>2. events[s].used /\ Text(events[s], ticket[t])
    BY <2>1 DEF Stage, FillPCs, LogPCs
  <2>3. QED  BY <1>2, <2>2 DEF FillerOf, HeldBy, Text
<1>7. \A r \in Slots : r # s => FillerOf(r)' = FillerOf(r) /\ HeldBy(r)' = HeldBy(r)
  <2>1. "idle" \notin FillPCs  BY DEF FillPCs, LogPCs
  <2>2. QED  BY <1>1, <1>2, <2>1, OtherCells
<1>8. Cells' = [Cells EXCEPT ![s] = [filler |-> Null, holds |-> ticket[t]]]
  BY <1>6, <1>7 DEF Cells
<1>9. Cursor' = Cursor /\ Waiting' = Waiting
  BY <1>1, CursorStays, WaitingStays
<1>10. Cells[s].filler = ticket[t]  BY <1>4 DEF Cells
<1>11. QED
  BY <1>1, <1>5, <1>8, <1>9, <1>10 DEF Ring!Commit, Ring!Nobody, Null

\* A step of a log call inside its own event, and a step outside of events,
\* is none of EventRing.
LEMMA RingStutter ==
  ASSUME RingCalm, FillInv', ~disturbed', CursorHeld', NEW t \in Threads,
         NEW from, NEW to, Goto(t, from, to), from # "log_tas", to # "log_tas",
         \A u \in Threads : u # t => event'[u] = event[u] /\ ticket'[u] = ticket[u],
         from \in FillPCs <=> to \in FillPCs,
         to \in FillPCs =>
           /\ event'[t] = event[t] /\ ticket'[t] = ticket[t]
           /\ \A s \in Slots : s # event[t] => events'[s] = events[s]
           /\ events'[event[t]].lock = events[event[t]].lock,
         to \notin FillPCs => UNCHANGED events,
         UNCHANGED <<next_write, tickets>>
  PROVE  UNCHANGED <<tickets, Cursor, Waiting, Cells>>
<1>1. Calm  BY DEF RingCalm
<1>2. Cells' = Cells  BY <1>1, CellsStay
<1>3. Cursor' = Cursor  BY CursorStays
<1>4. Waiting' = Waiting  BY <1>1, WaitingStays
<1>5. QED  BY <1>2, <1>3, <1>4

RingNext == Ring!Next \/ UNCHANGED <<tickets, Cursor, Waiting, Cells>>

LEMMA RingStep ==
  ASSUME RingCalm, FillInv', NoReset', CursorHeld', [Next]_vars, Resetters = {}
  PROVE  RingNext
<1> USE RingStutter DEF FillPCs, LogPCs, bufferVars, history, RingNext, NoReset
<1>t. /\ event \in [Threads -> Slots] /\ ticket \in [Threads -> TicketOrNull]
      /\ \A s \in Slots : events[s] \in EventType
      /\ DOMAIN events = Slots /\ TypeInv /\ Calm
  BY DEF RingCalm, Calm, TypeInv, TypeOK
<1>1. ASSUME NEW t \in Threads, LogStep(t) PROVE RingNext
  <2>1. CASE LogRead(t)        BY <2>1, <1>t DEF LogRead
  <2>2. CASE LogAdvance(t)     BY <2>2, AdvanceClaims DEF Ring!Next
  <2>3. CASE LogDrop(t)        BY <2>3, DropDrops DEF Ring!Next
  <2>4. CASE LogTakeEvent(t)   BY <2>4, TakeBegins DEF Ring!Next
  <2>4a. CASE LogStamp(t)      BY <2>4a, <1>t DEF LogStamp, EventType
  <2>5. CASE LogText(t)        BY <2>5, <1>t DEF LogText, EventType
  <2>6. CASE LogMessage(t)     BY <2>6, <1>t DEF LogMessage, EventType
  <2>7. CASE LogExtCheck(t)
    BY <2>7, <1>t DEF LogExtCheck, AfterExtCheck, AfterOldExt
  <2>8. CASE LogExtFree(t)     BY <2>8 DEF LogExtFree
  <2>9. CASE LogExtClear(t)
    BY <2>9, <1>t DEF LogExtClear, AfterOldExt, WithoutExt, EventType
  <2>10. CASE LogExtStore(t)   BY <2>10, <1>t DEF LogExtStore, EventType
  <2>11. CASE LogExtPublish(t) BY <2>11, <1>t DEF LogExtPublish, EventType
  <2>12. CASE LogUsed(t)       BY <2>12, <1>t DEF LogUsed, EventType
  <2>13. CASE LogUnlock(t)
    <3>1. event[t] \in Slots  BY <1>t
    <3>2. QED  BY <2>13, <3>1, UnlockCommits DEF Ring!Next, Ring!Events, Slots
  <2>14. QED
    BY <1>1, <2>1, <2>2, <2>3, <2>4, <2>4a, <2>5, <2>6, <2>7, <2>8, <2>9, <2>10,
       <2>11, <2>12, <2>13 DEF LogStep
<1>2. ASSUME NEW t \in Threads, PrintStep(t) PROVE RingNext
  <2>1. CASE PrintStop(t)      BY <2>1 DEF PrintStop
  <2>2. CASE PrintEvent(t)     BY <2>2 DEF PrintEvent
  <2>3. CASE PrintMessage(t)
    <3>1. PICK to \in {"print_ext", "print_unlock", "print_event"} :
            Goto(t, "print_message", to)
      BY <2>3 DEF PrintMessage, PrintNext
    <3>2. /\ UNCHANGED <<events, ticket, tickets, next_write>>
          /\ \A u \in Threads : u # t => event'[u] = event[u]
      BY <2>3, <1>t DEF PrintMessage, PrintNext
    <3>3. QED  BY <1>t, <3>1, <3>2
  <2>4. CASE PrintExt(t)       BY <2>4, <1>t DEF PrintExt, PrintNext
  <2>5. CASE PrintUnlock(t)    BY <2>5, <1>t DEF PrintUnlock
  <2>6. QED  BY <1>2, <2>1, <2>2, <2>3, <2>4, <2>5 DEF PrintStep
<1>3. \A t \in Threads : ~ResetStep(t)
  BY DEF RingCalm, ResetStep, ResetFields, ResetUsed, ResetFree, ResetExt, ResetDone,
     Goto, ResetPCs
<1>4. ASSUME NEW t \in Writers, NEW x \in ExtChoices, LogLock(t, x) PROVE RingNext
  BY <1>4 DEF LogLock, Threads
<1>5. ASSUME NEW t \in Readers, NEW a \in DumpChoices, PrintLock(t, a) PROVE RingNext
  BY <1>5, <1>t DEF PrintLock, Threads
<1>6. CASE UNCHANGED vars
  <2>1. UNCHANGED <<pc, event, ticket, events, tickets, next_write>>
    BY <1>6 DEF vars
  <2>2. \A s \in Slots : FillerOf(s)' = FillerOf(s) /\ HeldBy(s)' = HeldBy(s)
    <3>1. \A u \in Threads, s \in Slots : Filling(u, s)' <=> Filling(u, s)
      BY <2>1 DEF Filling
    <3>2. OneFiller /\ OneFiller' /\ NoOrphanLock
      BY DEF RingCalm, Calm, FillInv
    <3>3. QED  BY <2>1, <3>1, <3>2, CellStays
  <2>3. Cells' = Cells  BY <2>2 DEF Cells
  <2>4. Cursor' = Cursor
    BY <2>1 DEF RingCalm, CursorHeld, Cursor
  <2>5. Waiting' = Waiting  BY <2>1 DEF Waiting
  <2>6. QED  BY <2>1, <2>3, <2>4, <2>5
<1>7. QED
  BY <1>1, <1>2, <1>3, <1>4, <1>5, <1>6 DEF Next, CallStep

LEMMA RingInit == Init => Ring!Init
<1> SUFFICES ASSUME Init PROVE Ring!Init  OBVIOUS
<1>1. tickets = 0 /\ \A t \in Threads : pc[t] = "idle"  BY DEF Init
<1>2. Cursor = 0  BY <1>1 DEF Cursor, Init, head
<1>3. Waiting = {}  BY <1>1 DEF Waiting
<1>4. Cells = [e \in Ring!Events |-> [filler |-> Ring!Nobody, holds |-> Ring!Nobody]]
  BY DEF Cells, Ring!Events, Ring!Nobody, Slots, FillerOf, HeldBy, Init, EmptyEvent, Null
<1>5. QED  BY <1>1, <1>2, <1>3, <1>4 DEF Ring!Init

\* A buffer that nobody resets implements EventRing, whatever its size and
\* however many threads log into it and print it: every claim goes to the next
\* event of the ring, fills it alone or is dropped, and ends with its whole
\* message in it.
THEOREM ImplementsRing ==
  ASSUME Resetters = {}
  PROVE  Spec => ImplementsEventRing
<1> DEFINE Inv == /\ TypeInv /\ FillInv /\ FlightInv /\ AccountInv
                  /\ NoReset /\ (disturbed \/ EventsInv)
<1>1. Init => Inv
  <2>1. Init => NoReset  BY DEF Init, NoReset, ResetPCs
  <2>2. QED
    BY <2>1, InitTypeInv, InitFillInv, InitFlight, InitAccount, InitEvents
<1>2. Inv /\ [Next]_vars => Inv'
  <2> SUFFICES ASSUME Inv, [Next]_vars PROVE Inv'  OBVIOUS
  <2>1. TypeInv' /\ FillInv' /\ FlightInv' /\ AccountInv' /\ NoReset'
    BY TypeInvStep, FillInvStep, FlightStep, AccountStep, NoResetStep
  <2>2. EventsInv'  BY EventsStep DEF Calm, NoReset
  <2>3. QED  BY <2>1, <2>2
<1>3. Inv /\ Inv' /\ [Next]_vars => [Ring!Next]_<<tickets, Cursor, Waiting, Cells>>
  <2> SUFFICES ASSUME Inv, Inv', [Next]_vars PROVE RingNext  BY DEF RingNext
  <2>1. RingCalm /\ CursorHeld'
    BY DEF RingCalm, Calm, NoReset, AccountInv
  <2>2. QED  BY <2>1, RingStep
<1>4. QED
  BY <1>1, <1>2, <1>3, RingInit, PTL DEF Spec, ImplementsEventRing, Ring!Spec, Ring!ringVars

=============================================================================
