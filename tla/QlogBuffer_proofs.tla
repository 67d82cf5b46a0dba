-------------------------- MODULE QlogBuffer_proofs --------------------------
(***************************************************************************)
(* Theorems about QlogBuffer, for every ring size, every set of threads    *)
(* and every number of log calls.                                          *)
(***************************************************************************)
EXTENDS QlogBuffer, SequenceTheorems, TLAPS

PCs == {"idle"} \cup LogPCs \cup PrintPCs \cup ResetPCs

\* BufferLockExclusive with the types it needs is inductive.
LockInv ==
  /\ buffer_lock \in BOOLEAN
  /\ pc \in [Threads -> PCs]
  /\ BufferLockExclusive

\* A step to another place takes the free lock, gives it back, or neither.
LockKind(from, to) ==
  \/ from \notin HoldPCs /\ to \in HoldPCs /\ ~buffer_lock /\ buffer_lock' = TRUE
  \/ from \in HoldPCs /\ to \notin HoldPCs /\ buffer_lock' = FALSE
  \/ (from \in HoldPCs <=> to \in HoldPCs) /\ UNCHANGED buffer_lock

USE DEF PCs, LogPCs, PrintPCs, ResetPCs

LEMMA LockKindPreserves ==
  ASSUME LockInv, NEW t \in Threads, NEW from, NEW to \in PCs,
         Goto(t, from, to), LockKind(from, to)
  PROVE  LockInv'
<1>1. pc' \in [Threads -> PCs] /\ buffer_lock' \in BOOLEAN
  BY DEF LockInv, LockKind, Goto
<1>2. pc'[t] = to /\ \A u \in Threads : u # t => pc'[u] = pc[u]
  BY DEF LockInv, Goto
<1>3. BufferLockExclusive'
  <2>1. CASE from \notin HoldPCs /\ to \in HoldPCs /\ ~buffer_lock /\ buffer_lock' = TRUE
    BY <1>2, <2>1 DEF LockInv, BufferLockExclusive, Goto
  <2>2. CASE from \in HoldPCs /\ to \notin HoldPCs /\ buffer_lock' = FALSE
    BY <1>2, <2>2 DEF LockInv, BufferLockExclusive, Goto
  <2>3. CASE (from \in HoldPCs <=> to \in HoldPCs) /\ UNCHANGED buffer_lock
    BY <1>2, <2>3 DEF LockInv, BufferLockExclusive, Goto
  <2>4. QED  BY <2>1, <2>2, <2>3 DEF LockKind
<1>4. QED  BY <1>1, <1>3 DEF LockInv

LEMMA LogKeepsLockInv ==
  ASSUME LockInv, NEW t \in Threads, LogStep(t)
  PROVE  LockInv'
<1> USE DEF LockKind, HoldPCs
<1>1. CASE LogRead(t)        BY <1>1, LockKindPreserves DEF LogRead
<1>2. CASE LogAdvance(t)     BY <1>2, LockKindPreserves DEF LogAdvance, SpinUnlock
<1>3. CASE LogDrop(t)        BY <1>3, LockKindPreserves DEF LogDrop
<1>4. CASE LogTakeEvent(t)   BY <1>4, LockKindPreserves DEF LogTakeEvent
<1>4a. CASE LogStamp(t)      BY <1>4a, LockKindPreserves DEF LogStamp
<1>5. CASE LogText(t)        BY <1>5, LockKindPreserves DEF LogText
<1>6. CASE LogMessage(t)     BY <1>6, LockKindPreserves DEF LogMessage
<1>7. CASE LogExtCheck(t)
  BY <1>7, LockKindPreserves DEF LogExtCheck, AfterExtCheck, AfterOldExt
<1>8. CASE LogExtFree(t)     BY <1>8, LockKindPreserves DEF LogExtFree
<1>9. CASE LogExtClear(t)
  BY <1>9, LockKindPreserves DEF LogExtClear, AfterOldExt
<1>10. CASE LogExtStore(t)   BY <1>10, LockKindPreserves DEF LogExtStore
<1>11. CASE LogExtPublish(t) BY <1>11, LockKindPreserves DEF LogExtPublish
<1>12. CASE LogUsed(t)       BY <1>12, LockKindPreserves DEF LogUsed
<1>13. CASE LogUnlock(t)     BY <1>13, LockKindPreserves DEF LogUnlock
<1>14. QED
  BY <1>1, <1>2, <1>3, <1>4, <1>4a, <1>5, <1>6, <1>7, <1>8, <1>9, <1>10, <1>11,
     <1>12, <1>13 DEF LogStep

LEMMA PrintKeepsLockInv ==
  ASSUME LockInv, NEW t \in Threads, PrintStep(t)
  PROVE  LockInv'
<1> USE DEF LockKind, HoldPCs
<1>1. CASE PrintStop(t)      BY <1>1, LockKindPreserves DEF PrintStop
<1>2. CASE PrintEvent(t)     BY <1>2, LockKindPreserves DEF PrintEvent
<1>3. CASE PrintMessage(t)   BY <1>3, LockKindPreserves DEF PrintMessage, PrintNext
<1>4. CASE PrintExt(t)       BY <1>4, LockKindPreserves DEF PrintExt, PrintNext
<1>5. CASE PrintUnlock(t)    BY <1>5, LockKindPreserves DEF PrintUnlock, SpinUnlock
<1>6. QED  BY <1>1, <1>2, <1>3, <1>4, <1>5 DEF PrintStep

LEMMA ResetKeepsLockInv ==
  ASSUME LockInv, NEW t \in Threads, ResetStep(t)
  PROVE  LockInv'
<1> USE DEF LockKind, HoldPCs
<1>1. CASE ResetFields(t)    BY <1>1, LockKindPreserves DEF ResetFields
<1>2. CASE ResetUsed(t)      BY <1>2, LockKindPreserves DEF ResetUsed, AfterReset
<1>3. CASE ResetFree(t)      BY <1>3, LockKindPreserves DEF ResetFree
<1>4. CASE ResetExt(t)       BY <1>4, LockKindPreserves DEF ResetExt
<1>5. CASE ResetDone(t)      BY <1>5, LockKindPreserves DEF ResetDone, SpinUnlock
<1>6. QED  BY <1>1, <1>2, <1>3, <1>4, <1>5 DEF ResetStep

LEMMA CallsKeepLockInv == LockInv /\ [Next]_vars => LockInv'
<1> SUFFICES ASSUME LockInv, [Next]_vars PROVE LockInv'  OBVIOUS
<1> USE DEF LockKind, HoldPCs, SpinLock, Threads
<1>1. ASSUME NEW t \in Writers, NEW x \in ExtChoices, LogLock(t, x) PROVE LockInv'
  BY <1>1, LockKindPreserves DEF LogLock
<1>2. ASSUME NEW t \in Readers, NEW a \in DumpChoices, PrintLock(t, a) PROVE LockInv'
  BY <1>2, LockKindPreserves DEF PrintLock
<1>3. ASSUME NEW t \in Resetters, ResetLock(t) PROVE LockInv'
  BY <1>3, LockKindPreserves DEF ResetLock
<1>4. ASSUME NEW t \in Threads, CallStep(t) PROVE LockInv'
  BY <1>4, LogKeepsLockInv, PrintKeepsLockInv, ResetKeepsLockInv DEF CallStep
<1>5. CASE UNCHANGED vars
  BY <1>5 DEF vars, LockInv, BufferLockExclusive
<1>6. QED  BY <1>1, <1>2, <1>3, <1>4, <1>5 DEF Next

LEMMA InitLockInv == Init => LockInv
BY DEF Init, LockInv, BufferLockExclusive, HoldPCs

\* At most one claim, print or reset is inside the buffer's lock, and the lock
\* is taken exactly while one is, for any number of threads.
THEOREM LockExclusion == Spec => []BufferLockExclusive
<1>1. LockInv => BufferLockExclusive  BY DEF LockInv
<1>2. QED  BY InitLockInv, CallsKeepLockInv, <1>1, PTL DEF Spec

-----------------------------------------------------------------------------
\* A call that is about to claim an event has room for its ticket, because
\* no other call can claim meanwhile; a call in flight has a ticket.
ClaimRoom ==
  \A t \in Threads : pc[t] \in {"log_read", "log_advance"} => tickets < MaxTickets
FlightTicket == \A t \in Threads : InFlight(t) => ticket[t] # Null

TypeInv == TypeOK /\ LockInv /\ ClaimRoom /\ FlightTicket

LEMMA RingClosed == head \in Slots /\ \A s \in Slots : Succ(s) \in Slots
BY BufferConstants DEF Slots, Succ, head

LEMMA WrapCounted ==
  ASSUME TypeOK, NEW n PROVE CountWrap(n) \in 0 .. WrapModulus - 1
BY BufferConstants DEF TypeOK, CountWrap

\* Storing the message of the event whose stamp was printed last.
LEMMA LastShown ==
  ASSUME NEW A, NEW s \in Seq(A \X A), NEW v \in A
  PROVE  [s EXCEPT ![Len(s)][2] = v] \in Seq(A \X A)
<1> DEFINE last == [s[Len(s)] EXCEPT ![2] = v]
<1>1. CASE Len(s) = 0
  <2>1. DOMAIN s = {}  BY <1>1
  <2>2. [s EXCEPT ![Len(s)] = last] = s  BY <2>1
  <2>3. QED  BY <2>2
<1>2. CASE Len(s) # 0
  <2>1. Len(s) \in 1 .. Len(s) /\ s[Len(s)] \in A \X A  BY <1>2
  <2>2. last \in A \X A  BY <2>1
  <2> HIDE DEF last
  <2>3. [s EXCEPT ![Len(s)] = last] \in Seq(A \X A)
    BY <2>1, <2>2, ExceptSeq
  <2>4. QED  BY <2>3 DEF last
<1>3. QED  BY <1>1, <1>2

LEMMA FieldTyped ==
  ASSUME NEW e \in EventType, NEW k \in TicketOrNull, NEW b \in BOOLEAN
  PROVE  /\ [e EXCEPT !.lock = b] \in EventType
         /\ [e EXCEPT !.used = b] \in EventType
         /\ [e EXCEPT !.stamp = k] \in EventType
         /\ [e EXCEPT !.message = k] \in EventType
         /\ [e EXCEPT !.ext_data = k] \in EventType
         /\ [e EXCEPT !.ext_type = b] \in EventType
<1> USE DEF EventType
<1>1. [e EXCEPT !.lock = b] \in EventType  OBVIOUS
<1>2. [e EXCEPT !.used = b] \in EventType  OBVIOUS
<1>3. [e EXCEPT !.stamp = k] \in EventType  OBVIOUS
<1>4. [e EXCEPT !.message = k] \in EventType  OBVIOUS
<1>5. [e EXCEPT !.ext_data = k] \in EventType  OBVIOUS
<1>6. [e EXCEPT !.ext_type = b] \in EventType  OBVIOUS
<1>7. QED  BY <1>1, <1>2, <1>3, <1>4, <1>5, <1>6, Zenon

LEMMA RingTyped ==
  ASSUME NEW f \in [Slots -> EventType], NEW s \in Slots,
         NEW k \in TicketOrNull, NEW b \in BOOLEAN
  PROVE  /\ [f EXCEPT ![s].lock = b] \in [Slots -> EventType]
         /\ [f EXCEPT ![s].used = b] \in [Slots -> EventType]
         /\ [f EXCEPT ![s].stamp = k] \in [Slots -> EventType]
         /\ [f EXCEPT ![s].message = k] \in [Slots -> EventType]
         /\ [f EXCEPT ![s].ext_data = k] \in [Slots -> EventType]
         /\ [f EXCEPT ![s].ext_type = b] \in [Slots -> EventType]
<1>1. \A e \in EventType : [f EXCEPT ![s] = e] \in [Slots -> EventType]  OBVIOUS
<1>2. f[s] \in EventType  OBVIOUS
<1>3. [f EXCEPT ![s].lock = b] \in [Slots -> EventType]  BY <1>1, <1>2, FieldTyped
<1>4. [f EXCEPT ![s].used = b] \in [Slots -> EventType]  BY <1>1, <1>2, FieldTyped
<1>5. [f EXCEPT ![s].stamp = k] \in [Slots -> EventType]  BY <1>1, <1>2, FieldTyped
<1>6. [f EXCEPT ![s].message = k] \in [Slots -> EventType]  BY <1>1, <1>2, FieldTyped
<1>7. [f EXCEPT ![s].ext_data = k] \in [Slots -> EventType]  BY <1>1, <1>2, FieldTyped
<1>8. [f EXCEPT ![s].ext_type = b] \in [Slots -> EventType]  BY <1>1, <1>2, FieldTyped
<1>9. QED  BY <1>3, <1>4, <1>5, <1>6, <1>7, <1>8, Zenon

\* What a step stores in an event is of the event's type.
LEMMA EventsTyped ==
  ASSUME TypeOK, NEW s \in Slots, NEW k \in TicketOrNull, NEW b \in BOOLEAN
  PROVE  /\ [events EXCEPT ![s].lock = b] \in [Slots -> EventType]
         /\ [events EXCEPT ![s].used = b] \in [Slots -> EventType]
         /\ [events EXCEPT ![s].message = k] \in [Slots -> EventType]
         /\ [events EXCEPT ![s].stamp = k] \in [Slots -> EventType]
         /\ [events EXCEPT ![s].ext_data = k] \in [Slots -> EventType]
         /\ [events EXCEPT ![s].ext_type = b] \in [Slots -> EventType]
         /\ WithoutExt(s) \in [Slots -> EventType]
         /\ [events EXCEPT ![s].stamp = Null, ![s].message = Null, ![s].lock = FALSE]
              \in [Slots -> EventType]
<1>1. events \in [Slots -> EventType]  BY DEF TypeOK
<1>2. Null \in TicketOrNull  BY DEF TicketOrNull
<1>3. [events EXCEPT ![s].stamp = k] \in [Slots -> EventType]  BY <1>1, RingTyped
<1>4. WithoutExt(s) \in [Slots -> EventType]
  <2> DEFINE cut == [events EXCEPT ![s].ext_data = Null]
  <2>1. cut \in [Slots -> EventType]  BY <1>1, <1>2, RingTyped
  <2>2. [cut EXCEPT ![s].ext_type = FALSE] \in [Slots -> EventType]
    <3> HIDE DEF cut
    <3>1. QED  BY <2>1, RingTyped
  <2>3. QED  BY <2>2 DEF WithoutExt
<1>5. [events EXCEPT ![s].stamp = Null, ![s].message = Null, ![s].lock = FALSE]
        \in [Slots -> EventType]
  <2> DEFINE unstamped == [events EXCEPT ![s].stamp = Null]
             blank == [unstamped EXCEPT ![s].message = Null]
  <2>1. unstamped \in [Slots -> EventType]  BY <1>1, <1>2, RingTyped
  <2>2. blank \in [Slots -> EventType]
    <3> HIDE DEF unstamped
    <3>1. QED  BY <1>2, <2>1, RingTyped
  <2>3. [blank EXCEPT ![s].lock = FALSE] \in [Slots -> EventType]
    <3> HIDE DEF blank
    <3>1. QED  BY <2>2, RingTyped
  <2>4. QED  BY <2>3
<1>6. QED  BY <1>1, <1>3, <1>4, <1>5, RingTyped

LEMMA LogTyped ==
  ASSUME TypeInv, NEW t \in Threads, LogStep(t)
  PROVE  TypeOK'
<1> USE BufferConstants, RingClosed DEF TypeInv, TypeOK, Goto, Tickets, Null, TicketOrNull,
        bufferVars, printVars, history
<1>1. CASE LogRead(t)
  BY <1>1 DEF LogRead
<1>2. CASE LogAdvance(t)
  <2> USE <1>2 DEF LogAdvance, SpinUnlock
  <2>1. tickets < MaxTickets  BY DEF ClaimRoom
  <2>2. tickets' \in 0 .. MaxTickets /\ origin' \in 0 .. tickets'  BY <2>1
  <2>3. ticket' \in [Threads -> TicketOrNull]  BY <2>1
  <2>4. next_write' \in Slots  OBVIOUS
  <2>5. wrapped' \in 0 .. WrapModulus - 1  BY WrapCounted
  <2>6. pc' \in [Threads -> {"idle"} \cup LogPCs \cup PrintPCs \cup ResetPCs]  OBVIOUS
  <2>7. overtaken' \in BOOLEAN  OBVIOUS
  <2>8. QED  BY <2>2, <2>3, <2>4, <2>5, <2>6, <2>7
<1>3. CASE LogDrop(t)
  BY <1>3 DEF LogDrop
<1>4. CASE LogTakeEvent(t)
  <2>1. events' \in [Slots -> EventType]
    BY <1>4, EventsTyped DEF LogTakeEvent
  <2>2. QED  BY <1>4, <2>1 DEF LogTakeEvent
<1>4a. CASE LogStamp(t)
  <2>1. events' \in [Slots -> EventType]
    BY <1>4a, EventsTyped, ZenonT(30) DEF LogStamp
  <2>2. QED  BY <1>4a, <2>1 DEF LogStamp
<1>5. CASE LogText(t)
  <2>1. events' \in [Slots -> EventType]
    BY <1>5, EventsTyped, ZenonT(30) DEF LogText
  <2>2. QED  BY <1>5, <2>1 DEF LogText
<1>6. CASE LogMessage(t)
  <2>1. events' \in [Slots -> EventType]
    BY <1>6, EventsTyped, ZenonT(30) DEF LogMessage
  <2>2. QED  BY <1>6, <2>1 DEF LogMessage
<1>7. CASE LogExtCheck(t)
  <2> USE <1>7 DEF LogExtCheck, AfterExtCheck, AfterOldExt
  <2>1. events[event[t]].ext_data \in TicketOrNull  BY DEF EventType
  <2>2. ptr' \in [Threads -> TicketOrNull]  BY <2>1
  <2>3. QED  BY <2>2
<1>8. CASE LogExtFree(t)
  BY <1>8 DEF LogExtFree
<1>9. CASE LogExtClear(t)
  <2>1. events' \in [Slots -> EventType]
    BY <1>9, EventsTyped DEF LogExtClear, AfterOldExt
  <2>2. QED  BY <1>9, <2>1 DEF LogExtClear, AfterOldExt
<1>10. CASE LogExtStore(t)
  <2> USE <1>10 DEF LogExtStore
  <2>1. ticket[t] \in Tickets  BY DEF FlightTicket, InFlight, FlightPCs, FillPCs
  <2>2. events' \in [Slots -> EventType]  BY EventsTyped, ZenonT(30)
  <2>3. heap' \subseteq Tickets  BY <2>1
  <2>4. QED  BY <2>2, <2>3
<1>11. CASE LogExtPublish(t)
  <2>1. events' \in [Slots -> EventType]
    BY <1>11, EventsTyped DEF LogExtPublish
  <2>2. QED  BY <1>11, <2>1 DEF LogExtPublish
<1>12. CASE LogUsed(t)
  <2>1. events' \in [Slots -> EventType]
    BY <1>12, EventsTyped DEF LogUsed
  <2>2. QED  BY <1>12, <2>1 DEF LogUsed
<1>13. CASE LogUnlock(t)
  <2>1. events' \in [Slots -> EventType]
    BY <1>13, EventsTyped DEF LogUnlock, Released
  <2>2. QED  BY <1>13, <2>1 DEF LogUnlock, Released
<1>14. QED
  BY <1>1, <1>2, <1>3, <1>4, <1>4a, <1>5, <1>6, <1>7, <1>8, <1>9, <1>10, <1>11, <1>12, <1>13 DEF LogStep

LEMMA PrintTyped ==
  ASSUME TypeInv, NEW t \in Threads, PrintStep(t)
  PROVE  TypeOK'
<1> USE BufferConstants, RingClosed DEF TypeInv, TypeOK, Goto, Tickets, Null, TicketOrNull,
        bufferVars, printVars, history
<1>1. CASE PrintStop(t)
  BY <1>1 DEF PrintStop
<1>2. CASE PrintEvent(t)
  <2> USE <1>2 DEF PrintEvent
  <2>1. events[event[t]].stamp \in TicketOrNull  BY DEF EventType
  <2>2. Append(shown[t], <<events[event[t]].stamp, Null>>) \in
          Seq(TicketOrNull \X TicketOrNull)
    BY <2>1, AppendProperties
  <2>3. shown' \in [Threads -> Seq(TicketOrNull \X TicketOrNull)]
    BY <2>2
  <2>4. QED  BY <2>3
<1>3. CASE PrintMessage(t)
  <2> USE <1>3 DEF PrintMessage, PrintNext
  <2> DEFINE e == events[event[t]]
             one == [shown[t] EXCEPT ![Len(shown[t])][2] = e.message]
  <2>1. /\ e.message \in TicketOrNull
        /\ e.ext_data \in TicketOrNull
    BY DEF EventType
  <2>2. one \in Seq(TicketOrNull \X TicketOrNull)
    BY <2>1, LastShown
  <2>3. shown' = [shown EXCEPT ![t] = one]  OBVIOUS
  <2>4. shown' \in [Threads -> Seq(TicketOrNull \X TicketOrNull)]
    BY <2>2, <2>3
  <2>5. CASE e.ext_type /\ e.ext_data # Null  BY <2>1, <2>4, <2>5
  <2>6. CASE ~(e.ext_type /\ e.ext_data # Null)
    <3>1. PrintNext(t, "print_message") /\ UNCHANGED ptr  BY <2>6
    <3>2. event' \in [Threads -> Slots]  BY <3>1
    <3>3. pc' \in [Threads -> {"idle"} \cup LogPCs \cup PrintPCs \cup ResetPCs]
      BY <3>1
    <3>4. QED  BY <2>4, <3>1, <3>2, <3>3
  <2>7. QED  BY <2>5, <2>6
<1>4. CASE PrintExt(t)
  BY <1>4 DEF PrintExt, PrintNext
<1>5. CASE PrintUnlock(t)
  <2> USE <1>5 DEF PrintUnlock, SpinUnlock
  <2>1. <<>> \in Seq(TicketOrNull \X TicketOrNull)
    BY EmptySeq
  <2>2. shown' \in [Threads -> Seq(TicketOrNull \X TicketOrNull)]
    BY <2>1
  <2>3. QED  BY <2>2
<1>6. QED
  BY <1>1, <1>2, <1>3, <1>4, <1>5 DEF PrintStep

LEMMA ResetTyped ==
  ASSUME TypeInv, NEW t \in Threads, ResetStep(t)
  PROVE  TypeOK'
<1> USE BufferConstants, RingClosed DEF TypeInv, TypeOK, Goto, Tickets, Null, TicketOrNull,
        bufferVars, printVars, history
<1>1. CASE ResetFields(t)
  <2>1. events' \in [Slots -> EventType]
    BY <1>1, EventsTyped DEF ResetFields
  <2>2. QED  BY <1>1, <2>1 DEF ResetFields
<1>2. CASE ResetUsed(t)
  <2> USE <1>2 DEF ResetUsed
  <2>1. events[event[t]].ext_data \in TicketOrNull  BY DEF EventType
  <2>2. events' \in [Slots -> EventType]
    <3>1. event[t] \in Slots /\ events' = Unused(event[t])  OBVIOUS
    <3>2. Unused(event[t]) \in [Slots -> EventType]
      <4> HIDE <1>2
      <4>1. QED  BY <3>1, EventsTyped DEF Unused
    <3>3. QED  BY <3>1, <3>2
  <2>3. AfterReset(event[t]) \in ResetPCs  BY DEF AfterReset
  <2>4. pc' \in [Threads -> {"idle"} \cup LogPCs \cup PrintPCs \cup ResetPCs]  BY <2>3
  <2>5. QED  BY <2>1, <2>2, <2>4
<1>3. CASE ResetFree(t)
  BY <1>3 DEF ResetFree
<1>4. CASE ResetExt(t)
  <2>1. events' \in [Slots -> EventType]
    <3>1. event[t] \in Slots /\ events' = NulledExt(t, event[t])
      BY <1>4 DEF ResetExt
    <3>2. NulledExt(t, event[t]) \in [Slots -> EventType]
      BY <3>1, EventsTyped DEF NulledExt
    <3>3. QED  BY <3>1, <3>2
  <2>2. QED  BY <1>4, <2>1 DEF ResetExt
<1>5. CASE ResetDone(t)
  <2> USE <1>5 DEF ResetDone, Rewind, SpinUnlock
  <2>1. wrapped' \in 0 .. WrapModulus - 1 /\ event_locked' \in Nat  OBVIOUS
  <2>2. origin' \in 0 .. tickets'  OBVIOUS
  <2>3. QED  BY <2>1, <2>2
<1>6. QED
  BY <1>1, <1>2, <1>3, <1>4, <1>5 DEF ResetStep

-----------------------------------------------------------------------------
\* Steps that leave the tickets alone keep ClaimRoom and FlightTicket when
\* they bring no thread to a claim or into flight.
ClaimPCs == {"log_read", "log_advance"}

LEMMA TicketFrame ==
  ASSUME TypeInv, NEW t \in Threads, NEW from, NEW to, Goto(t, from, to),
         UNCHANGED <<tickets, ticket>>,
         to \in ClaimPCs => from \in ClaimPCs,
         to \in FlightPCs => from \in FlightPCs
  PROVE  ClaimRoom' /\ FlightTicket'
BY DEF TypeInv, LockInv, ClaimRoom, FlightTicket, InFlight, ClaimPCs, Goto

LEMMA LogTickets ==
  ASSUME TypeInv, NEW t \in Threads, LogStep(t)
  PROVE  ClaimRoom' /\ FlightTicket'
<1> USE DEF ClaimPCs, FlightPCs, FillPCs, history, bufferVars
<1>1. CASE LogRead(t)  BY <1>1, TicketFrame DEF LogRead
<1>2. CASE LogAdvance(t)
  <2> USE <1>2 DEF LogAdvance, Goto, TypeInv, LockInv
  <2>1. \A u \in Threads : u # t => pc'[u] = pc[u] /\ ticket'[u] = ticket[u]
    BY DEF TypeOK
  <2>2. pc'[t] = "log_tas" /\ ticket'[t] # Null  BY DEF TypeOK, Null
  <2>3. \A u \in Threads : u # t => pc[u] \notin ClaimPCs
    BY DEF BufferLockExclusive, HoldPCs
  <2>4. ClaimRoom'  BY <2>1, <2>2, <2>3 DEF ClaimRoom
  <2>5. FlightTicket'  BY <2>1, <2>2 DEF FlightTicket, InFlight
  <2>6. QED  BY <2>4, <2>5
<1>3. CASE LogDrop(t)
  BY <1>3 DEF LogDrop, Goto, TypeInv, LockInv, TypeOK, ClaimRoom, FlightTicket, InFlight
<1>4. CASE LogTakeEvent(t)  BY <1>4, TicketFrame DEF LogTakeEvent
<1>4a. CASE LogStamp(t)  BY <1>4a, TicketFrame DEF LogStamp
<1>5. CASE LogText(t)  BY <1>5, TicketFrame DEF LogText
<1>6. CASE LogMessage(t)  BY <1>6, TicketFrame DEF LogMessage
<1>7. CASE LogExtCheck(t)  BY <1>7, TicketFrame DEF LogExtCheck, AfterExtCheck, AfterOldExt
<1>8. CASE LogExtFree(t)  BY <1>8, TicketFrame DEF LogExtFree
<1>9. CASE LogExtClear(t)  BY <1>9, TicketFrame DEF LogExtClear, AfterOldExt
<1>10. CASE LogExtStore(t)  BY <1>10, TicketFrame DEF LogExtStore
<1>11. CASE LogExtPublish(t)  BY <1>11, TicketFrame DEF LogExtPublish
<1>12. CASE LogUsed(t)  BY <1>12, TicketFrame DEF LogUsed
<1>13. CASE LogUnlock(t)
  BY <1>13 DEF LogUnlock, Goto, TypeInv, LockInv, TypeOK, ClaimRoom, FlightTicket, InFlight
<1>14. QED
  BY <1>1, <1>2, <1>3, <1>4, <1>4a, <1>5, <1>6, <1>7, <1>8, <1>9, <1>10, <1>11,
     <1>12, <1>13 DEF LogStep

LEMMA PrintTickets ==
  ASSUME TypeInv, NEW t \in Threads, PrintStep(t)
  PROVE  ClaimRoom' /\ FlightTicket'
<1> USE DEF ClaimPCs, FlightPCs, FillPCs, history, bufferVars, printVars
<1>1. CASE PrintStop(t)  BY <1>1, TicketFrame DEF PrintStop
<1>2. CASE PrintEvent(t)  BY <1>2, TicketFrame DEF PrintEvent
<1>3. CASE PrintMessage(t)  BY <1>3, TicketFrame DEF PrintMessage, PrintNext
<1>4. CASE PrintExt(t)  BY <1>4, TicketFrame DEF PrintExt, PrintNext
<1>5. CASE PrintUnlock(t)  BY <1>5, TicketFrame DEF PrintUnlock
<1>6. QED  BY <1>1, <1>2, <1>3, <1>4, <1>5 DEF PrintStep

LEMMA ResetTickets ==
  ASSUME TypeInv, NEW t \in Threads, ResetStep(t)
  PROVE  ClaimRoom' /\ FlightTicket'
<1> USE DEF ClaimPCs, FlightPCs, FillPCs, history, bufferVars, printVars
<1>1. CASE ResetFields(t)  BY <1>1, TicketFrame DEF ResetFields
<1>2. CASE ResetUsed(t)  BY <1>2, TicketFrame DEF ResetUsed, AfterReset, Unused
<1>3. CASE ResetFree(t)  BY <1>3, TicketFrame DEF ResetFree
<1>4. CASE ResetExt(t)  BY <1>4, TicketFrame DEF ResetExt
<1>5. CASE ResetDone(t)  BY <1>5, TicketFrame DEF ResetDone
<1>6. QED  BY <1>1, <1>2, <1>3, <1>4, <1>5 DEF ResetStep

LEMMA StartTyped ==
  ASSUME TypeInv, NEW t \in Threads,
         \/ \E x \in ExtChoices : LogLock(t, x)
         \/ \E a \in DumpChoices : PrintLock(t, a)
         \/ ResetLock(t)
  PROVE  TypeOK' /\ ClaimRoom' /\ FlightTicket'
<1> USE BufferConstants, RingClosed
    DEF Goto, SpinLock, bufferVars, printVars, history, ClaimPCs, FlightPCs, FillPCs
<1>1. ASSUME NEW x \in ExtChoices, LogLock(t, x)
      PROVE  TypeOK' /\ ClaimRoom' /\ FlightTicket'
  <2>1. TypeOK'  BY <1>1 DEF LogLock, TypeInv, TypeOK
  <2>2. ClaimRoom' /\ FlightTicket'
    BY <1>1 DEF LogLock, TypeInv, LockInv, ClaimRoom, FlightTicket, InFlight
  <2>3. QED  BY <2>1, <2>2
<1>2. ASSUME NEW a \in DumpChoices, PrintLock(t, a)
      PROVE  TypeOK' /\ ClaimRoom' /\ FlightTicket'
  <2>1. PrintStart(a) \in Slots  BY DEF TypeInv, TypeOK, PrintStart
  <2>2. TypeOK'  BY <1>2, <2>1 DEF PrintLock, TypeInv, TypeOK
  <2>3. ClaimRoom' /\ FlightTicket'
    BY <1>2 DEF PrintLock, TypeInv, LockInv, ClaimRoom, FlightTicket, InFlight
  <2>4. QED  BY <2>2, <2>3
<1>3. CASE ResetLock(t)
  <2>1. TypeOK'  BY <1>3 DEF ResetLock, TypeInv, TypeOK
  <2>2. ClaimRoom' /\ FlightTicket'
    BY <1>3 DEF ResetLock, TypeInv, LockInv, ClaimRoom, FlightTicket, InFlight
  <2>3. QED  BY <2>1, <2>2
<1>4. QED  BY <1>1, <1>2, <1>3

LEMMA TypeInvStep == TypeInv /\ [Next]_vars => TypeInv'
<1> SUFFICES ASSUME TypeInv, [Next]_vars PROVE TypeInv'  OBVIOUS
<1>1. LockInv'  BY CallsKeepLockInv DEF TypeInv
<1>2. TypeOK' /\ ClaimRoom' /\ FlightTicket'
  <2>1. ASSUME NEW t \in Threads, CallStep(t)
        PROVE  TypeOK' /\ ClaimRoom' /\ FlightTicket'
    BY <2>1, LogTyped, PrintTyped, ResetTyped, LogTickets, PrintTickets, ResetTickets
       DEF CallStep
  <2>2. ASSUME NEW t \in Writers, NEW x \in ExtChoices, LogLock(t, x)
        PROVE  TypeOK' /\ ClaimRoom' /\ FlightTicket'
    BY <2>2, StartTyped DEF Threads
  <2>3. ASSUME NEW t \in Readers, NEW a \in DumpChoices, PrintLock(t, a)
        PROVE  TypeOK' /\ ClaimRoom' /\ FlightTicket'
    BY <2>3, StartTyped DEF Threads
  <2>4. ASSUME NEW t \in Resetters, ResetLock(t)
        PROVE  TypeOK' /\ ClaimRoom' /\ FlightTicket'
    BY <2>4, StartTyped DEF Threads
  <2>5. CASE UNCHANGED vars
    BY <2>5 DEF vars, bufferVars, printVars, history, TypeInv, TypeOK, ClaimRoom,
                FlightTicket, InFlight
  <2>6. QED  BY <2>1, <2>2, <2>3, <2>4, <2>5 DEF Next
<1>3. QED  BY <1>1, <1>2 DEF TypeInv

LEMMA InitTypeInv == Init => TypeInv
<1> SUFFICES ASSUME Init PROVE TypeInv  OBVIOUS
<1>1. LockInv  BY InitLockInv
<1>2. events \in [Slots -> EventType]
  BY DEF Init, EventType, EmptyEvent, Null, TicketOrNull
<1>3. <<>> \in Seq(TicketOrNull \X TicketOrNull)  BY EmptySeq
<1>4. TypeOK
  <2>1. next_write \in Slots /\ wrapped \in 0 .. WrapModulus - 1 /\ tickets \in 0 .. MaxTickets
    BY BufferConstants, RingClosed DEF Init
  <2>2. shown \in [Threads -> Seq(TicketOrNull \X TicketOrNull)]
    BY <1>3 DEF Init
  <2>3. pc \in [Threads -> {"idle"} \cup LogPCs \cup PrintPCs \cup ResetPCs]
    BY DEF Init
  <2>4. /\ ptr \in [Threads -> TicketOrNull] /\ ticket \in [Threads -> TicketOrNull]
        /\ event \in [Threads -> Slots] /\ start \in [Threads -> Slots]
    BY RingClosed DEF Init, TicketOrNull
  <2>5. /\ ext \in [Threads -> BOOLEAN] /\ all \in [Threads -> BOOLEAN]
        /\ quiet \in [Threads -> BOOLEAN]
        /\ origin \in 0 .. tickets /\ heap \subseteq Tickets
        /\ event_locked \in Nat
    BY DEF Init
  <2>6. /\ buffer_lock \in BOOLEAN /\ overtaken \in BOOLEAN /\ disturbed \in BOOLEAN
    BY DEF Init
  <2>7. QED  BY <1>2, <2>1, <2>2, <2>3, <2>4, <2>5, <2>6 DEF TypeOK
<1>5. ClaimRoom /\ FlightTicket
  BY DEF Init, ClaimRoom, FlightTicket, InFlight, FlightPCs, FillPCs
<1>6. QED  BY <1>1, <1>4, <1>5 DEF TypeInv

\* The buffer's variables keep their types: in particular no event pointer
\* leaves the ring, however the calls interleave.
THEOREM TypeCorrect == Spec => []TypeOK
<1>1. TypeInv => TypeOK  BY DEF TypeInv
<1>2. QED  BY InitTypeInv, TypeInvStep, <1>1, PTL DEF Spec

-----------------------------------------------------------------------------
\* Why two calls cannot fill one event: a filler has the event's flag set, and
\* the only other step that clears flags, a reset's, finds no call in flight
\* unless the history is disturbed - none can come into flight meanwhile, for
\* that takes the buffer's lock.
FillersLock == \A t \in Threads, s \in Slots : Filling(t, s) => events[s].lock
ResetAlone ==
  \A t, u \in Threads : pc[t] \in ResetPCs => ~InFlight(u)

FillInv ==
  /\ NoOrphanLock
  /\ disturbed \/ (FillersLock /\ OneFiller /\ ResetAlone)

LEMMA FillFrame ==
  ASSUME TypeInv, FillInv, NEW t \in Threads, NEW from, NEW to, Goto(t, from, to),
         \A u \in Threads : u # t => event'[u] = event[u],
         from \in FillPCs <=> to \in FillPCs,
         to \in FillPCs => event'[t] = event[t],
         to \in FlightPCs => from \in FlightPCs,
         to \in ResetPCs => from \in ResetPCs,
         \A s \in Slots : events'[s].lock = events[s].lock,
         UNCHANGED disturbed
  PROVE  FillInv'
<1>1. pc'[t] = to /\ pc[t] = from /\ \A u \in Threads : u # t => pc'[u] = pc[u]
  BY DEF Goto, TypeInv, LockInv
<1>2. \A u \in Threads, s \in Slots : Filling(u, s)' <=> Filling(u, s)
  BY <1>1 DEF Filling
<1>3. NoOrphanLock'  BY <1>2 DEF FillInv, NoOrphanLock
<1>4. \A u \in Threads : InFlight(u)' => InFlight(u)
  BY <1>1 DEF InFlight
<1>5. CASE ~disturbed
  <2>1. FillersLock'  BY <1>2, <1>5 DEF FillInv, FillersLock
  <2>2. OneFiller'  BY <1>2, <1>5 DEF FillInv, OneFiller
  <2>3. ResetAlone'  BY <1>1, <1>4, <1>5 DEF FillInv, ResetAlone
  <2>4. QED  BY <1>3, <2>1, <2>2, <2>3 DEF FillInv
<1>6. QED  BY <1>3, <1>5 DEF FillInv

LEMMA AdvanceKeepsFillInv ==
  ASSUME TypeInv, FillInv, NEW t \in Threads, LogAdvance(t)
  PROVE  FillInv'
<1> USE DEF LogAdvance, Goto, TypeInv, LockInv
<1>1. pc'[t] = "log_tas" /\ \A u \in Threads : u # t => pc'[u] = pc[u]
  OBVIOUS
<1>2. \A u \in Threads, s \in Slots : Filling(u, s)' <=> Filling(u, s)
  BY <1>1 DEF Filling, FillPCs
<1>3. \A u \in Threads : pc[u] \notin ResetPCs
  BY DEF BufferLockExclusive, HoldPCs
<1>4. ResetAlone'  BY <1>1, <1>3 DEF ResetAlone
<1>5. QED
  BY <1>2, <1>4, ZenonT(30) DEF FillInv, NoOrphanLock, FillersLock, OneFiller

LEMMA TakeKeepsFillInv ==
  ASSUME TypeInv, FillInv, NEW t \in Threads, LogTakeEvent(t)
  PROVE  FillInv'
<1> USE DEF LogTakeEvent, EventFree, Goto, TypeInv, LockInv
<1>1. /\ pc[t] = "log_tas" /\ pc'[t] = "log_stamp"
      /\ \A u \in Threads : u # t => pc'[u] = pc[u]
      /\ event' = event /\ disturbed' = disturbed /\ event[t] \in Slots
  BY DEF history, TypeOK
<1>2. /\ ~events[event[t]].lock
      /\ \A s \in Slots : events'[s].lock <=> (s = event[t] \/ events[s].lock)
  BY DEF TypeOK, EventType
<1>3. \A u \in Threads, s \in Slots :
        Filling(u, s)' <=> (Filling(u, s) \/ (u = t /\ s = event[t]))
  BY <1>1 DEF Filling, FillPCs
<1>4. NoOrphanLock'  BY <1>1, <1>2, <1>3 DEF FillInv, NoOrphanLock
<1>5. CASE ~disturbed
  <2>1. FillersLock'  BY <1>2, <1>3, <1>5 DEF FillInv, FillersLock
  <2>2. \A u \in Threads : ~Filling(u, event[t])
    BY <1>1, <1>2, <1>5 DEF FillInv, FillersLock
  <2>3. OneFiller'  BY <1>3, <2>2, <1>5 DEF FillInv, OneFiller
  <2>4. \A u \in Threads : pc'[u] \in ResetPCs => pc[u] \in ResetPCs
    BY <1>1
  <2>5. \A u \in Threads : InFlight(u)' => InFlight(u)
    BY <1>1 DEF InFlight, FlightPCs, FillPCs
  <2>6. ResetAlone'  BY <2>4, <2>5, <1>5 DEF FillInv, ResetAlone
  <2>7. QED  BY <1>4, <2>1, <2>3, <2>6 DEF FillInv
<1>6. QED  BY <1>1, <1>4, <1>5 DEF FillInv

LEMMA UnlockKeepsFillInv ==
  ASSUME TypeInv, FillInv, NEW t \in Threads, LogUnlock(t)
  PROVE  FillInv'
<1> USE DEF LogUnlock, Released, Goto, TypeInv, LockInv
<1>1. /\ pc[t] = "log_unlock" /\ pc'[t] = "idle"
      /\ \A u \in Threads : u # t => pc'[u] = pc[u] /\ event'[u] = event[u]
      /\ disturbed' = disturbed /\ event[t] \in Slots
  BY DEF history, TypeOK
<1>2. \A s \in Slots : events'[s].lock <=> (s # event[t] /\ events[s].lock)
  BY DEF TypeOK, EventType
<1>3. \A u \in Threads, s \in Slots : Filling(u, s)' <=> (Filling(u, s) /\ u # t)
  BY <1>1 DEF Filling, FillPCs
<1>4. Filling(t, event[t]) /\ \A s \in Slots : Filling(t, s) => s = event[t]
  BY <1>1 DEF Filling, FillPCs
<1>5. NoOrphanLock'  BY <1>2, <1>3, <1>4 DEF FillInv, NoOrphanLock
<1>6. CASE ~disturbed
  <2>1. FillersLock'
    BY <1>1, <1>2, <1>3, <1>4, <1>6 DEF FillInv, FillersLock, OneFiller
  <2>2. OneFiller'  BY <1>3, <1>6 DEF FillInv, OneFiller
  <2>3. \A u \in Threads : pc'[u] \in ResetPCs => pc[u] \in ResetPCs
    BY <1>1
  <2>4. \A u \in Threads : InFlight(u)' => InFlight(u)
    BY <1>1 DEF InFlight, FlightPCs, FillPCs
  <2>5. ResetAlone'  BY <2>3, <2>4, <1>6 DEF FillInv, ResetAlone
  <2>6. QED  BY <1>5, <2>1, <2>2, <2>5 DEF FillInv
<1>7. QED  BY <1>1, <1>5, <1>6 DEF FillInv

LEMMA ResetFieldsKeepsFillInv ==
  ASSUME TypeInv, FillInv, NEW t \in Threads, ResetFields(t)
  PROVE  FillInv'
<1> USE DEF ResetFields, Goto, TypeInv, LockInv
<1>1. /\ pc[t] = "reset_fields" /\ pc'[t] = "reset_used"
      /\ \A u \in Threads : u # t => pc'[u] = pc[u]
      /\ event' = event /\ disturbed' = disturbed /\ event[t] \in Slots
  BY DEF history, TypeOK
<1>2. \A s \in Slots : events'[s].lock <=> (s # event[t] /\ events[s].lock)
  BY DEF TypeOK, EventType
<1>3. \A u \in Threads, s \in Slots : Filling(u, s)' <=> Filling(u, s)
  BY <1>1 DEF Filling, FillPCs
<1>4. NoOrphanLock'  BY <1>2, <1>3 DEF FillInv, NoOrphanLock
<1>5. CASE ~disturbed
  <2>1. \A u \in Threads : ~InFlight(u)
    BY <1>1, <1>5 DEF FillInv, ResetAlone
  <2>2. \A u \in Threads, s \in Slots : ~Filling(u, s)
    BY <2>1 DEF InFlight, Filling, FlightPCs
  <2>3. \A u \in Threads : ~InFlight(u)'
    BY <1>1, <2>1 DEF InFlight, FlightPCs, FillPCs
  <2>4. FillersLock' /\ OneFiller' /\ ResetAlone'
    BY <1>3, <2>2, <2>3 DEF FillersLock, OneFiller, ResetAlone
  <2>5. QED  BY <1>4, <2>4 DEF FillInv
<1>6. QED  BY <1>1, <1>4, <1>5 DEF FillInv

LEMMA ResetLockKeepsFillInv ==
  ASSUME TypeInv, FillInv, NEW t \in Threads, ResetLock(t)
  PROVE  FillInv'
<1> USE DEF ResetLock, Goto, TypeInv, LockInv
<1>1. /\ pc[t] = "idle" /\ pc'[t] = "reset_fields"
      /\ \A u \in Threads : u # t => pc'[u] = pc[u]
      /\ event' = event /\ events' = events
      /\ disturbed' <=> (disturbed \/ \E u \in Threads : InFlight(u))
  BY DEF TypeOK
<1>2. \A u \in Threads, s \in Slots : Filling(u, s)' <=> Filling(u, s)
  BY <1>1 DEF Filling, FillPCs
<1>3. NoOrphanLock'  BY <1>1, <1>2 DEF FillInv, NoOrphanLock
<1>4. CASE ~disturbed'
  <2>1. FillersLock' /\ OneFiller'
    BY <1>1, <1>2, <1>4 DEF FillInv, FillersLock, OneFiller
  <2>2. \A u \in Threads : ~InFlight(u)'
    BY <1>1, <1>4 DEF InFlight, FlightPCs, FillPCs
  <2>3. ResetAlone'  BY <2>2 DEF ResetAlone
  <2>4. QED  BY <1>3, <2>1, <2>3 DEF FillInv
<1>5. QED  BY <1>3, <1>4 DEF FillInv

LEMMA FillInvStep == TypeInv /\ FillInv /\ [Next]_vars => FillInv'
<1> SUFFICES ASSUME TypeInv, FillInv, [Next]_vars PROVE FillInv'  OBVIOUS
<1> USE FillFrame DEF FlightPCs, FillPCs, TypeInv, TypeOK, EventType, history
<1>1. ASSUME NEW t \in Threads, LogStep(t) PROVE FillInv'
  <2>1. CASE LogRead(t)        BY <2>1 DEF LogRead
  <2>2. CASE LogAdvance(t)     BY <2>2, AdvanceKeepsFillInv
  <2>3. CASE LogDrop(t)        BY <2>3 DEF LogDrop
  <2>4. CASE LogTakeEvent(t)   BY <2>4, TakeKeepsFillInv
  <2>4a. CASE LogStamp(t)      BY <2>4a DEF LogStamp
  <2>5. CASE LogText(t)        BY <2>5 DEF LogText
  <2>6. CASE LogMessage(t)     BY <2>6 DEF LogMessage
  <2>7. CASE LogExtCheck(t)
    BY <2>7 DEF LogExtCheck, AfterExtCheck, AfterOldExt
  <2>8. CASE LogExtFree(t)     BY <2>8 DEF LogExtFree
  <2>9. CASE LogExtClear(t)
    <3>1. \A s \in Slots : events'[s].lock = events[s].lock
      BY <2>9 DEF LogExtClear, WithoutExt
    <3>2. \E to \in {"log_ext_store", "log_used"} : Goto(t, "log_ext_clear", to)
      BY <2>9 DEF LogExtClear, AfterOldExt
    <3>3. event' = event /\ disturbed' = disturbed
      BY <2>9 DEF LogExtClear
    <3>4. QED  BY <3>1, <3>2, <3>3 DEF ResetPCs
  <2>10. CASE LogExtStore(t)   BY <2>10 DEF LogExtStore
  <2>11. CASE LogExtPublish(t) BY <2>11 DEF LogExtPublish
  <2>12. CASE LogUsed(t)       BY <2>12 DEF LogUsed
  <2>13. CASE LogUnlock(t)     BY <2>13, UnlockKeepsFillInv
  <2>14. QED
    BY <1>1, <2>1, <2>2, <2>3, <2>4, <2>4a, <2>5, <2>6, <2>7, <2>8, <2>9, <2>10,
       <2>11, <2>12, <2>13 DEF LogStep
<1>2. ASSUME NEW t \in Threads, PrintStep(t) PROVE FillInv'
  <2>1. CASE PrintStop(t)      BY <2>1 DEF PrintStop
  <2>2. CASE PrintEvent(t)     BY <2>2 DEF PrintEvent
  <2>3. CASE PrintMessage(t)   BY <2>3 DEF PrintMessage, PrintNext
  <2>4. CASE PrintExt(t)       BY <2>4 DEF PrintExt, PrintNext
  <2>5. CASE PrintUnlock(t)    BY <2>5 DEF PrintUnlock
  <2>6. QED  BY <1>2, <2>1, <2>2, <2>3, <2>4, <2>5 DEF PrintStep
<1>3. ASSUME NEW t \in Threads, ResetStep(t) PROVE FillInv'
  <2>1. CASE ResetFields(t)    BY <2>1, ResetFieldsKeepsFillInv
  <2>2. CASE ResetUsed(t)      BY <2>2 DEF ResetUsed, AfterReset, Unused
  <2>3. CASE ResetFree(t)      BY <2>3 DEF ResetFree
  <2>4. CASE ResetExt(t)       BY <2>4 DEF ResetExt, NulledExt, WithoutExt
  <2>5. CASE ResetDone(t)      BY <2>5 DEF ResetDone
  <2>6. QED  BY <1>3, <2>1, <2>2, <2>3, <2>4, <2>5 DEF ResetStep
<1>4. ASSUME NEW t \in Writers, NEW x \in ExtChoices, LogLock(t, x) PROVE FillInv'
  BY <1>4 DEF LogLock, Threads
<1>5. ASSUME NEW t \in Readers, NEW a \in DumpChoices, PrintLock(t, a) PROVE FillInv'
  BY <1>5 DEF PrintLock, Threads
<1>6. ASSUME NEW t \in Resetters, ResetLock(t) PROVE FillInv'
  BY <1>6, ResetLockKeepsFillInv DEF Threads
<1>7. CASE UNCHANGED vars
  BY <1>7 DEF vars, FillInv, NoOrphanLock, FillersLock, OneFiller, ResetAlone,
              Filling, InFlight
<1>8. QED
  BY <1>1, <1>2, <1>3, <1>4, <1>5, <1>6, <1>7 DEF Next, CallStep

LEMMA InitFillInv == Init => FillInv
BY DEF Init, FillInv, NoOrphanLock, FillersLock, OneFiller, ResetAlone, Filling,
       FillPCs, EmptyEvent

LEMMA FillInvAlways == Spec => []FillInv
<1>1. TypeInv /\ FillInv /\ [Next]_vars => TypeInv' /\ FillInv'
  BY TypeInvStep, FillInvStep
<1>2. QED  BY InitTypeInv, InitFillInv, <1>1, PTL DEF Spec

\* However many threads log into the ring and however often it laps them, no
\* two fill one event, unless a reset began while a log call was in flight.
THEOREM FillersExclusive == Spec => []EventExclusion
<1>1. FillInv => EventExclusion  BY DEF FillInv, EventExclusion
<1>2. QED  BY FillInvAlways, <1>1, PTL

\* Every set flag has a call behind it that will clear it, resets or not: no
\* event is ever lost to the ring.
THEOREM LocksHaveOwners == Spec => []NoOrphanLock
<1>1. FillInv => NoOrphanLock  BY DEF FillInv
<1>2. QED  BY FillInvAlways, <1>1, PTL

==============================================================================
