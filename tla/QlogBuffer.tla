----------------------------- MODULE QlogBuffer -----------------------------
(***************************************************************************)
(* One qlog log buffer (qlog_buffer_t): a ring of event structures that    *)
(* any number of threads log into, print and reset at the same time.       *)
(*                                                                         *)
(* A log call (qlog_log_internal) takes the buffer's spin lock only to     *)
(* claim the next event; it then takes the event's own lock flag with an   *)
(* atomic test-and-set and fills the event without the buffer's lock.      *)
(* Printing and resetting hold the buffer's lock for their whole walk but  *)
(* never look at an event's lock flag.  Every statement whose place among  *)
(* the other threads' statements can be observed is a step of its own.     *)
(*                                                                         *)
(* A message is its ticket: the number of the claim that placed it.  The   *)
(* library is initialised and the buffer stays allocated throughout.       *)
(***************************************************************************)
EXTENDS Integers, Sequences, FiniteSets

CONSTANTS
  Size,         \* buffer_size: the number of events of the ring
  Writers,      \* threads that call the log functions
  Readers,      \* threads that print the buffer
  Resetters,    \* threads that reset the buffer
  MaxTickets,   \* bound: the number of log calls that claim an event
  WrapModulus,  \* the number of values of the int 'wrapped' (2^32)
  ExtChoices,   \* whether a call's message may carry extended data
  DumpChoices   \* which walks are printed: the log (FALSE), all events (TRUE)

ASSUME BufferConstants ==
  /\ Size \in Nat \ {0}
  /\ MaxTickets \in Nat
  /\ WrapModulus \in Nat \ {0}
  /\ ExtChoices \subseteq BOOLEAN
  /\ DumpChoices \subseteq BOOLEAN

VARIABLES
  next_write, wrapped, event_locked, buffer_lock,  \* the qlog_buffer_t
  events,                                          \* its ring of qlog_event_t
  heap,                                            \* allocated ext_data blocks
  pc, event, ptr,                                  \* locals of each thread's call
  ticket, ext,                                     \* of a log call
  start, all, shown,                               \* of a print
  tickets, origin, overtaken, disturbed, quiet     \* history, see below

(***************************************************************************)
(* History variables.  tickets counts the claims, origin is its value at   *)
(* the last reset.  A log call is in flight between its claim and its end. *)
(* overtaken says that a claim ever took the event of a call in flight,    *)
(* disturbed that a reset ever began while a call was in flight, quiet[r]  *)
(* that no call was in flight when r's print took the buffer's lock.       *)
(***************************************************************************)
history == <<tickets, origin, overtaken, disturbed, quiet>>
bufferVars == <<next_write, wrapped, event_locked>>
printVars == <<start, all, shown>>
vars == <<bufferVars, buffer_lock, events, heap, pc, event, ptr, ticket, ext,
          printVars, history>>

Threads == Writers \cup Readers \cup Resetters
Slots == 0 .. Size - 1
Tickets == 1 .. MaxTickets
Null == 0                       \* no message, no block, no ticket
head == 0                       \* the event buffer->head points to

LogPCs == {"log_read", "log_advance", "log_tas", "log_stamp", "log_text",
           "log_message", "log_ext_check", "log_ext_free", "log_ext_clear",
           "log_ext_store", "log_ext_publish", "log_used", "log_unlock"}
PrintPCs == {"print_event", "print_message", "print_ext", "print_unlock"}
ResetPCs == {"reset_fields", "reset_used", "reset_free", "reset_ext", "reset_done"}

\* Between taking the event's lock flag and clearing it.
FillPCs == LogPCs \ {"log_read", "log_advance", "log_tas"}
\* Between the claim of an event and the end of the call.
FlightPCs == FillPCs \cup {"log_tas"}
\* Where a thread holds the buffer's spin lock.
HoldPCs == {"log_read", "log_advance"} \cup PrintPCs \cup ResetPCs

Filling(t, s) == pc[t] \in FillPCs /\ event[t] = s
InFlight(t) == pc[t] \in FlightPCs
Resetting(t, s) == pc[t] \in ResetPCs /\ event[t] = s

-----------------------------------------------------------------------------
(***************************************************************************)
(* The ring.  qlog_init_buffer_internal links the events in allocation     *)
(* order and closes the list at the head.                                  *)
(***************************************************************************)
\* Mutant of Succ: the list is not closed at the head.
Succ_Open(s) == s + 1

\* The 'next' pointer of event s.
Succ(s) == IF s = Size - 1 THEN head ELSE s + 1

EmptyEvent == [lock |-> FALSE, used |-> FALSE, stamp |-> Null,
               message |-> Null, ext_data |-> Null, ext_type |-> FALSE]

Init ==
  /\ next_write = head
  /\ wrapped = 0
  /\ event_locked = 0
  /\ buffer_lock = FALSE
  /\ events = [s \in Slots |-> EmptyEvent]
  /\ heap = {}
  /\ pc = [t \in Threads |-> "idle"]
  /\ event = [t \in Threads |-> head]
  /\ ptr = [t \in Threads |-> Null]
  /\ ticket = [t \in Threads |-> Null]
  /\ ext = [t \in Threads |-> FALSE]
  /\ start = [t \in Threads |-> head]
  /\ all = [t \in Threads |-> FALSE]
  /\ shown = [t \in Threads |-> <<>>]
  /\ tickets = 0
  /\ origin = 0
  /\ overtaken = FALSE
  /\ disturbed = FALSE
  /\ quiet = [t \in Threads |-> FALSE]

Goto(t, from, to) == pc[t] = from /\ pc' = [pc EXCEPT ![t] = to]

\* Mutant of SpinLock: does not wait for the lock.
SpinLock_NoWait == buffer_lock' = TRUE

\* pthread_spin_lock returns only once the lock was free.
SpinLock == ~buffer_lock /\ buffer_lock' = TRUE
SpinUnlock == buffer_lock' = FALSE

-----------------------------------------------------------------------------
(***************************************************************************)
(* qlog_log_internal: the claim, under the buffer's lock.                  *)
(***************************************************************************)
\* A log call takes the buffer's lock; x: its message has extended data.
LogLock(t, x) ==
  /\ tickets < MaxTickets
  /\ Goto(t, "idle", "log_read")
  /\ SpinLock
  /\ ext' = [ext EXCEPT ![t] = x]
  /\ UNCHANGED <<bufferVars, events, heap, event, ptr, ticket, printVars, history>>

\* Mutant of LogRead: the lock is released before next_write moves on.
LogRead_Unlocks(t) ==
  /\ Goto(t, "log_read", "log_advance")
  /\ event' = [event EXCEPT ![t] = next_write]
  /\ SpinUnlock
  /\ UNCHANGED <<bufferVars, events, heap, ptr, ticket, ext, printVars, history>>

\* event = log_buffer->next_write
LogRead(t) ==
  /\ Goto(t, "log_read", "log_advance")
  /\ event' = [event EXCEPT ![t] = next_write]
  /\ UNCHANGED <<bufferVars, buffer_lock, events, heap, ptr, ticket, ext,
                 printVars, history>>

\* Mutant of CountWrap: tests next_write before it moves on.
CountWrap_Early(n) == IF next_write # head THEN wrapped
                      ELSE IF wrapped = WrapModulus - 1 THEN 0 ELSE wrapped + 1

\* The count of wraps when next_write becomes n.
CountWrap(n) == IF n # head THEN wrapped
                ELSE IF wrapped = WrapModulus - 1 THEN 0 ELSE wrapped + 1

\* Moves next_write on, counts a wrap at the head, and releases the lock.
LogAdvance(t) ==
  /\ Goto(t, "log_advance", "log_tas")
  /\ next_write' = Succ(event[t])
  /\ wrapped' = CountWrap(Succ(event[t]))
  /\ SpinUnlock
  /\ tickets' = tickets + 1
  /\ ticket' = [ticket EXCEPT ![t] = tickets + 1]
  /\ overtaken' = (overtaken \/ \E u \in Threads \ {t} :
                                   InFlight(u) /\ event[u] = event[t])
  /\ UNCHANGED <<event_locked, events, heap, event, ptr, ext, printVars,
                 origin, disturbed, quiet>>

-----------------------------------------------------------------------------
(***************************************************************************)
(* qlog_log_internal: the event, under its own lock flag.                  *)
(***************************************************************************)
\* The test-and-set found the flag set: the message is dropped.
LogDrop(t) ==
  /\ Goto(t, "log_tas", "idle")
  /\ events[event[t]].lock
  /\ ticket' = [ticket EXCEPT ![t] = Null]
  /\ event' = [event EXCEPT ![t] = head]
  /\ ext' = [ext EXCEPT ![t] = FALSE]
  /\ UNCHANGED <<bufferVars, buffer_lock, events, heap, ptr, printVars, history>>

\* Mutant of EventFree: the old value of the flag is ignored.
EventFree_Ignored(t) == TRUE

\* What the test-and-set returned.
EventFree(t) == ~events[event[t]].lock

LogTakeEvent(t) ==
  /\ Goto(t, "log_tas", "log_stamp")
  /\ EventFree(t)
  /\ events' = [events EXCEPT ![event[t]].lock = TRUE]
  /\ UNCHANGED <<bufferVars, buffer_lock, heap, event, ptr, ticket, ext,
                 printVars, history>>

\* gettimeofday: the event has its new time and still its old text.
LogStamp(t) ==
  /\ Goto(t, "log_stamp", "log_text")
  /\ events' = [events EXCEPT ![event[t]].stamp = ticket[t]]
  /\ UNCHANGED <<bufferVars, buffer_lock, heap, event, ptr, ticket, ext,
                 printVars, history>>

\* The old message is emptied; names and line, which follow, are left out.
LogText(t) ==
  /\ Goto(t, "log_text", "log_message")
  /\ events' = [events EXCEPT ![event[t]].message = Null]
  /\ UNCHANGED <<bufferVars, buffer_lock, heap, event, ptr, ticket, ext,
                 printVars, history>>

LogMessage(t) ==
  /\ Goto(t, "log_message", "log_ext_check")
  /\ events' = [events EXCEPT ![event[t]].message = ticket[t]]
  /\ UNCHANGED <<bufferVars, buffer_lock, heap, event, ptr, ticket, ext,
                 printVars, history>>

\* Where the call goes once the previous message's data is gone.
AfterOldExt(t) == IF ext[t] THEN "log_ext_store" ELSE "log_used"

\* Mutants of AfterExtCheck: old data makes way for new data only; old data
\* is never freed.
AfterExtCheck_OnlyForExt(t, old) ==
  IF old # Null /\ ext[t] THEN "log_ext_free" ELSE AfterOldExt(t)
AfterExtCheck_NoFree(t, old) == AfterOldExt(t)

AfterExtCheck(t, old) == IF old # Null THEN "log_ext_free" ELSE AfterOldExt(t)

\* if (event->ext_data != NULL)
LogExtCheck(t) ==
  LET old == events[event[t]].ext_data IN
  /\ Goto(t, "log_ext_check", AfterExtCheck(t, old))
  /\ ptr' = [ptr EXCEPT ![t] = IF pc'[t] = "log_ext_free" THEN old ELSE Null]
  /\ UNCHANGED <<bufferVars, buffer_lock, events, heap, event, ticket, ext,
                 printVars, history>>

\* free(event->ext_data)
LogExtFree(t) ==
  /\ Goto(t, "log_ext_free", "log_ext_clear")
  /\ heap' = heap \ {ptr[t]}
  /\ UNCHANGED <<bufferVars, buffer_lock, events, event, ptr, ticket, ext,
                 printVars, history>>

\* Mutant of WithoutExt: the event keeps its pointer to the freed block.
WithoutExt_Dangling(s) == events

WithoutExt(s) == [events EXCEPT ![s].ext_data = Null, ![s].ext_type = FALSE]

LogExtClear(t) ==
  /\ Goto(t, "log_ext_clear", AfterOldExt(t))
  /\ events' = WithoutExt(event[t])
  /\ ptr' = [ptr EXCEPT ![t] = Null]
  /\ UNCHANGED <<bufferVars, buffer_lock, heap, event, ticket, ext,
                 printVars, history>>

\* malloc and memcpy; a call's block is named by its ticket.
LogExtStore(t) ==
  /\ Goto(t, "log_ext_store", "log_ext_publish")
  /\ events' = [events EXCEPT ![event[t]].ext_data = ticket[t]]
  /\ heap' = heap \cup {ticket[t]}
  /\ UNCHANGED <<bufferVars, buffer_lock, event, ptr, ticket, ext, printVars, history>>

\* ext_event_type, ext_print_cb and ext_data_size.
LogExtPublish(t) ==
  /\ Goto(t, "log_ext_publish", "log_used")
  /\ events' = [events EXCEPT ![event[t]].ext_type = TRUE]
  /\ UNCHANGED <<bufferVars, buffer_lock, heap, event, ptr, ticket, ext,
                 printVars, history>>

LogUsed(t) ==
  /\ Goto(t, "log_used", "log_unlock")
  /\ events' = [events EXCEPT ![event[t]].used = TRUE]
  /\ UNCHANGED <<bufferVars, buffer_lock, heap, event, ptr, ticket, ext,
                 printVars, history>>

\* Mutant of Released: the flag stays set.
Released_Never(s) == events

Released(s) == [events EXCEPT ![s].lock = FALSE]

\* Mutant of LogUnlock: compares and swaps until it finds the flag set.
LogUnlock_Swaps(t) ==
  /\ Goto(t, "log_unlock", "idle")
  /\ events[event[t]].lock
  /\ events' = Released(event[t])
  /\ event' = [event EXCEPT ![t] = head]
  /\ ticket' = [ticket EXCEPT ![t] = Null]
  /\ ext' = [ext EXCEPT ![t] = FALSE]
  /\ UNCHANGED <<bufferVars, buffer_lock, heap, ptr, printVars, history>>

\* The atomic clear of the flag; the call returns QLOG_RET_OK.
LogUnlock(t) ==
  /\ Goto(t, "log_unlock", "idle")
  /\ events' = Released(event[t])
  /\ event' = [event EXCEPT ![t] = head]
  /\ ticket' = [ticket EXCEPT ![t] = Null]
  /\ ext' = [ext EXCEPT ![t] = FALSE]
  /\ UNCHANGED <<bufferVars, buffer_lock, heap, ptr, printVars, history>>

LogStep(t) ==
  \/ LogRead(t) \/ LogAdvance(t) \/ LogDrop(t) \/ LogTakeEvent(t)
  \/ LogStamp(t) \/ LogText(t) \/ LogMessage(t) \/ LogExtCheck(t)
  \/ LogExtFree(t) \/ LogExtClear(t) \/ LogExtStore(t) \/ LogExtPublish(t)
  \/ LogUsed(t) \/ LogUnlock(t)

-----------------------------------------------------------------------------
(***************************************************************************)
(* Printing.  qlog_display_print_buffer_id walks the used events from the  *)
(* oldest; qlog_display_debug_print_buffer_id and its kin walk all events  *)
(* from the head.  Each holds the buffer's lock to its end.                *)
(***************************************************************************)
\* Mutant of PrintStart: the walk of the log always begins at the head.
PrintStart_Head(a) == head

\* Where a walk begins; a: all events are printed.
PrintStart(a) == IF a \/ wrapped = 0 THEN head ELSE next_write

PrintLock(t, a) ==
  /\ Goto(t, "idle", "print_event")
  /\ SpinLock
  /\ start' = [start EXCEPT ![t] = PrintStart(a)]
  /\ event' = [event EXCEPT ![t] = PrintStart(a)]
  /\ all' = [all EXCEPT ![t] = a]
  /\ quiet' = [quiet EXCEPT ![t] = \A u \in Threads : ~InFlight(u)]
  /\ UNCHANGED <<bufferVars, events, heap, ptr, ticket, ext, shown,
                 tickets, origin, overtaken, disturbed>>

\* event = event->next, until the walk is back where it began.
PrintNext(t, from) ==
  /\ event' = [event EXCEPT ![t] = Succ(event[t])]
  /\ Goto(t, from, IF Succ(event[t]) = start[t] THEN "print_unlock" ELSE "print_event")

\* Mutant of PrintStop: returns at the unused event with the lock held.
PrintStop_Returns(t) ==
  /\ ~all[t] /\ ~events[event[t]].used
  /\ Goto(t, "print_event", "idle")
  /\ UNCHANGED <<bufferVars, buffer_lock, events, heap, event, ptr, ticket, ext,
                 printVars, history>>

\* An unused event ends the walk of the log.
PrintStop(t) ==
  /\ ~all[t] /\ ~events[event[t]].used
  /\ Goto(t, "print_event", "print_unlock")
  /\ UNCHANGED <<bufferVars, buffer_lock, events, heap, event, ptr, ticket, ext,
                 printVars, history>>

\* qlog_display_event formats the text, its timestamp first.
PrintEvent(t) ==
  LET e == events[event[t]] IN
  /\ all[t] \/ e.used
  /\ Goto(t, "print_event", "print_message")
  /\ shown' = [shown EXCEPT ![t] = Append(@, <<e.stamp, Null>>)]
  /\ UNCHANGED <<bufferVars, buffer_lock, events, heap, event, ptr, ticket, ext,
                 start, all, history>>

\* The message, then the tests of the extended data.
PrintMessage(t) ==
  LET e == events[event[t]] IN
  /\ pc[t] = "print_message"
  /\ shown' = [shown EXCEPT ![t][Len(shown[t])][2] = e.message]
  /\ IF e.ext_type /\ e.ext_data # Null
     THEN /\ Goto(t, "print_message", "print_ext")
          /\ ptr' = [ptr EXCEPT ![t] = e.ext_data]
          /\ UNCHANGED event
     ELSE PrintNext(t, "print_message") /\ UNCHANGED ptr
  /\ UNCHANGED <<bufferVars, buffer_lock, events, heap, ticket, ext, start, all, history>>

\* The print callback reads the block ptr[t].
PrintExt(t) ==
  /\ PrintNext(t, "print_ext")
  /\ ptr' = [ptr EXCEPT ![t] = Null]
  /\ UNCHANGED <<bufferVars, buffer_lock, events, heap, ticket, ext, printVars, history>>

PrintUnlock(t) ==
  /\ Goto(t, "print_unlock", "idle")
  /\ SpinUnlock
  /\ event' = [event EXCEPT ![t] = head]
  /\ start' = [start EXCEPT ![t] = head]
  /\ all' = [all EXCEPT ![t] = FALSE]
  /\ shown' = [shown EXCEPT ![t] = <<>>]
  /\ quiet' = [quiet EXCEPT ![t] = FALSE]
  /\ UNCHANGED <<bufferVars, events, heap, ptr, ticket, ext, tickets, origin,
                 overtaken, disturbed>>

PrintStep(t) ==
  PrintStop(t) \/ PrintEvent(t) \/ PrintMessage(t) \/ PrintExt(t) \/ PrintUnlock(t)

-----------------------------------------------------------------------------
(***************************************************************************)
(* qlog_reset_buffer_internal.                                             *)
(***************************************************************************)
ResetLock(t) ==
  /\ Goto(t, "idle", "reset_fields")
  /\ SpinLock
  /\ disturbed' = (disturbed \/ \E u \in Threads : InFlight(u))
  /\ UNCHANGED <<bufferVars, events, heap, event, ptr, ticket, ext, printVars,
                 tickets, origin, overtaken, quiet>>

\* qlog_reset_event_internal: the text and the lock flag.
ResetFields(t) ==
  LET s == event[t] IN
  /\ Goto(t, "reset_fields", "reset_used")
  /\ events' = [events EXCEPT ![s].stamp = Null, ![s].message = Null,
                              ![s].lock = FALSE]
  /\ UNCHANGED <<bufferVars, buffer_lock, heap, event, ptr, ticket, ext,
                 printVars, history>>

\* Mutant of AfterReset: the block is forgotten and not freed.
AfterReset_NoFree(s) == "reset_ext"

AfterReset(s) == IF events[s].ext_data # Null THEN "reset_free" ELSE "reset_ext"

\* Mutant of Unused: the event stays used.
Unused_Kept(s) == events

Unused(s) == [events EXCEPT ![s].used = FALSE]

\* The used flag, then if (event->ext_data).
ResetUsed(t) ==
  LET s == event[t] IN
  /\ Goto(t, "reset_used", AfterReset(s))
  /\ events' = Unused(s)
  /\ ptr' = [ptr EXCEPT ![t] = events[s].ext_data]
  /\ UNCHANGED <<bufferVars, buffer_lock, heap, event, ticket, ext, printVars, history>>

ResetFree(t) ==
  /\ Goto(t, "reset_free", "reset_ext")
  /\ heap' = heap \ {ptr[t]}
  /\ UNCHANGED <<bufferVars, buffer_lock, events, event, ptr, ticket, ext,
                 printVars, history>>

\* Mutant of NulledExt: the event keeps its pointer to the freed block.
NulledExt_Dangling(t, s) == [events EXCEPT ![s].ext_type = FALSE]

\* ext_data is only nulled where it was freed.
NulledExt(t, s) == IF ptr[t] # Null THEN WithoutExt(s)
                   ELSE [events EXCEPT ![s].ext_type = FALSE]

\* The rest of the extended data, and on to the next event.
ResetExt(t) ==
  LET s == event[t] IN
  /\ Goto(t, "reset_ext", IF Succ(s) = head THEN "reset_done" ELSE "reset_fields")
  /\ events' = NulledExt(t, s)
  /\ event' = [event EXCEPT ![t] = Succ(s)]
  /\ ptr' = [ptr EXCEPT ![t] = Null]
  /\ UNCHANGED <<bufferVars, buffer_lock, heap, ticket, ext, printVars, history>>

\* Mutants of Rewind: the count of wraps, or next_write, survives the reset.
Rewind_KeepsWrapped == event_locked' = 0 /\ next_write' = head /\ UNCHANGED wrapped
Rewind_KeepsNext == wrapped' = 0 /\ event_locked' = 0 /\ UNCHANGED next_write

Rewind == wrapped' = 0 /\ event_locked' = 0 /\ next_write' = head

ResetDone(t) ==
  /\ Goto(t, "reset_done", "idle")
  /\ Rewind
  /\ SpinUnlock
  /\ origin' = tickets
  /\ UNCHANGED <<events, heap, event, ptr, ticket, ext, printVars, tickets,
                 overtaken, disturbed, quiet>>

ResetStep(t) ==
  ResetFields(t) \/ ResetUsed(t) \/ ResetFree(t) \/ ResetExt(t) \/ ResetDone(t)

-----------------------------------------------------------------------------
CallStep(t) == LogStep(t) \/ PrintStep(t) \/ ResetStep(t)

Next ==
  \/ \E t \in Writers, x \in ExtChoices : LogLock(t, x)
  \/ \E t \in Readers, a \in DumpChoices : PrintLock(t, a)
  \/ \E t \in Resetters : ResetLock(t)
  \/ \E t \in Threads : CallStep(t)

Spec == Init /\ [][Next]_vars

\* A thread inside a call is scheduled again; nobody has to start a call.
FairSpec == Spec /\ \A t \in Threads : WF_vars(CallStep(t))

-----------------------------------------------------------------------------
(***************************************************************************)
(* Properties.  Those that mention disturbed are about histories in which  *)
(* no reset began while a log call was in flight: a reset clears the lock  *)
(* flags of events that are being filled.                                  *)
(***************************************************************************)
TicketOrNull == Tickets \cup {Null}

EventType == [lock : BOOLEAN, used : BOOLEAN,
              stamp : TicketOrNull, message : TicketOrNull,
              ext_data : TicketOrNull, ext_type : BOOLEAN]

\* The types of the variables: in particular every event pointer (next_write,
\* a call's event, the start of a walk) stays inside the ring.
TypeOK ==
  /\ next_write \in Slots
  /\ wrapped \in 0 .. WrapModulus - 1
  /\ event_locked \in Nat
  /\ buffer_lock \in BOOLEAN
  /\ events \in [Slots -> EventType]
  /\ heap \subseteq Tickets
  /\ pc \in [Threads -> {"idle"} \cup LogPCs \cup PrintPCs \cup ResetPCs]
  /\ event \in [Threads -> Slots]
  /\ ptr \in [Threads -> TicketOrNull]
  /\ ticket \in [Threads -> TicketOrNull]
  /\ ext \in [Threads -> BOOLEAN]
  /\ start \in [Threads -> Slots]
  /\ all \in [Threads -> BOOLEAN]
  /\ shown \in [Threads -> Seq(TicketOrNull \X TicketOrNull)]
  /\ tickets \in 0 .. MaxTickets
  /\ origin \in 0 .. tickets
  /\ overtaken \in BOOLEAN
  /\ disturbed \in BOOLEAN
  /\ quiet \in [Threads -> BOOLEAN]

\* The claim, a print and a reset exclude each other, and the spin lock is
\* taken exactly while one of them runs: no path leaves without releasing it.
BufferLockExclusive ==
  /\ \A t, u \in Threads : pc[t] \in HoldPCs /\ pc[u] \in HoldPCs => t = u
  /\ buffer_lock <=> \E t \in Threads : pc[t] \in HoldPCs

\* next_write and wrapped always say how many events were claimed since the
\* last reset: no claim is lost or counted twice, whatever was in flight.
ClaimAccounting ==
  buffer_lock \/
    /\ next_write = (tickets - origin) % Size
    /\ wrapped = ((tickets - origin) \div Size) % WrapModulus

\* A set lock flag has a call behind it that will clear it, so no event is
\* ever lost to the ring - also when resets clear flags at any moment.
NoOrphanLock ==
  \A s \in Slots : events[s].lock => \E t \in Threads : Filling(t, s)

\* The newest messages of the log in the order of their claims.
LogWindow ==
  LET logged == tickets - origin
      n == IF logged < Size THEN logged ELSE Size
  IN  [i \in 1 .. n |-> <<tickets - n + i, tickets - n + i>>]

\* The newest message that belongs in event s, Null if none was claimed.
NewestFor(s) ==
  LET mine == {k \in origin + 1 .. tickets : (k - origin - 1) % Size = s}
  IN  IF mine = {} THEN Null ELSE CHOOSE k \in mine : \A j \in mine : j <= k

\* 'wrapped' is zero although the ring has wrapped.
WrapsForgotten ==
  tickets - origin >= Size /\ ((tickets - origin) \div Size) % WrapModulus = 0

\* Unless a log call was overtaken or disturbed, or the count of wraps came
\* round to zero, a print that starts when no call is in flight shows exactly
\* the newest Size messages since the last reset, whole and in order, and a
\* print of all events shows each event once, with its newest message.
PrintExact ==
  \A t \in Threads :
    /\ pc[t] = "print_unlock" /\ quiet[t] /\ ~overtaken /\ ~disturbed
    /\ all[t] \/ ~WrapsForgotten
    => shown[t] = IF all[t]
                  THEN [i \in 1 .. Size |-> <<NewestFor(i - 1), NewestFor(i - 1)>>]
                  ELSE LogWindow

-----------------------------------------------------------------------------
\* No two calls fill the same event at the same time (qlog.c:613-629).
OneFiller ==
  \A s \in Slots : \A t, u \in Threads : Filling(t, s) /\ Filling(u, s) => t = u

\* The test-and-set keeps fillers apart unless a reset cleared a flag in use.
EventExclusion == disturbed \/ OneFiller

\* A used event whose flag is clear holds one whole message: its text, and
\* with it either that same message's extended data or none.
UnlockedEventWhole ==
  disturbed \/ \A s \in Slots :
    LET e == events[s] IN
    e.used /\ ~e.lock /\ (\A t \in Threads : ~Resetting(t, s)) =>
      /\ e.message # Null /\ e.stamp = e.message
      /\ e.ext_type <=> e.ext_data # Null
      /\ e.ext_data \in {Null, e.message}

\* A log call or a reset never frees a block that is already free.
NoDoubleFree ==
  disturbed \/ \A t \in Threads :
    pc[t] \in {"log_ext_free", "reset_free"} => ptr[t] \in heap

\* Every allocated block can still be found, and so freed, through an event.
NoLeak == disturbed \/ heap \subseteq {events[s].ext_data : s \in Slots}

\* A print that began with no call in flight hands its callback only blocks
\* that are still allocated: no call can begin to fill an event meanwhile.
QuietPrintReadsLive ==
  disturbed \/ \A t \in Threads :
    pc[t] = "print_ext" /\ quiet[t] => ptr[t] \in heap

\* A message is dropped only when the ring has come round to a call that has
\* not finished: never because of a flag left behind.
DropOnlyOvertaken ==
  \A t \in Threads : pc[t] = "log_tas" /\ events[event[t]].lock => overtaken

\* The promise of EventRing: an event's filler is the ticket of the call that
\* fills it; it holds a message when the message is whole and published.
FillerOf(s) ==
  IF events[s].lock
  THEN ticket[CHOOSE t \in Threads : Filling(t, s)]
  ELSE Null
HeldBy(s) ==
  IF events[s].lock \/ ~events[s].used THEN Null
  ELSE IF events[s].stamp = events[s].message THEN events[s].message ELSE -1
Cursor == IF \E t \in Threads : pc[t] = "log_advance"
          THEN event[CHOOSE t \in Threads : pc[t] = "log_advance"]
          ELSE next_write
Waiting == {<<ticket[t], event[t]>> : t \in {u \in Threads : pc[u] = "log_tas"}}
Cells == [s \in Slots |-> [filler |-> FillerOf(s), holds |-> HeldBy(s)]]
Ring == INSTANCE EventRing WITH
  claims <- tickets, cursor <- Cursor, waiting <- Waiting, cell <- Cells

\* The buffer implements EventRing: every claim goes to the next event of the
\* ring, fills it alone or is dropped, and ends with its whole message in it.
ImplementsEventRing == Ring!Spec

-----------------------------------------------------------------------------
\* Liveness, under FairSpec.

\* Whoever holds the buffer's lock gives it back: both walks end.
LockReleased == buffer_lock ~> ~buffer_lock

\* A log call that has claimed its event ends, whatever the others do.
LogCallEnds == \A t \in Writers : pc[t] = "log_tas" ~> pc[t] = "idle"

\* An event that is being filled becomes available again.
EventReleased == \A s \in Slots : events[s].lock ~> ~events[s].lock

-----------------------------------------------------------------------------
\* What comments of the repository say and the code does not do.

\* qlog_internal.h:55: event_locked counts the messages dropped because their
\* event was locked.
DropsAreCounted ==
  [][\A t \in Threads : pc[t] = "log_tas" /\ pc'[t] = "idle"
       => event_locked' = event_locked + 1]_vars

\* qlog_display_debug.c:25-26: a print of all events shows log messages and
\* empty slots, so the parts of every line belong to the same message.
PrintedAreMessages ==
  \A t \in Threads : pc[t] = "print_unlock" /\ all[t] =>
    \A i \in 1 .. Len(shown[t]) : shown[t][i][1] = shown[t][i][2]

=============================================================================
