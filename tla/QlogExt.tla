------------------------------ MODULE QlogExt ------------------------------
(***************************************************************************)
(* External events: the registry of their types (qlog_ext.c) and the       *)
(* extended data that log calls store in events with a type and the print  *)
(* callback found for it.                                                  *)
(*                                                                         *)
(* A registration runs under the registry's spin lock.  A log call tests   *)
(* its type without the lock and looks the callback up under it, much      *)
(* later, when it fills its event.  qlog_init empties the registry, while  *)
(* the application may keep the types it was given before.  A print tests  *)
(* the extended fields of an event one after the other, with no event's    *)
(* flag set, and reads them again to call the print callback.              *)
(*                                                                         *)
(* An event is taken by one log call at a time, which is QlogBuffer's      *)
(* EventExclusion; which event of the ring it is plays no part here.       *)
(* Extended data is known by the callback that can read it, and so is its  *)
(* size.  Init and cleanup run while no call does.                         *)
(***************************************************************************)
EXTENDS Integers, Sequences, FiniteSets

CONSTANTS
  Threads,
  Callbacks,       \* the print callbacks the application registers
  BtCallback,      \* qlog_ext_display_bt
  HexCallback,     \* qlog_ext_display_hex_dump
  Slots,           \* the events of a buffer
  DynamicStart,    \* QLOG_EXT_EVENT_TYPE_DYNAMIC_START
  MaxEntries,      \* the size of the table qlog_ext_events.events
  MaxLives,        \* bound: how often the library is initialised
  Null

NONE == 0
BT == 1
HEXDUMP == 2
LAST == HEXDUMP

AllCallbacks == Callbacks \cup {BtCallback, HexCallback}

\* The table is written without a look at its size: the application has to
\* keep to that many callbacks.
ASSUME ExtConstants ==
  /\ IsFiniteSet(Callbacks)
  /\ BtCallback # HexCallback
  /\ Cardinality(AllCallbacks) <= MaxEntries
  /\ Null \notin AllCallbacks
  /\ DynamicStart \in Nat /\ DynamicStart > LAST
  /\ MaxEntries \in Nat /\ MaxLives \in Nat

VARIABLES
  inited,                      \* qlog_lib_inited
  table, next_event_type, initialized, table_lock,  \* qlog_ext_events
  events,                      \* the extended part of each event
  pc, cb, ret,                 \* a registration: its argument and its result
  held,                        \* what the thread's last registration returned
  msg, slot,                   \* a log call: its message and its event, also a print's
  dropped,                     \* history: the event's data was dropped during a print
  lives                        \* history: how often qlog_init ran

registry == <<table, next_event_type, initialized>>
registering == <<cb, ret, held>>
logging == <<msg, slot, dropped>>
vars == <<inited, registry, table_lock, events, pc, registering, logging, lives>>

(***************************************************************************)
(* A message: the type it is logged with, the callback its data is meant   *)
(* for, and whether the type was given out since the last qlog_init.       *)
(***************************************************************************)
Plain == [type |-> NONE, data |-> Null, fresh |-> TRUE]
BuiltIn(type, callback) == [type |-> type, data |-> callback, fresh |-> TRUE]
Held(t) == [type |-> held[t].type, data |-> held[t].callback,
            fresh |-> held[t].life = lives]

\* What the application may log with: nothing, a built-in type or its own.
Messages(t) == {Plain, BuiltIn(BT, BtCallback), BuiltIn(HEXDUMP, HexCallback), Held(t)}

NoType == [type |-> NONE, callback |-> Null, life |-> 0]
EmptyEvent == [lock |-> FALSE, ext_data |-> Null, ext_data_size |-> Null,
               ext_event_type |-> NONE, ext_print_cb |-> Null, fresh |-> TRUE]

Init ==
  /\ inited = FALSE
  /\ table = <<>>
  /\ next_event_type = 0
  /\ initialized = FALSE
  /\ table_lock = FALSE
  /\ events = [s \in Slots |-> EmptyEvent]
  /\ pc = [t \in Threads |-> "idle"]
  /\ cb = [t \in Threads |-> Null]
  /\ ret = [t \in Threads |-> NONE]
  /\ held = [t \in Threads |-> NoType]
  /\ msg = [t \in Threads |-> Plain]
  /\ slot = [t \in Threads |-> Null]
  /\ dropped = [t \in Threads |-> FALSE]
  /\ lives = 0

Goto(t, from, to) == pc[t] = from /\ pc' = [pc EXCEPT ![t] = to]

-----------------------------------------------------------------------------
(***************************************************************************)
(* qlog_init and qlog_cleanup, as far as they concern external events.     *)
(***************************************************************************)
Idle == \A t \in Threads : pc[t] = "idle"

\* Mutant of FirstDynamic: a new life goes on with the numbers of the last.
FirstDynamic_Kept == IF lives = 0 THEN DynamicStart ELSE next_event_type

FirstDynamic == DynamicStart

BuiltInTable == << [type |-> BT, callback |-> BtCallback],
                   [type |-> HEXDUMP, callback |-> HexCallback] >>

\* qlog_ext_init and the built-in events; the buffers are new.
LibInit ==
  /\ Idle /\ ~inited /\ lives < MaxLives
  /\ inited' = TRUE
  /\ table' = BuiltInTable
  /\ next_event_type' = FirstDynamic
  /\ initialized' = TRUE
  /\ table_lock' = FALSE
  /\ events' = [s \in Slots |-> EmptyEvent]
  /\ lives' = lives + 1
  /\ UNCHANGED <<pc, registering, logging>>

\* Frees the events.  The registry stays as it is, and open to registrations.
LibCleanup ==
  /\ Idle /\ inited
  /\ inited' = FALSE
  /\ events' = [s \in Slots |-> EmptyEvent]
  /\ UNCHANGED <<registry, table_lock, pc, registering, logging, lives>>

-----------------------------------------------------------------------------
(***************************************************************************)
(* qlog_ext_register_event.                                                *)
(***************************************************************************)
RegRefused(t) ==
  /\ pc[t] = "idle" /\ ~initialized
  /\ held' = [held EXCEPT ![t] = NoType]
  /\ UNCHANGED <<inited, registry, table_lock, events, pc, cb, ret, logging, lives>>

RegTest(t, c) ==
  /\ initialized
  /\ Goto(t, "idle", "reg_spin")
  /\ cb' = [cb EXCEPT ![t] = c]
  /\ UNCHANGED <<inited, registry, table_lock, events, ret, held, logging, lives>>

\* Mutant of SpinFree: does not wait for the lock.
SpinFree_Ignored == TRUE

SpinFree == ~table_lock

RegSpin(t) ==
  /\ SpinFree
  /\ Goto(t, "reg_spin", "reg_find")
  /\ table_lock' = TRUE
  /\ UNCHANGED <<inited, registry, events, registering, logging, lives>>

\* Mutant of Known: the search ends before the last entry.
Known_Early(c) == {i \in 1 .. Len(table) - 1 : table[i].callback = c}

\* The entries of a callback.
Known(c) == {i \in 1 .. Len(table) : table[i].callback = c}

\* The callback is registered already: its type is returned.
RegFound(t) ==
  /\ Goto(t, "reg_find", "reg_unlock")
  /\ \E i \in Known(cb[t]) :
       /\ \A j \in Known(cb[t]) : i <= j
       /\ ret' = [ret EXCEPT ![t] = table[i].type]
  /\ UNCHANGED <<inited, registry, table_lock, events, cb, held, logging, lives>>

\* A new entry, and index++.
RegAppend(t) ==
  /\ Known(cb[t]) = {}
  /\ Goto(t, "reg_find", "reg_next")
  /\ table' = Append(table, [type |-> next_event_type, callback |-> cb[t]])
  /\ UNCHANGED <<inited, next_event_type, initialized, table_lock, events,
                 registering, logging, lives>>

\* ret = next_event_type++: from here on the type is valid.
RegNext(t) ==
  /\ Goto(t, "reg_next", "reg_unlock")
  /\ ret' = [ret EXCEPT ![t] = next_event_type]
  /\ next_event_type' = next_event_type + 1
  /\ UNCHANGED <<inited, table, initialized, table_lock, events, cb, held, logging, lives>>

RegUnlock(t) ==
  /\ Goto(t, "reg_unlock", "idle")
  /\ table_lock' = FALSE
  /\ held' = [held EXCEPT ![t] = [type |-> ret[t], callback |-> cb[t], life |-> lives]]
  /\ cb' = [cb EXCEPT ![t] = Null]
  /\ ret' = [ret EXCEPT ![t] = NONE]
  /\ UNCHANGED <<inited, registry, events, logging, lives>>

RegStep(t) ==
  \/ RegSpin(t) \/ RegFound(t) \/ RegAppend(t) \/ RegNext(t) \/ RegUnlock(t)

-----------------------------------------------------------------------------
(***************************************************************************)
(* qlog_ext_log_long_id and the part of qlog_log_internal that stores the  *)
(* extended data.                                                          *)
(***************************************************************************)
\* Mutant of IsValid: the bound is one too high.
IsValid_OneMore(type) ==
  \/ type > NONE /\ type <= LAST
  \/ type >= DynamicStart /\ type <= next_event_type

\* qlog_ext_event_type_is_valid
IsValid(type) ==
  \/ type > NONE /\ type <= LAST
  \/ type >= DynamicStart /\ type < next_event_type

\* The call passes its tests and takes an event.  The table's lock is not
\* held: the type is tested against whatever next_event_type is now.
LogTake(t, m, s) ==
  /\ inited
  /\ m.type = NONE \/ (initialized /\ IsValid(m.type))
  /\ ~events[s].lock
  /\ Goto(t, "idle", "fill_clear")
  /\ events' = [events EXCEPT ![s].lock = TRUE]
  /\ msg' = [msg EXCEPT ![t] = m]
  /\ slot' = [slot EXCEPT ![t] = s]
  /\ UNCHANGED <<inited, registry, table_lock, registering, dropped, lives>>

\* One store of the fill.
Fill(t, from, to, e) ==
  /\ Goto(t, from, to)
  /\ events' = [events EXCEPT ![slot[t]] = e]
  /\ UNCHANGED <<inited, registry, table_lock, registering, logging, lives>>

AfterClear(t) == IF msg[t].type = NONE THEN "fill_done" ELSE "fill_data"

\* The event has no old data.
FillEmpty(t) ==
  /\ pc[t] = "fill_clear" /\ events[slot[t]].ext_data = Null
  /\ Fill(t, "fill_clear", AfterClear(t), events[slot[t]])

\* The places of a print between its tests, and before the callback is called.
PrintPCs == {"print_data", "print_size", "print_cb", "print_call"}

\* The old data is freed and its pointer nulled; the old callback stays.
FillDrop(t) ==
  /\ Goto(t, "fill_clear", "fill_drop_size")
  /\ events[slot[t]].ext_data # Null
  /\ events' = [events EXCEPT ![slot[t]].ext_data = Null]
  /\ dropped' = [u \in Threads |->
                   dropped[u] \/ (pc[u] \in PrintPCs /\ slot[u] = slot[t])]
  /\ UNCHANGED <<inited, registry, table_lock, registering, msg, slot, lives>>

\* Mutant of WithoutSize: the size of the old data stays.
WithoutSize_Kept(e) == e

WithoutSize(e) == [e EXCEPT !.ext_data_size = Null]

FillDropSize(t) ==
  Fill(t, "fill_drop_size", "fill_drop_type", WithoutSize(events[slot[t]]))

FillDropType(t) ==
  Fill(t, "fill_drop_type", AfterClear(t), [events[slot[t]] EXCEPT !.ext_event_type = NONE])

FillData(t) ==
  Fill(t, "fill_data", "fill_type",
       [events[slot[t]] EXCEPT !.ext_data = msg[t].data, !.fresh = msg[t].fresh])

FillType(t) ==
  Fill(t, "fill_type", "fill_cb", [events[slot[t]] EXCEPT !.ext_event_type = msg[t].type])

\* qlog_ext_get_print_cb: the first entry of the type, NULL if there is none.
PrintCb(type) ==
  LET mine == {i \in 1 .. Len(table) : table[i].type = type}
  IN  IF mine = {} THEN Null
      ELSE table[CHOOSE i \in mine : \A j \in mine : i <= j].callback

\* The lookup takes the table's lock and gives it back.
FillCallback(t) ==
  /\ ~table_lock
  /\ Fill(t, "fill_cb", "fill_size",
          [events[slot[t]] EXCEPT !.ext_print_cb = PrintCb(msg[t].type)])

FillSize(t) ==
  Fill(t, "fill_size", "fill_done", [events[slot[t]] EXCEPT !.ext_data_size = msg[t].data])

FillDone(t) ==
  /\ Goto(t, "fill_done", "idle")
  /\ events' = [events EXCEPT ![slot[t]].lock = FALSE]
  /\ msg' = [msg EXCEPT ![t] = Plain]
  /\ slot' = [slot EXCEPT ![t] = Null]
  /\ UNCHANGED <<inited, registry, table_lock, registering, dropped, lives>>

FillStep(t) ==
  \/ FillEmpty(t) \/ FillDrop(t) \/ FillDropSize(t) \/ FillDropType(t)
  \/ FillData(t) \/ FillType(t) \/ FillCallback(t) \/ FillSize(t) \/ FillDone(t)

-----------------------------------------------------------------------------
(***************************************************************************)
(* The print of an event's extended data in qlog_display_event: four tests *)
(* and a call, which reads data, size and callback again.                  *)
(***************************************************************************)
\* The first test.  An event without a type is passed over.
PrintType(t, s) ==
  /\ inited
  /\ events[s].ext_event_type # NONE
  /\ Goto(t, "idle", "print_data")
  /\ slot' = [slot EXCEPT ![t] = s]
  /\ UNCHANGED <<inited, registry, table_lock, events, registering, msg, dropped, lives>>

\* The field that is tested next.
Tested(t) ==
  LET e == events[slot[t]]
  IN  CASE pc[t] = "print_data" -> e.ext_data
        [] pc[t] = "print_size" -> e.ext_data_size
        [] pc[t] = "print_cb" -> e.ext_print_cb

PrintTest(t) ==
  /\ pc[t] \in {"print_data", "print_size", "print_cb"} /\ Tested(t) # Null
  /\ Goto(t, pc[t], CASE pc[t] = "print_data" -> "print_size"
                      [] pc[t] = "print_size" -> "print_cb"
                      [] pc[t] = "print_cb" -> "print_call")
  /\ UNCHANGED <<inited, registry, table_lock, events, registering, logging, lives>>

\* A test fails, or the callback is called.
PrintEnd(t) ==
  /\ \/ pc[t] \in {"print_data", "print_size", "print_cb"} /\ Tested(t) = Null
     \/ pc[t] = "print_call"
  /\ Goto(t, pc[t], "idle")
  /\ slot' = [slot EXCEPT ![t] = Null]
  /\ dropped' = [dropped EXCEPT ![t] = FALSE]
  /\ UNCHANGED <<inited, registry, table_lock, events, registering, msg, lives>>

PrintStep(t) == (\E s \in Slots : PrintType(t, s)) \/ PrintTest(t) \/ PrintEnd(t)

-----------------------------------------------------------------------------
Next ==
  \/ LibInit
  \/ LibCleanup
  \/ \E t \in Threads :
       \/ RegRefused(t)
       \/ \E c \in Callbacks : RegTest(t, c)
       \/ RegStep(t)
       \/ \E m \in Messages(t), s \in Slots : LogTake(t, m, s)
       \/ FillStep(t)
       \/ PrintStep(t)

Spec == Init /\ [][Next]_vars

-----------------------------------------------------------------------------
RegPCs == {"reg_spin", "reg_find", "reg_next", "reg_unlock"}
FillPCs == {"fill_clear", "fill_drop_size", "fill_drop_type", "fill_data", "fill_type",
            "fill_cb", "fill_size", "fill_done"}
Types == {NONE, BT, HEXDUMP} \cup (DynamicStart .. DynamicStart + MaxEntries)
Entry == [type : Types, callback : AllCallbacks]
Data == AllCallbacks \cup {Null}

\* The types of the variables: no type is given out beyond the table's size.
ExtTypeOK ==
  /\ inited \in BOOLEAN
  /\ table \in Seq(Entry)
  /\ next_event_type \in {0} \cup (DynamicStart .. DynamicStart + MaxEntries - 2)
  /\ initialized \in BOOLEAN
  /\ table_lock \in BOOLEAN
  /\ events \in [Slots -> [lock : BOOLEAN, ext_data : Data, ext_data_size : Data,
                           ext_event_type : Types, ext_print_cb : Data, fresh : BOOLEAN]]
  /\ pc \in [Threads -> {"idle"} \cup RegPCs \cup FillPCs \cup PrintPCs]
  /\ cb \in [Threads -> Data]
  /\ ret \in [Threads -> Types]
  /\ held \in [Threads -> [type : Types, callback : Data, life : 0 .. MaxLives]]
  /\ msg \in [Threads -> [type : Types, data : Data, fresh : BOOLEAN]]
  /\ slot \in [Threads -> Slots \cup {Null}]
  /\ dropped \in [Threads -> BOOLEAN]
  /\ lives \in 0 .. MaxLives

\* However many threads register the same callbacks at the same time, they
\* need one entry each: the table of fixed size, which the code never looks
\* at, is large enough for as many callbacks as it has entries.
TableFits == Len(table) <= Cardinality(AllCallbacks)

\* The event's fields, taken together, pass the tests of qlog_display_event.
Printable(e) ==
  /\ e.ext_event_type # NONE /\ e.ext_data # Null
  /\ e.ext_data_size # Null /\ e.ext_print_cb # Null

\* A print whose four tests have passed, each at another moment of perhaps
\* several fills, finds a callback when it reads the field again.  If no fill
\* has dropped the event's data since the print began, also if the print began
\* in the middle of a fill, and the type is of this life of the library, the
\* callback it calls is the one that data and size are meant for.
PrintCallFits ==
  \A t \in Threads : pc[t] = "print_call" =>
    LET e == events[slot[t]] IN
    /\ e.ext_print_cb # Null
    /\ ~dropped[t] => Printable(e)
    /\ ~dropped[t] /\ e.fresh => e.ext_print_cb = e.ext_data /\ e.ext_data_size = e.ext_data

\* A log call that passed the test of its type finds a callback for it, so no
\* complete event has data that cannot be printed: a type gets valid only
\* after its entry is in the table, and a type of an earlier life is refused
\* until it is given out again.
StoredPrintable ==
  \A s \in Slots :
    ~events[s].lock /\ events[s].ext_data # Null => Printable(events[s])

\* The binding a thread's registration has come to, from the moment it is made.
Granted(t) ==
  IF pc[t] = "reg_next" THEN <<next_event_type, cb[t]>>
  ELSE IF pc[t] = "reg_unlock" THEN <<ret[t], cb[t]>>
  ELSE <<held[t].type, held[t].callback>>

TheRegistry == INSTANCE TypeRegistry WITH
  Clients <- Threads,
  Names <- Callbacks,
  BuiltIns <- {<<BT, BtCallback>>, <<HEXDUMP, HexCallback>>},
  Numbers <- DynamicStart .. DynamicStart + MaxEntries,
  NoGrant <- <<NONE, Null>>,
  bindings <- {<<table[i].type, table[i].callback>> : i \in 1 .. Len(table)},
  granted <- [t \in Threads |-> Granted(t)]

\* Registrations by several threads are atomic: each returns the one type its
\* callback has, and bindings last until the next qlog_init.
ImplementsTypeRegistry == TheRegistry!Spec

=============================================================================
