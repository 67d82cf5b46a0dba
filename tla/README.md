# qlog in TLA+

A specification of the qlog library: what its code does, step by step, where
several threads run it at once, the properties it keeps and those it does not,
model-checked with TLC on small instances and, for the ones marked so, proved
with TLAPS for every size.

## The system

qlog stores log messages in rings of preallocated events and prints them later.
An application calls it from any number of threads; a console server thread
offers the same operations over TCP.

| Component | State | Operations | Shared with |
|---|---|---|---|
| **Log buffer** (`qlog.c:397-720`, `qlog_display.c`, `qlog_display_debug.c`) | `head`, `next_write`, `wrapped`, `event_locked`, a spin lock; per event: text, `used`, `lock`, extended data | claim and fill an event, print (used events or all), reset | every thread |
| **Library lifecycle and global lock** (`qlog.c:53-247, 757-871`) | `qlog_lib_inited`, `qlog_buffers[]`, the default buffer and its id, the global spin lock and its state | init, create buffer, reset all, cleanup, lock and unlock | every thread; calls the buffer and the registry |
| **Logging switch** (`qlog.c:355-365, 727-742`) | `qlog_enabled` | enable, disable, toggle | read by every log call |
| **Public log calls** (`qlog.c:258-353`, `qlog_ext.c:96-152`, `qlog_utils.h`) | thread-local name and indentation | the guards in front of `qlog_log_internal` | lifecycle, switch, registry |
| **External event registry** (`qlog_ext.c:15-93, 154-183`) | table of types and callbacks, `index`, `next_event_type`, `initialized`, a spin lock | init, register, look up, validate | called with an event's flag set |
| **Console server** (`qlog_server.c`) | active buffer, one connection | the commands 1-7 and q | calls buffer and switch from its own thread |
| **Formatting** (`qlog_display.c:18-59`, `qlog_ext_utils.c`) | none | text of an event, hex dump, backtrace | called by the print walks |

What is hard about it: one spin lock protects the claim of an event, a separate
flag in each event protects its filling, and the two are deliberately not held
together. So a call can be overtaken by the ring, a print reads events that are
being filled, and a reset clears flags that are in use. On top, a global lock
whose state word is read and written outside the lock, and a cleanup that frees
what other threads may be using. Nothing is persisted and no message crosses a
lossy channel, so crash recovery and redelivery do not arise. The registry of
event types is read without its lock and emptied when the library is initialised
again, while applications keep the types they were given. And the console obeys
text from a network connection, in a thread the application has to wait for, with
system calls that fail. The full list of hazards, each at its line, is in
`PROJECT.json`.

What makes each component correct:

* Log buffer: an event has one filler; a complete event holds one message and at
  most that message's data; data blocks are freed exactly once; claims go round
  the ring without gaps; a print that nobody disturbs shows exactly the newest
  messages; every lock and flag taken is given back.
* Lifecycle: operations on the buffer table exclude each other; the global lock
  is never left taken; the default buffer and its id agree; nothing freed is used.
* Switch: the value stays 0 or 1.
* Registry: a callback has one type and a type one callback for as long as the
  library lives; the fixed table holds; extended data is shown by the callback it
  was logged for.
* Server: it obeys what the lines say and nothing else, on the buffer the user
  selected; a reset leaves nothing behind and touches no other buffer; the session
  ends and gives back what it opened; no buffer is used after the cleanup.

## Modules

| Module | What it is |
|---|---|
| `QlogBuffer` | one log buffer and the threads that log into it, print it and reset it |
| `EventRing` | what the buffer promises its writers, with atomic claims, fills and drops |
| `MCQlogBuffer` | constants for TLC |
| `QlogBuffer_proofs` | theorems about `QlogBuffer`: types, the lock, who fills an event |
| `QlogClaims_proofs` | theorems about its claims: what `next_write` and `wrapped` count, who meets whom |
| `QlogEvents_proofs` | theorems about what its events hold: whole messages and live blocks |
| `QlogPrint_proofs` | theorems about what its prints show |
| `QlogRing_proofs` | `QlogBuffer` implements `EventRing` |
| `QlogLib` | the life of the library: init, create, reset, dump, cleanup, the global lock, the switch, and the guards of a log call |
| `MCQlogLib` | constants for TLC |
| `QlogLib_proofs` | theorems about `QlogLib` |
| `QlogExt` | external events: the registry of types and the extended data of events, over several lives of the library |
| `TypeRegistry` | what the registry promises, with atomic registrations |
| `MCQlogExt` | constants for TLC |
| `QlogExt_proofs` | theorems about `QlogExt` |
| `QlogServer` | the console server and the application beside it |
| `MCQlogServer` | constants for TLC, among them what clients send |
| `QlogServer_proofs` | theorems about `QlogServer` |

### QlogBuffer

`next_write`, `wrapped`, `event_locked` and `buffer_lock` are the fields of
`qlog_buffer_t`; `events` is the ring, an event being named by its position
behind `head`; `heap` is the set of allocated extended-data blocks. Each thread
has a `pc` and the locals of its call (`event`, `ptr`, `ticket`, `ext`, and for a
print `start`, `all`, `shown`). A thread may play several roles.

A **log call** (`qlog_log_internal`) is `LogLock`, `LogRead`, `LogAdvance` under
the buffer's lock, then `LogTakeEvent` or `LogDrop` (the test-and-set), then the
fill, one action per group of stores whose order another thread can observe:
`LogStamp`, `LogText`, `LogMessage`, the release of the old extended data (`LogExtCheck`,
`LogExtFree`, `LogExtClear`), the new data (`LogExtStore`, `LogExtPublish`),
`LogUsed` and `LogUnlock`. A **print** is `PrintLock`, then per event
`PrintEvent`, `PrintMessage` and perhaps `PrintExt`, and `PrintUnlock`;
`all = FALSE` is `qlog_display_print_buffer_id`, `all = TRUE` the walk of
`qlog_display_debug.c`. A **reset** is `ResetLock`, per event `ResetFields`,
`ResetUsed`, `ResetFree`, `ResetExt`, and `ResetDone`.

Abstractions: a message is the number of the claim that placed it (`ticket`); an event
keeps its time as `stamp` and its text as `message`, so a torn event can be told from a
whole one; its names and line number, stored with the text, are left out; a block of
extended data is named by the ticket that allocated it; type, callback and size of the
data are one flag `ext_type`, set last and tested as a whole; `QlogExt` has them store
by store and read by read. Steps are sequentially consistent. A thread waiting for the spin lock is still
`idle`, its lock action not yet enabled.

History variables, not in the code: `tickets` and `origin` count claims,
`overtaken` records that the ring came round to a call that had not finished,
`disturbed` that a reset began with a log call in flight, `quiet[t]` that no call
was in flight when a print began. The properties use them to say under which
circumstances the code keeps its promise: without these conditions they fail, and
the `doc_` runs show how.

### EventRing

Numbered claims go round the events; a claim begins to fill its event or, if it is
being filled, is dropped; a fill ends with the claim's message in the event. The
refinement (`ImplementsEventRing`) maps an event with its flag set to the ticket of
the call filling it, and a complete event to its message; the half-done claim
between `LogRead` and `LogAdvance` does not show because of the spin lock.
EventRing has no reset, so this holds of a buffer that is never reset.

### QlogLib

`inited`, `enabled`, `buffers`, `default_buf`, `default_id` are the globals of
`qlog.c`; `glock` is the spin lock and `gstate` the state word beside it, the two
the code never changes together. `live` is the set of allocated buffers. Buffers are
opaque: what happens inside one is `QlogBuffer`'s subject, and a call that resets,
prints, frees or logs into one is a step that needs it to be allocated. Each thread
has a `pc`, the name of its `call`, the loop variable or slot `idx` and a buffer
pointer `buf`; every call begins with `Start` and ends with `Return`.

* The **lock**: `LockTest` / `LockRefused` read flag and word without the lock,
  `LockSpin` takes it, `LockMark` stores the word. `UnlockTest` / `UnlockRefused`,
  `UnlockSpin`, `UnlockMark` are the way back, in the code's order: the lock first,
  the word second. A refused dump goes on (`qlog.c:970`), any other call gives up.
* **Init** re-initialises the lock, clears the table and may or may not get its
  default buffer; **create** finds the first free slot, allocates and perhaps
  becomes the default; **reset** and **dump** visit every slot (`Visit`);
  **cleanup** disables logging, frees slot by slot (`CleanupFree`), then clears the
  flag, the table, the lock and the word in the code's order.
* The **switch**: `ToggleTest`, then the second test in `Disable` or `Enable`, then
  the atomic addition (`SwitchChange`). Init and cleanup use the same steps.
* A **log call** tests, loads the pointer, tests again at the buffer's lock and
  fills (`LogTest`, `LogLoad`, `LogClaim`, `LogFill`), without the global lock.

Every allocation may fail. If the buffer itself cannot be had, the call goes on
without one. If one of its events cannot be had, the code cleans up the half-built
buffer through that buffer's own lock: in `qlog_init` that lock is refused, because
the library is not initialised yet, and the memory stays behind (`InitStrands`); in
`qlog_create_buffer` the lock is zeroed memory that nobody has initialised. What that
reads as depends on the platform, so both outcomes are steps: taken, and the call
never comes back (`CreateHangs`, place `hung`; so it is on x86), or free, and the
memory is freed again (`CreateNoMemory`, which is also the failure to get the buffer
itself). `stranded` holds the buffers left behind.

`full_lock` of `qlog_lock_global` is never passed by the library and the state
`QLOG_LOCK_FULL` not modelled. The lock of a single buffer appears only through its
test of `inited`; it never stays taken (`LockReleased` in `QlogBuffer`).

`Joined` says whether the application runs `qlog_init` and `qlog_cleanup` on their
own, as the tests do; it restricts `MayStart` and nothing else. History variables:
`owner` is who took the spin lock last and has not lost it, `intruded` that somebody
released another's lock, `overwritten` that the word was set to `UNLOCKED` under an
owner, `overlapped` that two calls were between test and change of the switch. The
code provides against none of the three events; the properties say what holds until
one happens, and `doc_unlock` shows one happening.

### QlogExt

`table`, `next_event_type`, `initialized` and `table_lock` are the fields of
`qlog_ext_events` (`index` is the length of `table`); `events` keeps the flag and the
four extended fields of each event. A **registration** is `RegTest`, `RegSpin`, then
`RegFound`, or `RegAppend` and `RegNext`, then `RegUnlock`: the entry is in the table
before the type becomes valid. A **log call** is `LogTake`, which tests the type
without the lock and takes an event, and one step per store of the fill, with the
lookup (`FillCallback`) under the registry's lock. A **print** of an event's extended
data is one step per field that `qlog_display_event` tests (`PrintType`, then
`PrintTest` three times; `PrintEnd` when one fails) and the call (`PrintEnd` at
`print_call`), which reads data, size and callback again; it holds no event's flag and
may meet any number of fills on its way. **Init** starts the registry again,
**cleanup** frees the events and leaves the registry as it is, open to registrations
and to the types it gave out. Init and cleanup run while no call does.

Extended data is named by the callback it is meant for, so its size is, too. Which
event a call takes is `QlogBuffer`'s subject; here any free one will do, and nobody
takes an event twice, which is its `EventExclusion`. An application logs with no type,
a built-in type, or the type its last registration returned, perhaps in an earlier
life (`held`); `fresh` records that a type is of this life. Types of an earlier life
are the reason: registered again in another order, the same number names another
callback, and the code shows the data with it. `dropped[t]` records that a fill has
dropped the data of the event since `t`'s print of it began: then the print may go on to
call the old callback with the new data, or with none. `PrintCallFits` says that these
two are the only ways to a callback that does not fit, and that there is no way at all to
a missing one. What the callback does is not modelled.

`TypeRegistry` binds types to callbacks in one step. `ImplementsTypeRegistry` maps the
table to the set of its bindings and a registration to the moment its result is
fixed, so several threads that register at once never give a callback two types.

### QlogServer

Three parties: the application (`app`, `handle`), the handler threads (`pc` and `open`,
the descriptors each has), and the client that connects, whose characters (`input`) are
chosen when it does and read one by one (`pos`). A handler goes through its system calls
(`Socket` to `Fdopen`), each of which may fail, then loops over `Menu`, `read_line`
(`ReadChar`, ended by `ReadCommand`, `ReadAnswer` or `ReadStops`) and the command.
`3` and `5` visit the active buffer, `4` and `6` every buffer in turn; a visit tests
that the buffer is there (`Visit`, `Skip`) and then uses it (`Touch`), and in between the
application may do anything. The socket it listens at is never closed, so `port` is
taken for ever by the first handler that binds it: one session at a time, and a second
server fails. The variables of the session are those of the one handler that gets that
far.

Characters are strings; `FF` is the byte 0xff, which the code takes for an end of file,
and `Failure` a read that fails. `Number` is `strtol` with base 0 on what the array
kept: leading blanks, a sign, `0` or `0x` in front, digits of either case, up to the
first character that is none. `Chosen` is the cut to an unsigned char, or buffer 0 for a
number out of range (`qlog_server.c:149`). With `LongMax` as large as it is the seven
characters of the code's array do not get there; the theorems hold for any `LongMax` and
any length, and the run has a small `LongMax` so that it happens. Printing is not modelled,
except that writing to a client that has hung up ends the whole program (`SigPipe`),
which nothing in the code prevents. A buffer is the set of messages logged since its
last reset; how the call works inside is `QlogBuffer`'s subject. Toggling is atomic
here; `SwitchBinary` of `QlogLib` is about the race.

The application creates buffers, logs, starts servers, waits and cleans up, in any order:
nothing in the library makes it wait. If it cleans up while its server runs, the cleanup
frees buffers in use (`TouchFreed`, after which nothing more is said). If it starts a
second server while the first runs, the handle of the first is lost and the same happens
though it waits, for the wrong thread. `abandoned` records that it started a server or
cleaned up with one running that it knew of (`Unjoined`); `ServerTouchesLive` is about
the applications that do neither.

`SessionFollowsInput` compares the session with a second reading of the input: its
lines, cut at the line ends and at the length of the array, those that answer a `2`,
the last good answer, and whether a line ended the session. An empty line does, as
`read_line` returns the same for it as for the end of the input; the comment there
("error of EOF", `qlog_server.c:128`) does not mention it.

## Runs

| Run | Instance | What it shows |
|---|---|---|
| `buffer_log` | 2 loggers, 1 printer, 2 events, 5 claims, `wrapped` counted modulo 2 | The ring is lapped more than twice, with and without extended data: `EventExclusion`, `UnlockedEventWhole`, `NoDoubleFree`, `NoLeak`, `QuietPrintReadsLive`, `PrintExact`, `ClaimAccounting` (over the overflow of the count), `BufferLockExclusive`, `ImplementsEventRing` |
| `buffer_reset` | 2 loggers, 1 resetter, 2 events, 3 claims | Resets at any moment: no orphaned flag, no drop without a cause, accounting restarts, and data blocks stay safe as long as resets begin with no call in flight |
| `buffer_live` | 2 loggers, 1 printer, 1 resetter, 2 events, 2 claims, fair | `LockReleased`, `LogCallEnds`, `EventReleased`, and `PrintExact` after resets |
| `doc_filler` | 2 loggers, 1 resetter | violated: two calls fill one event after a reset |
| `doc_printed` | 2 loggers, 1 printer | violated: a print shows an event in the middle of being filled |
| `doc_drops` | 2 loggers, 1 resetter | violated: a drop is not counted |
| `lib_calls` | 2 threads, all calls, 2 slots, 2 buffers, init and cleanup on their own | `TableExclusive`, `TableOwns` (no buffer lost, shared or freed early), `DefaultAgrees`, `SwitchBinary`, `CleanupClears`, `NoOrphanGlobalLock`, `LogTouchesLive`, with allocations failing anywhere |
| `doc_unlock` | 2 threads that create and reset | violated: an unlock is refused and the global lock stays taken |
| `doc_create` | 2 threads that create | violated: a failed create returns the id of another call's buffer |
| `doc_cleanup` | a logger next to a cleanup | violated: the log call uses a freed buffer |
| `ext_types` | 2 threads, 1 event, 2 own callbacks and a built-in one, table of 4, 2 lives | `TableFits` (the table is never written past its end), `PrintCallFits`, `StoredPrintable`, `ImplementsTypeRegistry` |
| `server_session` | 38 inputs, 2 starts, 2 buffers, 2 messages, fair | `SessionFollowsInput`, `ClearedAsAsked`, `DescriptorsReturned`, `ServerTouchesLive`, `WaitReturns`, with every system call failing or not |

Bounds. Two events are the least for which the walk, the wrap and the rewind all
differ from one another; five claims let each event be claimed twice and one a
third time, which a dangling pointer needs to be freed again. Two loggers suffice
for every pairwise conflict over an event; a third adds only more waiting. The
modulus of `wrapped` stands for 2^32; 2 makes it overflow within the bound. The
proofs cover the other sizes for the properties they are about. The loggers are
interchangeable in the safety runs (symmetry); the fair run uses none. `MaxTickets`
bounds the claims; when it is used up the printer or the resetter can still run, so
deadlock is checked in every buffer run.

For the library, two threads give every conflict over the lock and its word: the
overwritten word needs one thread behind its test and one between its two stores. Two
slots are the least for which the first free slot, the last slot and the default one
can differ, and two buffers fill them; so the table gets full and the allocator runs
dry. The library run is not bounded in the number of calls: its states are finite.
Deadlock is not checked in `lib_calls`, `doc_unlock` and `doc_create`, because
threads of the real program wait for ever there: once the word is overwritten or a
create hangs, the global lock is never given back. `NoOrphanGlobalLock` says that
there is no other way: otherwise an owner stands at a step that is always enabled,
`hung` excepted.

For the registry, two threads give every conflict over the lock, two callbacks of the
application's own can be registered in either order in the two lives, and the built-in
one is found instead of entered; the table has exactly the entries that need, so one too
many shows. One event is enough, as events do not interact. For the server, the inputs
are all sequences of up to two characters over a command, a reset, a line end and 0xff,
and 17 sessions, each for one thing: lines longer than the array, with the surplus full
of commands; answers that are empty, broken off, failed, negative, octal, hexadecimal,
with blanks and a plus sign, above a byte, above `LongMax` (1000 in the run); a command
that breaks off. Two starts are what it takes to lose a
handle. Deadlock is not checked there, as the program may end; `WaitReturns` says that
no session gets stuck.

Fairness. `FairSpec` of `QlogBuffer` asks that a thread inside a call takes its next step if it
can go on being able to: threads are scheduled by the kernel and nothing in a call
blocks once the buffer's lock is held. Nobody is assumed to start a call, and
nothing is assumed of the order in which a spin lock is granted, so no property
says that a thread waiting for the lock ever gets it. `FairSpec` of `QlogServer` asks the
same of a handler outside `accept`, and so that the client goes on sending until it
closes its side, and that it takes what is written: a client that does neither stops
the handler and, as a print writes with the buffer's lock held, every thread that logs
into that buffer. Nobody is assumed to connect.

## Proofs

`QlogBuffer_proofs`, from the assumptions `BufferConstants` (a positive ring size)
and nothing else - any sets of threads, overlapping or not:

* `LockExclusion`: `Spec => []BufferLockExclusive`. The property is inductive with
  the type of `pc`; every step takes the free lock, gives back the held one or
  does neither (`LockKind`), so one lemma covers all actions.
* `TypeCorrect`: `Spec => []TypeOK`. Not inductive alone: that a claim's ticket is
  within bounds needs that no other claim runs at the same time (`ClaimRoom`, from
  the lock), and that a stored block has a name needs that calls in flight have
  tickets (`FlightTicket`). `TypeInv` joins them.
* `FillersExclusive` and `LocksHaveOwners`: `Spec => []EventExclusion` and
  `Spec => []NoOrphanLock`, from `FillInv`: while undisturbed every filler has its
  event's flag set, and a running reset finds nobody in flight, because coming
  into flight takes the lock the reset holds.

The other modules about the buffer build on these, each on the one before, from the
same assumption:

* `QlogClaims_proofs`. `ClaimsAccounted`: `Spec => []ClaimAccounting`, from `AccountInv`,
  which has the counts right with the lock taken, too, and adds that a call about to
  store `next_write` has read its last value (`CursorHeld`); the rest is division by the
  ring's size, for every modulus of `wrapped`. `DropsAreOvertaken`: `Spec =>
  []DropOnlyOvertaken`, from `FlightInv`: calls in flight have tickets of their own and
  two of them meet at an event only if one was overtaken. With `FillInv`, a set flag has
  a filler, so a call that finds one met it.
* `QlogEvents_proofs`. `UnlockedEventsWhole`, `BlocksFreedOnce` and `BlocksReachable`:
  `Spec => []UnlockedEventWhole`, `Spec => []NoDoubleFree`, `Spec => []NoLeak`, from
  `EventsInv`: at each place of the one call or reset that works on an event, what is
  done of it (`Stage`); an event nobody works on is `Settled`; a block is in one event
  only, and no block has the ticket of a call that has yet to store its own
  (`BlocksKept`). What is invariant is `disturbed \/ EventsInv`, because two calls may
  work on an event after a reset disturbed them.
* `QlogPrint_proofs`. `QuietPrintsReadLive`: `Spec => []QuietPrintReadsLive`, from `WalkInv`:
  who prints quietly holds the lock, so nobody comes into flight and every step
  meanwhile is its own (`QuietAlone`), and the walk has shown what is in the events
  (`Progress`). `PrintsExact`: `Spec => []PrintExact`, from `ContentInv` besides: the newest
  message that belongs in an event is in it or in the making, unless a call was
  overtaken or disturbed, and a running reset leaves empty events behind it. The walk
  from the oldest event on is then the list of the newest messages (`ListOf`, by the
  same division).
* `QlogRing_proofs`. `ImplementsRing`: `Spec => ImplementsEventRing` for `Resetters = {}`, as in
  the run: a reset takes `next_write` back to the head, which `EventRing` does not
  know. `LogAdvance` is the ring's claim, `LogTakeEvent` begins a fill, `LogDrop` drops,
  `LogUnlock` commits, and every other step leaves `Cursor`, `Waiting` and `Cells` as
  they are. It needs `EventsInv`: what the ring sees of an event with its flag clear is
  the message it was given.

`QlogLib_proofs`, from the assumptions `LibConstants` (a positive table size, the
calls of a thread are calls, `Null` is no buffer, `Nobody` no thread). The first three
hold for either value of `Joined`, so also for a program that cleans up while others
log:

* `TableExclusion`: `Spec => []TableExclusive`. The property alone is not inductive:
  it has to cover every place between taking the lock and giving it back (`HoldsAt`),
  and to tie those places to `owner`, so that a free lock means an empty inside.
  `OwnInv` says both; each step takes the free lock, releases whatever is held, or
  keeps it (`OwnStep`). The state word plays no part: the argument shows that the
  word may be wrong at any time and only the release of a lock one does not own can
  break the exclusion.
* `LibTypeCorrect`: `Spec => []LibTypeOK`, with `TypeInv`, which adds that a create
  call about to store its buffer has a slot, and uses that a loop's next index is
  within the table (`LoopType`).
* `SwitchStaysBinary`: `Spec => []SwitchBinary`, from `SwitchInv`: as long as no two calls
  were between test and change, the one that is there finds the switch as it was tested.

The others say `ASSUME Joined PROVE Spec => [](...)`: they are about programs that run
`qlog_init` and `qlog_cleanup` on their own, as the repository's tests do and the run
`lib_calls` does; `doc_cleanup` shows that it takes that. They come from one invariant,
`LibInv`, which is `TypeInv` (with `OwnInv`) and four parts, each using those before it:

* `JoinInv`: a call that changes the library is alone, so the flag a call has tested
  stays as it was until the call ends.
* `WordInv`: the state of lock and word in a library that is not initialised, and that
  the word is `SIMPLE` while its owner is past `lock_mark`, unless it was overwritten.
  `LockNotOrphaned` (`NoOrphanGlobalLock`) follows: an owner's unlock is not refused.
* `LiveInv`: all that the table names is allocated, except while a cleanup is between
  freeing and forgetting. `LogsTouchLive` (`LogTouchesLive`) follows.
* `OwnsInv`: what the table owns at every place of init, create and cleanup, of a
  cleanup half-way slot by slot (`Owned(n)`), until somebody releases another's lock.
  `TableOwnsBuffers`, `DefaultIdAgrees` and `CleanupLeavesNothing` (`TableOwns`,
  `DefaultAgrees`, `CleanupClears`) follow.

`QlogExt_proofs`, from `ExtConstants` (finitely many callbacks, and at least as many
table entries; dynamic types above the built-in ones; `Null` is no callback), for any
number of threads, events and lives:

* `RegistryFits`: `Spec => []TableFits`, and `RegistryRefined`: `Spec =>
  ImplementsTypeRegistry`. Both rest on `RegInv`: the type of entry `i` is a function of
  `i` (`NumberAt`), callbacks have one entry each, and `next_event_type` is the number of
  the entry to come, except between `RegAppend` and `RegNext`, where the one thread inside
  the lock knows it to be that of the last entry. Callbacks having one entry each gives an
  injection of the table into the callbacks; this and the bound on callbacks keep the
  numbers within range; and numbers being injective makes each registration a step of
  `TypeRegistry` or a stutter.
* `PrintsFit` and `StoresPrint`: `Spec => []PrintCallFits` and `Spec =>
  []StoredPrintable`, from `RegInv` and `FillInv`: what an event holds at each place of the
  call that fills it (`Filled`), above all that the size is stored last (`SizeLast`); so a
  print that finds data and size finds an event that is complete, and what it has found
  stays until a fill drops it (`PrintInv`). A type that passes the test has an entry
  (`ValidIsMeant`), entries stay while a call is under way, and the lookup finds that
  very entry (`LookupFinds`). Types of this life have the entry of their callback,
  which `RegInv` keeps about `held`.
* `ExtTypeCorrect`: `Spec => []ExtTypeOK`. That every type is in range is no matter of
  form, as the code compares no type with the table's size: it follows from the bound
  on the table by `RegInv` (`NumbersAreTypes`) and from following the numbers around
  (`GivenOut`).

`QlogServer_proofs`, from `ServerConstants` (arrays of two characters or more, at most
256 buffers, `LongMax` a natural number), for any inputs, any number of buffers and of
starts, and without fairness:

* `LiveBuffers`: `Spec => []ServerTouchesLive`, from `LiveInv`: while no server was
  abandoned only the handler whose handle the application has is alive, and none once it
  has cleaned up.
* `DescriptorsGivenBack`: `Spec => []DescriptorsReturned`, from `HoldInv`, which gives the
  descriptors of every place; and `SessionsExclusive`: `Spec => []OneSession`, from the
  same, since whoever is past binding has the port.
* `ResetsComplete`: `Spec => []ResetComplete`, the second half of `ClearedAsAsked`. The
  invariant says what the walk has left behind (`Passed`, `WalkInv`), that a message is
  in one buffer at most (`ContentsInv`), so that a later buffer cannot hold what an earlier
  one was rid of, and by `HoldInv` that no other handler changes the session.

* `ServerTypeCorrect`: `Spec => []ServerTypeOK`, from `TypesInv`: nothing is read or selected
  before the session (`FreshInv`), a walk over all buffers stays in the table and one over
  the active buffer at it (`VisitInv`), and `Chosen` gives a byte, because the recursive
  `Value` gives a natural number for any sequence (`ValueType`).
* `SessionFollows`: `Spec => []SessionFollowsInput`, and `ClearedOnRequest`: `Spec =>
  []ClearedAsAsked`. The two readings of the input are compared by its text and the set of
  its line ends, so that two states can be: a further line end behind the others leaves
  the lines, commands, answers and selected buffers before it as they were (`AddEnds`,
  `AddText`, `AddAsks`, `AddCommand`, `AddActive`) and decides the next one alone
  (`NextLine`). `FollowInv` then says at each place of the session how far it has read: the
  array holds the unfinished line as far as it goes (`Held`), a command is obeyed when just
  its line has been read, and beyond the end of the input whatever is read next ends the
  session. `ClearedInv` adds that a buffer differs from what was logged into it only if a
  line asked for it, which lines read later do not undo (`AskedStays`).

The theorems about what `Value`, `End`, `Asks` and `ActiveAfter` compute use no induction
principle with an operator as its parameter, which the provers cannot instantiate. They
look at the first place where the claim would go wrong: every nonempty set of naturals has
a least element (`Least`, from `WFMin` and the well-foundedness of `<`).

Every invariant and both refinements of the passing runs are so proved. Only
model-checked are the liveness properties (`LockReleased`, `LogCallEnds`,
`EventReleased`, `WaitReturns`), which TLAPS does not prove under fairness;
`ImplementsEventRing` has no proof with resets, for which it does not hold; and the
`doc_` runs are counterexamples, which TLC finds.

## Plan

Done: `QlogBuffer` with `EventRing`, `QlogLib`, `QlogExt` with `TypeRegistry`,
`QlogServer`, their runs, and a theorem for every safety property of theirs. What is left
to prove is about helpers: that `Value` is the number the leading digits denote.

## Not modelled

Wording and layout of the output, and with it the hex dump and the backtrace; memory
ordering weaker than sequential consistency; allocation failure in the middle of a fill
(`qlog.c:672` writes through the null pointer); print callbacks that call back into the
library; two threads in `qlog_init` at once, and the use of the global lock after
`pthread_spin_destroy`; `qlog_lock_global(1)`, which nothing calls; failures of the spin
locks themselves, which the platform never reports; the status dumps, which only read.

The thread's name and indentation (`qlog_thread_init`, `qlog_inc_indent`,
`qlog_dec_indent`, the macros of `qlog_utils.h` and the choice of the name in the log
calls) are thread-local: no other thread sees them before they are in an event, so there
is nothing to interleave, and they are read off the code. Three of its corners, for the
reader who relies on them: `qlog_log_long` drops a thread name it is given
(`qlog.c:314`), `qlog_log` and `qlog_ext_log_long_id` compare the name with the digit
`'0'` instead of the empty string (`qlog.c:262`, `qlog_ext.c:142`), and `QLOG_RET_EXP`
logs the end of a function before it evaluates what the function returns.
