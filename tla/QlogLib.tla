------------------------------- MODULE QlogLib -------------------------------
(***************************************************************************)
(* The life of the qlog library: init, buffer creation, reset, dump and    *)
(* cleanup, the global lock around them, and the logging switch.           *)
(*                                                                         *)
(* The global lock is a spin lock plus a state word.  qlog_lock_global     *)
(* tests the word before it takes the spin lock and stores it afterwards;  *)
(* qlog_unlock_global tests it, releases the spin lock and stores it       *)
(* afterwards.  The dump of all buffers ignores that locking failed.       *)
(*                                                                         *)
(* Buffers are opaque here, QlogBuffer is about their contents: resetting  *)
(* or logging into one only needs it to be allocated.  The code takes the  *)
(* global lock with full_lock = 0 only, so QLOG_LOCK_FULL never occurs.    *)
(***************************************************************************)
EXTENDS Integers

CONSTANTS
  Threads,
  Calls,      \* Calls[t]: the calls thread t makes
  MaxBufs,    \* QLOG_MAX_BUF_NUM, the size of the buffer table
  Buffers,    \* bound: the buffers that can be allocated at a time
  Null,
  Nobody,
  Joined      \* the application runs init and cleanup on their own

CallNames == {"init", "cleanup", "create", "reset", "dump", "toggle", "log"}

ASSUME LibConstants ==
  /\ Calls \in [Threads -> SUBSET CallNames]
  /\ MaxBufs \in Nat \ {0}
  /\ Null \notin Buffers
  /\ Nobody \notin Threads
  /\ Joined \in BOOLEAN

VARIABLES
  inited, enabled,                    \* qlog_lib_inited, qlog_enabled
  buffers, default_buf, default_id,   \* the table and the default buffer
  glock, gstate,                      \* the global spin lock, its state word
  live,                               \* the allocated buffers
  pc, call, idx, buf,                 \* each thread: its call, i, a buffer
  owner, intruded, overwritten, overlapped, stranded  \* history

(***************************************************************************)
(* History variables.  owner took the spin lock last and it was not        *)
(* released since.  intruded: somebody else released it.  overwritten: the *)
(* state word was set to UNLOCKED while somebody else owned the lock.      *)
(* overlapped: two threads were between the test and the store of the      *)
(* switch.  stranded: buffers left behind by failed allocations.           *)
(***************************************************************************)
switch == <<enabled, overlapped>>
table == <<buffers, default_buf, default_id>>
spin == <<glock, owner, intruded>>
word == <<gstate, overwritten>>
heap == <<live, stranded>>
shared == <<inited, switch, table, spin, word, heap>>
locals == <<call, idx, buf>>
vars == <<shared, pc, locals>>

Slots == 0 .. MaxBufs - 1
NoSlot == -1
States == {"UNINITED", "UNLOCKED", "SIMPLE"}

\* Where a call begins.  qlog_create_buffer and qlog_cleanup return early on
\* the flag that qlog_lock_global tests again, with the same outcome.
FirstPC == [init |-> "init_test", cleanup |-> "lock_test", create |-> "lock_test",
            reset |-> "reset_test", dump |-> "dump_test",
            toggle |-> "toggle_test", log |-> "log_test"]

Init ==
  /\ inited = FALSE
  /\ enabled = 0
  /\ buffers = [i \in Slots |-> Null]
  /\ default_buf = Null
  /\ default_id = NoSlot
  /\ glock = FALSE
  /\ gstate = "UNINITED"
  /\ live = {}
  /\ pc = [t \in Threads |-> "idle"]
  /\ call = [t \in Threads |-> "none"]
  /\ idx = [t \in Threads |-> NoSlot]
  /\ buf = [t \in Threads |-> Null]
  /\ owner = Nobody
  /\ intruded = FALSE
  /\ overwritten = FALSE
  /\ overlapped = FALSE
  /\ stranded = {}

Goto(t, from, to) == pc[t] = from /\ pc' = [pc EXCEPT ![t] = to]

\* A step that only decides how the call goes on.
Skip(t, from, to) == Goto(t, from, to) /\ UNCHANGED <<shared, locals>>

\* init and cleanup run while no other call does, if the threads are joined.
MayStart(t, c) ==
  Joined => /\ \A u \in Threads : call[u] \notin {"init", "cleanup"}
            /\ c \in {"init", "cleanup"} => \A u \in Threads : pc[u] = "idle"

\* i: the buffer a log call names, NoSlot for the default buffer.
Start(t, c, i) ==
  /\ MayStart(t, c)
  /\ c # "log" => i = NoSlot
  /\ Goto(t, "idle", FirstPC[c])
  /\ call' = [call EXCEPT ![t] = c]
  /\ idx' = [idx EXCEPT ![t] = i]
  /\ UNCHANGED <<shared, buf>>

\* What a create call returns: it looks into its slot again, without the lock.
Index(t) ==
  IF idx[t] # NoSlot /\ buffers[idx[t]] # Null THEN idx[t] ELSE NoSlot

\* The call ends.
Return(t) ==
  /\ Goto(t, "return", "idle")
  /\ call' = [call EXCEPT ![t] = "none"]
  /\ idx' = [idx EXCEPT ![t] = NoSlot]
  /\ buf' = [buf EXCEPT ![t] = Null]
  /\ UNCHANGED shared

-----------------------------------------------------------------------------
(***************************************************************************)
(* qlog_lock_global(0) and qlog_unlock_global.                             *)
(***************************************************************************)
\* What a call does with the lock in hand.
Locked(c) == IF c = "create" THEN "create_find"
             ELSE IF c = "cleanup" THEN "disable_test" ELSE "visit"

\* The first test: neither the flag nor the word is read under the lock.
LockTest(t) ==
  inited /\ gstate = "UNLOCKED" /\ Skip(t, "lock_test", "lock_spin")

\* The lock is refused: create, reset and cleanup give up, the dump goes on.
LockRefused(t) ==
  /\ ~inited \/ gstate # "UNLOCKED"
  /\ Goto(t, "lock_test", IF call[t] = "dump" THEN "visit" ELSE "return")
  /\ idx' = [idx EXCEPT ![t] = IF call[t] = "dump" THEN 0 ELSE NoSlot]
  /\ UNCHANGED <<shared, call, buf>>

\* Mutant of SpinFree: a try-lock whose result is not looked at.
SpinFree_Ignored == TRUE

SpinFree == ~glock

LockSpin(t) ==
  /\ SpinFree
  /\ Goto(t, "lock_spin", "lock_mark")
  /\ glock' = TRUE
  /\ owner' = t
  /\ UNCHANGED <<inited, switch, table, intruded, word, heap, locals>>

LockMark(t) ==
  /\ Goto(t, "lock_mark", Locked(call[t]))
  /\ gstate' = "SIMPLE"
  /\ idx' = [idx EXCEPT ![t] = 0]
  /\ UNCHANGED <<inited, switch, table, spin, overwritten, heap, call, buf>>

UnlockTest(t) ==
  inited /\ gstate = "SIMPLE" /\ Skip(t, "unlock_test", "unlock_spin")

\* QLOG_RET_ERR: a create call then returns -1.
UnlockRefused(t) ==
  /\ ~inited \/ gstate # "SIMPLE"
  /\ Goto(t, "unlock_test", "return")
  /\ idx' = [idx EXCEPT ![t] = NoSlot]
  /\ UNCHANGED <<shared, call, buf>>

\* pthread_spin_unlock releases the lock whoever took it.
SpinUnlock(t) ==
  /\ glock' = FALSE
  /\ owner' = Nobody
  /\ intruded' = (intruded \/ owner \notin {t, Nobody})

UnlockSpin(t) ==
  /\ Goto(t, "unlock_spin", "unlock_mark")
  /\ SpinUnlock(t)
  /\ UNCHANGED <<inited, switch, table, word, heap, locals>>

\* The word follows the lock.
UnlockMark(t) ==
  /\ Goto(t, "unlock_mark", "return")
  /\ gstate' = "UNLOCKED"
  /\ overwritten' = (overwritten \/ owner \notin {t, Nobody})
  /\ UNCHANGED <<inited, switch, table, spin, heap, locals>>

LockStep(t) ==
  \/ LockTest(t) \/ LockRefused(t) \/ LockSpin(t) \/ LockMark(t)
  \/ UnlockTest(t) \/ UnlockRefused(t) \/ UnlockSpin(t) \/ UnlockMark(t)

-----------------------------------------------------------------------------
(***************************************************************************)
(* qlog_enable_internal, qlog_disable_internal, qlog_toggle_status.        *)
(***************************************************************************)
\* Where a call goes on once it has set the switch.
Switched(c) == IF c = "init" THEN "init_done"
               ELSE IF c = "cleanup" THEN "cleanup_free" ELSE "return"

ToggleTest(t) ==
  Skip(t, "toggle_test", IF enabled = 1 THEN "disable_test" ELSE "enable_test")

\* Mutant of DisableNeeded: trusts the test of qlog_toggle_status.
DisableNeeded_Trusts == TRUE

DisableNeeded == enabled = 1
EnableNeeded == enabled = 0

\* The test has come out for the change; another call may have passed its
\* own before and not changed the switch yet.
SwitchTest(t, from, to) ==
  /\ Goto(t, from, to)
  /\ overlapped' = (overlapped \/ \E u \in Threads \ {t} :
                                     pc[u] \in {"disable_sub", "enable_add"})
  /\ UNCHANGED <<inited, enabled, table, spin, word, heap, locals>>

\* An atomic addition, whatever the value is by now.
SwitchChange(t, from, n) ==
  /\ Goto(t, from, Switched(call[t]))
  /\ enabled' = enabled + n
  /\ UNCHANGED <<inited, overlapped, table, spin, word, heap, locals>>

Disable(t) ==
  \/ DisableNeeded /\ SwitchTest(t, "disable_test", "disable_sub")
  \/ ~DisableNeeded /\ Skip(t, "disable_test", Switched(call[t]))
  \/ SwitchChange(t, "disable_sub", -1)

Enable(t) ==
  \/ EnableNeeded /\ SwitchTest(t, "enable_test", "enable_add")
  \/ ~EnableNeeded /\ Skip(t, "enable_test", Switched(call[t]))
  \/ SwitchChange(t, "enable_add", 1)

-----------------------------------------------------------------------------
(***************************************************************************)
(* qlog_init.                                                              *)
(***************************************************************************)
Unused == Buffers \ live
Fresh == CHOOSE b \in Buffers : b \notin live

InitTest(t) == Skip(t, "init_test", IF inited THEN "return" ELSE "init_lock")

\* Initialises the lock, which releases it, and its word, and empties the table.
InitLock(t) ==
  /\ Goto(t, "init_lock", "init_default")
  /\ SpinUnlock(t)
  /\ gstate' = "UNLOCKED"
  /\ buffers' = [i \in Slots |-> Null]
  /\ UNCHANGED <<inited, switch, default_buf, default_id, overwritten, heap, locals>>

\* The default buffer is allocated.
InitDefault(t) ==
  /\ Unused # {}
  /\ Goto(t, "init_default", "enable_test")
  /\ live' = live \cup {Fresh}
  /\ buffers' = [buffers EXCEPT ![0] = Fresh]
  /\ default_buf' = Fresh
  /\ default_id' = 0
  /\ UNCHANGED <<inited, switch, spin, word, stranded, locals>>

\* No default buffer: the size is 0 or malloc of the buffer failed.
InitNoDefault(t) == Skip(t, "init_default", "enable_test")

\* malloc of an event fails and the half-built buffer stays behind.
Strand(t, from, to) ==
  /\ Unused # {}
  /\ Goto(t, from, to)
  /\ live' = live \cup {Fresh}
  /\ stranded' = stranded \cup {Fresh}
  /\ UNCHANGED <<inited, switch, table, spin, word, locals>>

\* During qlog_init the buffer's lock is refused to the routine that should
\* free it: the library is not initialised yet.
InitStrands(t) == Strand(t, "init_default", "enable_test")

InitDone(t) ==
  /\ Goto(t, "init_done", "return")
  /\ inited' = TRUE
  /\ UNCHANGED <<switch, table, spin, word, heap, locals>>

InitStep(t) ==
  \/ InitTest(t) \/ InitLock(t) \/ InitDefault(t) \/ InitNoDefault(t)
  \/ InitStrands(t) \/ InitDone(t)

-----------------------------------------------------------------------------
(***************************************************************************)
(* qlog_create_buffer.                                                     *)
(***************************************************************************)
\* Mutant of FreeSlots: the test for NULL is dropped.
FreeSlots_All == Slots

FreeSlots == {i \in Slots : buffers[i] = Null}

\* Mutant of Found: a full table returns at once, with the lock held.
Found_Returns == IF FreeSlots = {} THEN "return" ELSE "create_alloc"

Found == IF FreeSlots = {} THEN "unlock_test" ELSE "create_alloc"

CreateFind(t) ==
  /\ Goto(t, "create_find", Found)
  /\ \/ FreeSlots = {} /\ idx' = [idx EXCEPT ![t] = NoSlot]
     \/ \E i \in FreeSlots : /\ \A j \in FreeSlots : i <= j
                             /\ idx' = [idx EXCEPT ![t] = i]
  /\ UNCHANGED <<shared, call, buf>>

CreateAlloc(t) ==
  /\ Unused # {}
  /\ Goto(t, "create_alloc", "create_default")
  /\ live' = live \cup {Fresh}
  /\ buffers' = [buffers EXCEPT ![idx[t]] = Fresh]
  /\ buf' = [buf EXCEPT ![t] = Fresh]
  /\ UNCHANGED <<inited, switch, default_buf, default_id, spin, word, stranded,
                 call, idx>>

\* malloc of the buffer failed, or of an event and the half-built buffer was
\* freed again.
CreateNoMemory(t) ==
  /\ Goto(t, "create_alloc", "create_default")
  /\ buffers' = [buffers EXCEPT ![idx[t]] = Null]
  /\ UNCHANGED <<inited, switch, default_buf, default_id, spin, word, heap, locals>>

\* The half-built buffer's spin lock, zeroed but not initialised, reads as
\* taken to the routine that should free it: the call spins for ever.
CreateHangs(t) == Strand(t, "create_alloc", "hung")

\* Mutants of DefaultIdFor: ids counted from one; the id is not stored.
DefaultIdFor_One(i) == i + 1
DefaultIdFor_Kept(i) == default_id

DefaultIdFor(i) == i

CreateDefault(t) ==
  /\ Goto(t, "create_default", "unlock_test")
  /\ IF default_buf = Null
     THEN /\ default_buf' = buffers[idx[t]]
          /\ default_id' = DefaultIdFor(idx[t])
     ELSE UNCHANGED <<default_buf, default_id>>
  /\ UNCHANGED <<inited, switch, buffers, spin, word, heap, locals>>

CreateStep(t) ==
  \/ CreateFind(t) \/ CreateAlloc(t) \/ CreateNoMemory(t) \/ CreateHangs(t)
  \/ CreateDefault(t)

-----------------------------------------------------------------------------
(***************************************************************************)
(* qlog_reset, qlog_dbg_print_buffers and qlog_cleanup.                    *)
(***************************************************************************)
\* Not initialised: qlog_reset unlocks all the same.
ResetTest(t) == Skip(t, "reset_test", IF inited THEN "lock_test" ELSE "unlock_test")
DumpTest(t) == Skip(t, "dump_test", IF inited THEN "lock_test" ELSE "return")

\* Mutant of AfterSlot: the loop ends before the last slot.
AfterSlot_Early(i, loop, done) == IF i + 2 < MaxBufs THEN loop ELSE done

AfterSlot(i, loop, done) == IF i + 1 < MaxBufs THEN loop ELSE done

\* The loop variable after one round.
NextSlot(t, loop) == idx' = [idx EXCEPT ![t] = IF pc'[t] = loop THEN @ + 1 ELSE NoSlot]

\* One round of the loop over the table.  A reset stops at a buffer whose lock
\* is refused, a dump ignores that too.
Visit(t) ==
  /\ Goto(t, "visit",
          IF call[t] = "reset" /\ buffers[idx[t]] # Null /\ ~inited
          THEN "unlock_test" ELSE AfterSlot(idx[t], "visit", "unlock_test"))
  /\ NextSlot(t, "visit")
  /\ UNCHANGED <<shared, call, buf>>

\* One round of qlog_cleanup's loop: takes the buffer's lock and frees it.
CleanupFree(t) ==
  /\ Goto(t, "cleanup_free", AfterSlot(idx[t], "cleanup_free", "cleanup_close"))
  /\ NextSlot(t, "cleanup_free")
  /\ live' = live \ {buffers[idx[t]]}
  /\ UNCHANGED <<inited, switch, table, spin, word, stranded, call, buf>>

CleanupClose(t) ==
  /\ Goto(t, "cleanup_close", "cleanup_clear")
  /\ inited' = FALSE
  /\ UNCHANGED <<switch, table, spin, word, heap, locals>>

\* Mutant of NoDefault: the pointer to the default buffer survives.
NoDefault_Kept == UNCHANGED default_buf /\ default_id' = NoSlot

NoDefault == default_buf' = Null /\ default_id' = NoSlot

CleanupClear(t) ==
  /\ Goto(t, "cleanup_clear", "cleanup_unlock")
  /\ NoDefault
  /\ buffers' = [i \in Slots |-> Null]
  /\ UNCHANGED <<inited, switch, spin, word, heap, locals>>

CleanupUnlock(t) ==
  /\ Goto(t, "cleanup_unlock", "cleanup_destroy")
  /\ SpinUnlock(t)
  /\ UNCHANGED <<inited, switch, table, word, heap, locals>>

\* pthread_spin_destroy leaves the lock as it is.
CleanupDestroy(t) ==
  /\ Goto(t, "cleanup_destroy", "return")
  /\ gstate' = "UNINITED"
  /\ UNCHANGED <<inited, switch, table, spin, overwritten, heap, locals>>

TableStep(t) ==
  \/ ResetTest(t) \/ DumpTest(t) \/ Visit(t) \/ CleanupFree(t) \/ CleanupClose(t)
  \/ CleanupClear(t) \/ CleanupUnlock(t) \/ CleanupDestroy(t)

-----------------------------------------------------------------------------
(***************************************************************************)
(* qlog_log and qlog_log_id: a buffer used without the global lock.        *)
(***************************************************************************)
Target(t) == IF idx[t] = NoSlot THEN default_buf ELSE buffers[idx[t]]
Wanted(t) == inited /\ enabled # 0 /\ Target(t) # Null

LogTest(t) == Skip(t, "log_test", IF Wanted(t) THEN "log_load" ELSE "return")

\* The pointer is read a second time for the call of qlog_log_internal.
LogLoad(t) ==
  /\ Goto(t, "log_load", "log_claim")
  /\ buf' = [buf EXCEPT ![t] = Target(t)]
  /\ UNCHANGED <<shared, call, idx>>

\* qlog_lock_buffer_internal tests the flag and the pointer once more; with
\* the lock, the call claims an event.
LogClaim(t) ==
  Skip(t, "log_claim", IF inited /\ buf[t] # Null THEN "log_fill" ELSE "return")

\* The event is filled without the buffer's lock.
LogFill(t) == Skip(t, "log_fill", "return")

LogStep(t) == LogTest(t) \/ LogLoad(t) \/ LogClaim(t) \/ LogFill(t)

-----------------------------------------------------------------------------
Step(t) ==
  \/ LockStep(t) \/ ToggleTest(t) \/ Disable(t) \/ Enable(t) \/ InitStep(t)
  \/ CreateStep(t) \/ TableStep(t) \/ LogStep(t) \/ Return(t)

Next == \E t \in Threads :
          \/ \E c \in Calls[t], i \in Slots \cup {NoSlot} : Start(t, c, i)
          \/ Step(t)

Spec == Init /\ [][Next]_vars

-----------------------------------------------------------------------------
PCs == {"idle", "return", "hung", "lock_test", "lock_spin", "lock_mark",
        "unlock_test", "unlock_spin", "unlock_mark", "toggle_test",
        "disable_test", "disable_sub", "enable_test", "enable_add",
        "init_test", "init_lock", "init_default", "init_done",
        "create_find", "create_alloc", "create_default",
        "reset_test", "dump_test", "visit", "cleanup_free", "cleanup_close",
        "cleanup_clear", "cleanup_unlock", "cleanup_destroy",
        "log_test", "log_load", "log_claim", "log_fill"}

\* The types of the variables.
LibTypeOK ==
  /\ inited \in BOOLEAN
  /\ enabled \in Int
  /\ buffers \in [Slots -> Buffers \cup {Null}]
  /\ default_buf \in Buffers \cup {Null}
  /\ default_id \in Slots \cup {NoSlot}
  /\ glock \in BOOLEAN
  /\ gstate \in States
  /\ live \subseteq Buffers
  /\ pc \in [Threads -> PCs]
  /\ call \in [Threads -> CallNames \cup {"none"}]
  /\ idx \in [Threads -> Slots \cup {NoSlot}]
  /\ buf \in [Threads -> Buffers \cup {Null}]
  /\ owner \in Threads \cup {Nobody}
  /\ intruded \in BOOLEAN
  /\ overwritten \in BOOLEAN
  /\ overlapped \in BOOLEAN
  /\ stranded \subseteq Buffers

\* Where a call works on the table in the belief that it holds the lock.  A
\* dump is not among them: it gets there without the lock, too.
Inside(t) ==
  \/ pc[t] \in {"create_find", "create_alloc", "create_default", "cleanup_free",
                "cleanup_close", "cleanup_clear", "cleanup_unlock"}
  \/ pc[t] = "visit" /\ call[t] = "reset"

\* Calls that work on the table exclude each other, as long as nobody has
\* released the global lock of another thread.
TableExclusive ==
  intruded \/ \A t, u \in Threads : Inside(t) /\ Inside(u) => t = u

\* init or cleanup is running.
Changing == \E t \in Threads : call[t] \in {"init", "cleanup"}

\* The table holds every buffer that was not left behind by a failed
\* allocation, each in one slot, and nothing that was freed.
TableOwns ==
  intruded \/ Changing \/
    /\ live \ stranded = {buffers[i] : i \in Slots} \ {Null}
    /\ \A i, j \in Slots : buffers[i] = buffers[j] => i = j \/ buffers[i] = Null

\* A default buffer is the one its id names.
DefaultAgrees ==
  Changing \/ intruded \/ default_buf = Null \/
    (default_id \in Slots /\ buffers[default_id] = default_buf)

\* The switch leaves 0 and 1 only if two calls were between test and store.
SwitchBinary == enabled \in {0, 1} \/ overlapped

\* After a cleanup nothing is left of the library but what failed
\* allocations, or a released lock, have left behind.
CleanupClears ==
  inited \/ Changing \/ intruded \/
    /\ live = stranded
    /\ default_buf = Null /\ default_id = NoSlot
    /\ ~glock /\ gstate = "UNINITED"

\* The global lock is taken only while a call that took it has yet to unlock,
\* unless the state word was overwritten under it.
NoOrphanGlobalLock ==
  glock /\ ~overwritten => pc[owner] \in
    {"lock_mark", "hung", "create_find", "create_alloc", "create_default", "visit",
     "unlock_test", "unlock_spin", "disable_test", "disable_sub", "cleanup_free",
     "cleanup_close", "cleanup_clear", "cleanup_unlock"}

\* A log call uses its buffer only while it is allocated.
LogTouchesLive ==
  \A t \in Threads :
    pc[t] = "log_fill" \/ (pc[t] = "log_claim" /\ inited /\ buf[t] # Null)
      => buf[t] \in live

-----------------------------------------------------------------------------
\* What comments of the repository say and the code does not do.

\* qlog.c:796: qlog_unlock_global "Releases the global lock".
UnlockReleases == \A t \in Threads : pc[t] \in {"return", "idle"} => owner # t

\* qlog.c:203-206: qlog_create_buffer returns the index of the new buffer or
\* -1, so never the index of a buffer that another call has created.
ReturnsOwn ==
  \A t \in Threads :
    pc[t] = "return" /\ call[t] = "create" /\ Index(t) # NoSlot
      => buffers[Index(t)] = buf[t]

=============================================================================
