--------------------------- MODULE QlogLib_proofs ---------------------------
(***************************************************************************)
(* Theorems about QlogLib, for any number of threads and buffers and any   *)
(* calls; the later ones suppose, by Joined, that init and cleanup run     *)
(* while no other call does.                                               *)
(***************************************************************************)
EXTENDS QlogLib, TLAPS

\* With place p in call c, a thread believes that it holds the global lock.
HoldsAt(p, c) ==
  \/ p \in {"lock_mark", "create_find", "create_alloc", "create_default",
            "cleanup_free", "cleanup_close", "cleanup_clear", "cleanup_unlock"}
  \/ p = "visit" /\ c = "reset"
  \/ p \in {"disable_test", "disable_sub"} /\ c = "cleanup"

\* Only these calls get to these places.
FitsAt(p, c) ==
  /\ p \in {"init_test", "init_lock", "init_default", "init_done"} => c = "init"
  /\ p \in {"toggle_test", "enable_test", "enable_add"} => c # "cleanup"

\* TableExclusive is inductive when every place in between is in it, and the
\* owner is tied to the lock: only a free lock can be taken.
OwnInv ==
  /\ pc \in [Threads -> PCs]
  /\ call \in [Threads -> CallNames \cup {"none"}]
  /\ \A t \in Threads : FitsAt(pc[t], call[t])
  /\ glock <=> owner # Nobody
  /\ intruded \/ \A t \in Threads : HoldsAt(pc[t], call[t]) => owner = t

\* What a step of t does to the lock.
Takes(t) == ~glock /\ glock' = TRUE /\ owner' = t /\ intruded' = intruded
Leaves(t, to, c) == SpinUnlock(t) /\ ~HoldsAt(to, c)
Stays(from, b, to, c) == UNCHANGED spin /\ (HoldsAt(to, c) => HoldsAt(from, b))

LEMMA OwnStep ==
  ASSUME OwnInv, NEW t \in Threads, NEW from, NEW to \in PCs, Goto(t, from, to),
         NEW c \in CallNames \cup {"none"}, call' = [call EXCEPT ![t] = c],
         FitsAt(to, c),
         Takes(t) \/ Leaves(t, to, c) \/ Stays(from, call[t], to, c)
  PROVE  OwnInv'
<1>1. /\ pc' \in [Threads -> PCs]
      /\ call' \in [Threads -> CallNames \cup {"none"}]
  BY DEF OwnInv, Goto
<1>2. /\ pc[t] = from /\ pc'[t] = to /\ call'[t] = c
      /\ \A u \in Threads : u # t => pc'[u] = pc[u] /\ call'[u] = call[u]
  BY DEF OwnInv, Goto
<1>3. \A u \in Threads : FitsAt(pc'[u], call'[u])
  BY <1>2 DEF OwnInv
<1>4. glock' <=> owner' # Nobody
  BY LibConstants DEF OwnInv, Takes, Leaves, Stays, SpinUnlock, spin
<1>5. ASSUME ~intruded', NEW u \in Threads, HoldsAt(pc'[u], call'[u])
      PROVE  owner' = u
  <2>1. CASE Takes(t)
    <3>1. owner = Nobody /\ ~intruded  BY <1>5, <2>1 DEF OwnInv, Takes
    <3>2. CASE u = t  BY <2>1, <3>2 DEF Takes
    <3>3. CASE u # t
      <4>1. owner = u  BY <1>2, <1>5, <3>1, <3>3 DEF OwnInv
      <4>2. QED  BY <3>1, <4>1, LibConstants
    <3>4. QED  BY <3>2, <3>3
  <2>2. CASE Leaves(t, to, c)
    <3>1. u # t  BY <1>2, <1>5, <2>2 DEF Leaves
    <3>2. ~intruded /\ owner \in {t, Nobody}
      BY <1>5, <2>2 DEF Leaves, SpinUnlock
    <3>3. owner = u  BY <1>2, <1>5, <3>1, <3>2 DEF OwnInv
    <3>4. QED  BY <3>1, <3>2, <3>3, LibConstants
  <2>3. CASE Stays(from, call[t], to, c)
    <3>1. ~intruded /\ owner' = owner  BY <1>5, <2>3 DEF Stays, spin
    <3>2. HoldsAt(pc[u], call[u])  BY <1>2, <1>5, <2>3 DEF Stays
    <3>3. QED  BY <3>1, <3>2 DEF OwnInv
  <2>4. QED  BY <2>1, <2>2, <2>3
<1>6. QED  BY <1>1, <1>3, <1>4, <1>5 DEF OwnInv

\* Most steps stay in their call and leave the lock alone.
LEMMA OwnWalk ==
  ASSUME OwnInv, NEW t \in Threads, NEW from, NEW to \in PCs, Goto(t, from, to),
         UNCHANGED <<spin, call>>, FitsAt(to, call[t]),
         HoldsAt(to, call[t]) => HoldsAt(from, call[t])
  PROVE  OwnInv'
<1>1. call[t] \in CallNames \cup {"none"}  BY DEF OwnInv
<1>2. call' = [call EXCEPT ![t] = call[t]]  BY DEF OwnInv
<1>3. QED  BY <1>1, <1>2, OwnStep DEF Stays

\* What the types say of the thread that moves.
LEMMA OwnThread ==
  ASSUME OwnInv, NEW t \in Threads
  PROVE  FitsAt(pc[t], call[t]) /\ call[t] \in CallNames \cup {"none"}
BY DEF OwnInv

LEMMA LockKeepsOwn ==
  ASSUME OwnInv, NEW t \in Threads, LockStep(t)
  PROVE  OwnInv'
<1> USE DEF PCs, FitsAt, HoldsAt
<1> DEFINE c == call[t]
<1>c. c \in CallNames \cup {"none"} /\ call = [call EXCEPT ![t] = c]
  BY DEF OwnInv
<1>1. CASE LockTest(t)       BY <1>1, OwnWalk DEF LockTest, Skip, shared, locals
<1>2. CASE LockRefused(t)    BY <1>2, OwnWalk DEF LockRefused, shared
<1>3. CASE LockSpin(t)
  <2>1. Takes(t) /\ Goto(t, "lock_spin", "lock_mark") /\ call' = call
    BY <1>3 DEF LockSpin, SpinFree, Takes, locals
  <2>2. QED  BY <1>c, <2>1, OwnStep
<1>4. CASE LockMark(t)       BY <1>4, OwnWalk DEF LockMark, Locked
<1>5. CASE UnlockTest(t)     BY <1>5, OwnWalk DEF UnlockTest, Skip, shared, locals
<1>6. CASE UnlockRefused(t)  BY <1>6, OwnWalk DEF UnlockRefused, shared
<1>7. CASE UnlockSpin(t)
  <2>1. /\ Leaves(t, "unlock_mark", c) /\ call' = call
        /\ Goto(t, "unlock_spin", "unlock_mark")
    BY <1>7 DEF UnlockSpin, Leaves, locals
  <2>2. QED  BY <1>c, <2>1, OwnStep
<1>8. CASE UnlockMark(t)     BY <1>8, OwnWalk DEF UnlockMark, locals
<1>9. QED  BY <1>1, <1>2, <1>3, <1>4, <1>5, <1>6, <1>7, <1>8 DEF LockStep

LEMMA SwitchKeepsOwn ==
  ASSUME OwnInv, NEW t \in Threads, ToggleTest(t) \/ Disable(t) \/ Enable(t)
  PROVE  OwnInv'
<1> USE DEF PCs, FitsAt, HoldsAt
<1>t. FitsAt(pc[t], call[t])  BY OwnThread
<1>1. CASE ToggleTest(t)
  <2>1. PICK to \in {"disable_test", "enable_test"} : Skip(t, "toggle_test", to)
    BY <1>1 DEF ToggleTest
  <2>2. Goto(t, "toggle_test", to) /\ UNCHANGED <<spin, call>> /\ call[t] # "cleanup"
    BY <2>1, <1>t DEF Skip, Goto, shared, locals
  <2> QED  BY <2>2, OwnWalk
<1>2. CASE Disable(t)
  <2>1. CASE SwitchTest(t, "disable_test", "disable_sub")
    BY <2>1, OwnWalk DEF SwitchTest, locals
  <2>2. CASE Skip(t, "disable_test", Switched(call[t]))
    BY <2>2, OwnWalk DEF Skip, Switched, shared, locals
  <2>3. CASE SwitchChange(t, "disable_sub", -1)
    BY <2>3, OwnWalk DEF SwitchChange, Switched, locals
  <2>4. QED  BY <1>2, <2>1, <2>2, <2>3 DEF Disable
<1>3. CASE Enable(t)
  <2>0. pc[t] \in {"enable_test", "enable_add"}
    BY <1>3 DEF Enable, SwitchTest, Skip, SwitchChange, Goto
  <2>n. call[t] # "cleanup"  BY <1>t, <2>0
  <2>1. CASE SwitchTest(t, "enable_test", "enable_add")
    BY <2>1, <2>n, OwnWalk DEF SwitchTest, locals
  <2>2. CASE Skip(t, "enable_test", Switched(call[t]))
    BY <2>2, <2>n, OwnWalk DEF Skip, Switched, shared, locals
  <2>3. CASE SwitchChange(t, "enable_add", 1)
    BY <2>3, <2>n, OwnWalk DEF SwitchChange, Switched, locals
  <2>4. QED  BY <1>3, <2>1, <2>2, <2>3 DEF Enable
<1>4. QED  BY <1>1, <1>2, <1>3

LEMMA InitKeepsOwn ==
  ASSUME OwnInv, NEW t \in Threads, InitStep(t)
  PROVE  OwnInv'
<1> USE DEF PCs, FitsAt, HoldsAt
<1>0. pc[t] \in {"init_test", "init_lock", "init_default", "init_done"}
  BY DEF InitStep, InitTest, InitLock, InitDefault, InitNoDefault, InitStrands,
         Strand, InitDone, Skip, Goto
<1>t. call[t] = "init" /\ call = [call EXCEPT ![t] = "init"]
  BY <1>0 DEF OwnInv
<1>1. CASE InitTest(t)       BY <1>1, <1>t, OwnWalk DEF InitTest, Skip, shared, locals
<1>2. CASE InitLock(t)
  <2>1. /\ Leaves(t, "init_default", "init") /\ call' = call
        /\ Goto(t, "init_lock", "init_default")
    BY <1>2 DEF InitLock, Leaves, locals
  <2>2. QED  BY <1>t, <2>1, OwnStep DEF CallNames
<1>3. CASE InitDefault(t)    BY <1>3, <1>t, OwnWalk DEF InitDefault, locals
<1>4. CASE InitNoDefault(t)
  BY <1>4, <1>t, OwnWalk DEF InitNoDefault, Skip, shared, locals
<1>5. CASE InitStrands(t)    BY <1>5, <1>t, OwnWalk DEF InitStrands, Strand, locals
<1>6. CASE InitDone(t)       BY <1>6, <1>t, OwnWalk DEF InitDone, locals
<1>7. QED  BY <1>1, <1>2, <1>3, <1>4, <1>5, <1>6 DEF InitStep

LEMMA CreateKeepsOwn ==
  ASSUME OwnInv, NEW t \in Threads, CreateStep(t)
  PROVE  OwnInv'
<1> USE DEF PCs, FitsAt, HoldsAt
<1>1. CASE CreateFind(t)     BY <1>1, OwnWalk DEF CreateFind, Found, shared
<1>2. CASE CreateAlloc(t)    BY <1>2, OwnWalk DEF CreateAlloc
<1>3. CASE CreateNoMemory(t) BY <1>3, OwnWalk DEF CreateNoMemory, locals
<1>4. CASE CreateHangs(t)    BY <1>4, OwnWalk DEF CreateHangs, Strand, locals
<1>5. CASE CreateDefault(t)  BY <1>5, OwnWalk DEF CreateDefault, locals
<1>6. QED  BY <1>1, <1>2, <1>3, <1>4, <1>5 DEF CreateStep

LEMMA TableKeepsOwn ==
  ASSUME OwnInv, NEW t \in Threads, TableStep(t)
  PROVE  OwnInv'
<1> USE DEF PCs, FitsAt, HoldsAt
<1>c. call[t] \in CallNames \cup {"none"} /\ call = [call EXCEPT ![t] = call[t]]
  BY DEF OwnInv
<1>1. CASE ResetTest(t)      BY <1>1, OwnWalk DEF ResetTest, Skip, shared, locals
<1>2. CASE DumpTest(t)       BY <1>2, OwnWalk DEF DumpTest, Skip, shared, locals
<1>3. CASE Visit(t)          BY <1>3, OwnWalk DEF Visit, AfterSlot, shared
<1>4. CASE CleanupFree(t)    BY <1>4, OwnWalk DEF CleanupFree, AfterSlot
<1>5. CASE CleanupClose(t)   BY <1>5, OwnWalk DEF CleanupClose, locals
<1>6. CASE CleanupClear(t)   BY <1>6, OwnWalk DEF CleanupClear, locals
<1>7. CASE CleanupUnlock(t)
  <2>1. /\ Leaves(t, "cleanup_destroy", call[t]) /\ call' = call
        /\ Goto(t, "cleanup_unlock", "cleanup_destroy")
    BY <1>7 DEF CleanupUnlock, Leaves, locals
  <2>2. QED  BY <1>c, <2>1, OwnStep
<1>8. CASE CleanupDestroy(t) BY <1>8, OwnWalk DEF CleanupDestroy, locals
<1>9. QED  BY <1>1, <1>2, <1>3, <1>4, <1>5, <1>6, <1>7, <1>8 DEF TableStep

LEMMA LogKeepsOwn ==
  ASSUME OwnInv, NEW t \in Threads, LogStep(t)
  PROVE  OwnInv'
<1> USE DEF PCs, FitsAt, HoldsAt
<1>1. CASE LogTest(t)        BY <1>1, OwnWalk DEF LogTest, Skip, shared, locals
<1>2. CASE LogLoad(t)        BY <1>2, OwnWalk DEF LogLoad, shared
<1>3. CASE LogClaim(t)       BY <1>3, OwnWalk DEF LogClaim, Skip, shared, locals
<1>4. CASE LogFill(t)        BY <1>4, OwnWalk DEF LogFill, Skip, shared, locals
<1>5. QED  BY <1>1, <1>2, <1>3, <1>4 DEF LogStep

LEMMA NextKeepsOwn == OwnInv /\ [Next]_vars => OwnInv'
<1> SUFFICES ASSUME OwnInv, [Next]_vars PROVE OwnInv'  OBVIOUS
<1>1. ASSUME NEW t \in Threads, NEW c \in Calls[t], NEW i, Start(t, c, i)
      PROVE  OwnInv'
  <2>1. c \in CallNames  BY LibConstants
  <2>2. FirstPC[c] \in PCs /\ FitsAt(FirstPC[c], c) /\ ~HoldsAt(FirstPC[c], c)
    BY <2>1 DEF CallNames, FirstPC, PCs, FitsAt, HoldsAt
  <2>3. /\ Goto(t, "idle", FirstPC[c]) /\ call' = [call EXCEPT ![t] = c]
        /\ Stays("idle", call[t], FirstPC[c], c)
    BY <1>1, <2>2 DEF Start, Stays, shared
  <2>4. QED  BY <2>1, <2>2, <2>3, OwnStep
<1>2. ASSUME NEW t \in Threads, Return(t) PROVE OwnInv'
  <2>1. /\ Goto(t, "return", "idle") /\ call' = [call EXCEPT ![t] = "none"]
        /\ Stays("return", call[t], "idle", "none")
    BY <1>2 DEF Return, Stays, HoldsAt, shared
  <2>2. "idle" \in PCs /\ FitsAt("idle", "none")  BY DEF PCs, FitsAt
  <2>3. QED  BY <2>1, <2>2, OwnStep
<1>3. ASSUME NEW t \in Threads, Step(t) PROVE OwnInv'
  BY <1>2, <1>3, LockKeepsOwn, SwitchKeepsOwn, InitKeepsOwn, CreateKeepsOwn,
     TableKeepsOwn, LogKeepsOwn DEF Step
<1>4. CASE UNCHANGED vars
  BY <1>4 DEF vars, shared, spin, locals, OwnInv
<1>5. QED  BY <1>1, <1>3, <1>4 DEF Next

LEMMA InitOwn == Init => OwnInv
BY DEF Init, OwnInv, FitsAt, HoldsAt, PCs

\* Calls that work on the buffer table exclude each other, for any threads and
\* any mix of calls, as long as no call released the global lock of another.
THEOREM TableExclusion == Spec => []TableExclusive
<1>1. OwnInv => TableExclusive
  BY DEF OwnInv, TableExclusive, Inside, HoldsAt
<1>2. QED  BY InitOwn, NextKeepsOwn, <1>1, PTL DEF Spec

-----------------------------------------------------------------------------
\* The types of what the threads share, and of the rest of their locals.
SharedType ==
  /\ inited \in BOOLEAN
  /\ enabled \in Int
  /\ buffers \in [Slots -> Buffers \cup {Null}]
  /\ default_buf \in Buffers \cup {Null}
  /\ default_id \in Slots \cup {NoSlot}
  /\ glock \in BOOLEAN
  /\ gstate \in States
  /\ live \subseteq Buffers
  /\ owner \in Threads \cup {Nobody}
  /\ intruded \in BOOLEAN
  /\ overwritten \in BOOLEAN
  /\ overlapped \in BOOLEAN
  /\ stranded \subseteq Buffers

\* A create call that is about to use its slot has one.
LocalType ==
  /\ idx \in [Threads -> Slots \cup {NoSlot}]
  /\ buf \in [Threads -> Buffers \cup {Null}]
  /\ \A t \in Threads :
       pc[t] \in {"create_alloc", "create_default"} => idx[t] \in Slots

TypeInv == OwnInv /\ SharedType /\ LocalType

LEMMA FreshType == Unused # {} => Fresh \in Buffers
BY DEF Unused, Fresh

\* The groups of variables that actions leave unchanged.
LEMMA LockKeepsShared ==
  ASSUME TypeInv, NEW t \in Threads, LockStep(t)
  PROVE  SharedType'
<1> USE DEF SharedType, shared, switch, table, spin, word, heap
<1>0. SharedType  BY DEF TypeInv
<1>1. CASE LockTest(t)       BY <1>0, <1>1 DEF LockTest, Skip
<1>2. CASE LockRefused(t)    BY <1>0, <1>2 DEF LockRefused
<1>3. CASE LockSpin(t)       BY <1>0, <1>3 DEF LockSpin
<1>4. CASE LockMark(t)       BY <1>0, <1>4 DEF LockMark, States
<1>5. CASE UnlockTest(t)     BY <1>0, <1>5 DEF UnlockTest, Skip
<1>6. CASE UnlockRefused(t)  BY <1>0, <1>6 DEF UnlockRefused
<1>7. CASE UnlockSpin(t)     BY <1>0, <1>7 DEF UnlockSpin, SpinUnlock
<1>8. CASE UnlockMark(t)     BY <1>0, <1>8 DEF UnlockMark, States
<1>9. QED  BY <1>1, <1>2, <1>3, <1>4, <1>5, <1>6, <1>7, <1>8 DEF LockStep

LEMMA SwitchKeepsShared ==
  ASSUME TypeInv, NEW t \in Threads, ToggleTest(t) \/ Disable(t) \/ Enable(t)
  PROVE  SharedType'
<1> USE DEF SharedType, shared, switch, table, spin, word, heap
<1>0. SharedType  BY DEF TypeInv
<1>1. ASSUME NEW from, NEW to, Skip(t, from, to) PROVE SharedType'
  BY <1>0, <1>1 DEF Skip
<1>2. ASSUME NEW from, NEW to, SwitchTest(t, from, to) PROVE SharedType'
  BY <1>0, <1>2 DEF SwitchTest
<1>3. ASSUME NEW from, NEW n \in Int, SwitchChange(t, from, n) PROVE SharedType'
  BY <1>0, <1>3 DEF SwitchChange
<1>4. -1 \in Int /\ 1 \in Int  OBVIOUS
<1>5. QED  BY <1>1, <1>2, <1>3, <1>4 DEF ToggleTest, Disable, Enable

LEMMA InitKeepsShared ==
  ASSUME TypeInv, NEW t \in Threads, InitStep(t)
  PROVE  SharedType'
<1> USE DEF SharedType, shared, switch, table, spin, word, heap
<1>0. SharedType  BY DEF TypeInv
<1>s. 0 \in Slots  BY LibConstants DEF Slots
<1>1. CASE InitTest(t)       BY <1>0, <1>1 DEF InitTest, Skip
<1>2. CASE InitLock(t)       BY <1>0, <1>2 DEF InitLock, SpinUnlock, States
<1>3. CASE InitDefault(t)    BY <1>0, <1>s, <1>3, FreshType DEF InitDefault
<1>4. CASE InitNoDefault(t)  BY <1>0, <1>4 DEF InitNoDefault, Skip
<1>5. CASE InitStrands(t)    BY <1>0, <1>5, FreshType DEF InitStrands, Strand
<1>6. CASE InitDone(t)       BY <1>0, <1>6 DEF InitDone
<1>7. QED  BY <1>1, <1>2, <1>3, <1>4, <1>5, <1>6 DEF InitStep

LEMMA CreateKeepsShared ==
  ASSUME TypeInv, NEW t \in Threads, CreateStep(t)
  PROVE  SharedType'
<1> USE DEF SharedType, shared, switch, table, spin, word, heap
<1>0. SharedType  BY DEF TypeInv
<1>1. CASE CreateFind(t)     BY <1>0, <1>1 DEF CreateFind
<1>2. CASE CreateAlloc(t)    BY <1>0, <1>2, FreshType DEF CreateAlloc
<1>3. CASE CreateNoMemory(t) BY <1>0, <1>3 DEF CreateNoMemory
<1>4. CASE CreateHangs(t)    BY <1>0, <1>4, FreshType DEF CreateHangs, Strand
<1>5. CASE CreateDefault(t)
  <2>1. idx[t] \in Slots  BY <1>5 DEF TypeInv, LocalType, CreateDefault, Goto
  <2>2. QED  BY <1>0, <1>5, <2>1 DEF CreateDefault, DefaultIdFor
<1>6. QED  BY <1>1, <1>2, <1>3, <1>4, <1>5 DEF CreateStep

LEMMA TableKeepsShared ==
  ASSUME TypeInv, NEW t \in Threads, TableStep(t)
  PROVE  SharedType'
<1> USE DEF SharedType, shared, switch, table, spin, word, heap
<1>0. SharedType  BY DEF TypeInv
<1>1. CASE ResetTest(t)      BY <1>0, <1>1 DEF ResetTest, Skip
<1>2. CASE DumpTest(t)       BY <1>0, <1>2 DEF DumpTest, Skip
<1>3. CASE Visit(t)          BY <1>0, <1>3 DEF Visit
<1>4. CASE CleanupFree(t)    BY <1>0, <1>4 DEF CleanupFree
<1>5. CASE CleanupClose(t)   BY <1>0, <1>5 DEF CleanupClose
<1>6. CASE CleanupClear(t)   BY <1>0, <1>6 DEF CleanupClear, NoDefault
<1>7. CASE CleanupUnlock(t)  BY <1>0, <1>7 DEF CleanupUnlock, SpinUnlock
<1>8. CASE CleanupDestroy(t) BY <1>0, <1>8 DEF CleanupDestroy, States
<1>9. QED  BY <1>1, <1>2, <1>3, <1>4, <1>5, <1>6, <1>7, <1>8 DEF TableStep

LEMMA StepKeepsShared ==
  ASSUME TypeInv, NEW t \in Threads, Step(t)
  PROVE  SharedType'
<1>1. CASE LogStep(t)
  BY <1>1 DEF LogStep, LogTest, LogLoad, LogClaim, LogFill, Skip, TypeInv,
     SharedType, shared, switch, table, spin, word, heap
<1>2. CASE Return(t)
  BY <1>2 DEF Return, TypeInv, SharedType, shared, switch, table, spin, word, heap
<1>3. QED
  BY <1>1, <1>2, LockKeepsShared, SwitchKeepsShared, InitKeepsShared,
     CreateKeepsShared, TableKeepsShared DEF Step

\* A step that leaves idx and buf alone keeps their types if it does not move
\* to where a slot is needed.
LEMMA LocalWalk ==
  ASSUME TypeInv, NEW t \in Threads, NEW from, NEW to, Goto(t, from, to),
         UNCHANGED <<idx, buf>>,
         to \in {"create_alloc", "create_default"} => idx[t] \in Slots
  PROVE  LocalType'
BY DEF TypeInv, OwnInv, LocalType, Goto

\* A step that sets idx.
LEMMA LocalSlot ==
  ASSUME TypeInv, NEW t \in Threads, NEW from, NEW to, Goto(t, from, to),
         NEW i \in Slots \cup {NoSlot}, idx' = [idx EXCEPT ![t] = i],
         NEW b \in Buffers \cup {Null}, buf' = [buf EXCEPT ![t] = b],
         to \in {"create_alloc", "create_default"} => i \in Slots
  PROVE  LocalType'
BY DEF TypeInv, OwnInv, LocalType, Goto

LEMMA LocalDone ==
  ASSUME TypeInv, NEW t \in Threads, NEW from, NEW to, Goto(t, from, to),
         to \notin {"create_alloc", "create_default"},
         idx' = [idx EXCEPT ![t] = NoSlot],
         NEW b \in Buffers \cup {Null}, buf' = [buf EXCEPT ![t] = b]
  PROVE  LocalType'
<1>1. NoSlot \in Slots \cup {NoSlot}  OBVIOUS
<1>2. QED  BY <1>1, LocalSlot

LEMMA LockKeepsLocal ==
  ASSUME TypeInv, NEW t \in Threads, LockStep(t)
  PROVE  LocalType'
<1>s. 0 \in Slots  BY LibConstants DEF Slots
<1>b. /\ buf[t] \in Buffers \cup {Null} /\ buf = [buf EXCEPT ![t] = buf[t]]
  BY DEF TypeInv, LocalType
<1>1. CASE LockTest(t)       BY <1>1, LocalWalk DEF LockTest, Skip, locals
<1>2. CASE LockRefused(t)
  <2> DEFINE i == IF call[t] = "dump" THEN 0 ELSE NoSlot
  <2>1. i \in Slots \cup {NoSlot} /\ idx' = [idx EXCEPT ![t] = i]
    BY <1>s, <1>2 DEF LockRefused
  <2>2. \E to \in {"visit", "return"} : Goto(t, "lock_test", to)
    BY <1>2 DEF LockRefused
  <2>3. buf' = [buf EXCEPT ![t] = buf[t]]  BY <1>b, <1>2 DEF LockRefused
  <2> HIDE DEF i
  <2>4. QED  BY <1>b, <2>1, <2>2, <2>3, LocalSlot
<1>3. CASE LockSpin(t)       BY <1>3, LocalWalk DEF LockSpin, locals
<1>4. CASE LockMark(t)       BY <1>s, <1>b, <1>4, LocalSlot DEF LockMark, Locked
<1>5. CASE UnlockTest(t)     BY <1>5, LocalWalk DEF UnlockTest, Skip, locals
<1>6. CASE UnlockRefused(t)  BY <1>b, <1>6, LocalDone DEF UnlockRefused
<1>7. CASE UnlockSpin(t)     BY <1>7, LocalWalk DEF UnlockSpin, locals
<1>8. CASE UnlockMark(t)     BY <1>8, LocalWalk DEF UnlockMark, locals
<1>9. QED  BY <1>1, <1>2, <1>3, <1>4, <1>5, <1>6, <1>7, <1>8 DEF LockStep

LEMMA SwitchKeepsLocal ==
  ASSUME TypeInv, NEW t \in Threads, ToggleTest(t) \/ Disable(t) \/ Enable(t)
  PROVE  LocalType'
<1>1. CASE ToggleTest(t)     BY <1>1, LocalWalk DEF ToggleTest, Skip, locals
<1>2. CASE Disable(t)
  BY <1>2, LocalWalk DEF Disable, SwitchTest, SwitchChange, Switched, Skip, locals
<1>3. CASE Enable(t)
  BY <1>3, LocalWalk DEF Enable, SwitchTest, SwitchChange, Switched, Skip, locals
<1>4. QED  BY <1>1, <1>2, <1>3

LEMMA InitKeepsLocal ==
  ASSUME TypeInv, NEW t \in Threads, InitStep(t)
  PROVE  LocalType'
<1>1. CASE InitTest(t)       BY <1>1, LocalWalk DEF InitTest, Skip, locals
<1>2. CASE InitLock(t)       BY <1>2, LocalWalk DEF InitLock, locals
<1>3. CASE InitDefault(t)    BY <1>3, LocalWalk DEF InitDefault, locals
<1>4. CASE InitNoDefault(t)  BY <1>4, LocalWalk DEF InitNoDefault, Skip, locals
<1>5. CASE InitStrands(t)    BY <1>5, LocalWalk DEF InitStrands, Strand, locals
<1>6. CASE InitDone(t)       BY <1>6, LocalWalk DEF InitDone, locals
<1>7. QED  BY <1>1, <1>2, <1>3, <1>4, <1>5, <1>6 DEF InitStep

LEMMA CreateKeepsLocal ==
  ASSUME TypeInv, NEW t \in Threads, CreateStep(t)
  PROVE  LocalType'
<1>i. /\ idx[t] \in Slots \cup {NoSlot} /\ idx = [idx EXCEPT ![t] = idx[t]]
      /\ buf[t] \in Buffers \cup {Null} /\ buf = [buf EXCEPT ![t] = buf[t]]
  BY DEF TypeInv, LocalType
<1>a. pc[t] = "create_alloc" => idx[t] \in Slots  BY DEF TypeInv, LocalType
<1>1. CASE CreateFind(t)
  <2>1. CASE FreeSlots = {}
    BY <1>i, <1>1, <2>1, LocalSlot DEF CreateFind, Found
  <2>2. CASE FreeSlots # {}
    <3>1. PICK i \in FreeSlots : idx' = [idx EXCEPT ![t] = i]
      BY <1>1, <2>2 DEF CreateFind
    <3>2. i \in Slots  BY DEF FreeSlots
    <3>3. QED
      BY <1>i, <1>1, <2>2, <3>1, <3>2, LocalSlot DEF CreateFind, Found
  <2>3. QED  BY <2>1, <2>2
<1>2. CASE CreateAlloc(t)
  <2>1. Goto(t, "create_alloc", "create_default") /\ idx[t] \in Slots
    BY <1>a, <1>2 DEF CreateAlloc, Goto
  <2>2. QED  BY <1>i, <1>2, <2>1, FreshType, LocalSlot DEF CreateAlloc
<1>3. CASE CreateNoMemory(t)
  <2>1. Goto(t, "create_alloc", "create_default") /\ idx[t] \in Slots
    BY <1>a, <1>3 DEF CreateNoMemory, Goto
  <2>2. QED  BY <1>3, <2>1, LocalWalk DEF CreateNoMemory, locals
<1>4. CASE CreateHangs(t)    BY <1>4, LocalWalk DEF CreateHangs, Strand, locals
<1>5. CASE CreateDefault(t)  BY <1>5, LocalWalk DEF CreateDefault, locals
<1>6. QED  BY <1>1, <1>2, <1>3, <1>4, <1>5 DEF CreateStep

\* The loops over the table stay inside it.
LEMMA LoopType ==
  ASSUME TypeInv, NEW t \in Threads, NEW from, NEW loop, NEW to, Goto(t, from, to),
         loop \notin {"create_alloc", "create_default"},
         to = loop => idx[t] + 1 < MaxBufs,
         to \notin {"create_alloc", "create_default"},
         NextSlot(t, loop), UNCHANGED buf
  PROVE  LocalType'
<1>1. idx[t] \in Slots \cup {NoSlot}  BY DEF TypeInv, LocalType
<1>2. to = loop => idx[t] + 1 \in Slots
  BY <1>1, LibConstants DEF Slots, NoSlot
<1>3. pc'[t] = to  BY DEF TypeInv, OwnInv, Goto
<1>4. \E i \in Slots \cup {NoSlot} : idx' = [idx EXCEPT ![t] = i]
  BY <1>2, <1>3 DEF NextSlot
<1>5. buf[t] \in Buffers \cup {Null} /\ buf' = [buf EXCEPT ![t] = buf[t]]
  BY DEF TypeInv, LocalType
<1>6. QED  BY <1>4, <1>5, LocalSlot

LEMMA TableKeepsLocal ==
  ASSUME TypeInv, NEW t \in Threads, TableStep(t)
  PROVE  LocalType'
<1>1. CASE ResetTest(t)      BY <1>1, LocalWalk DEF ResetTest, Skip, locals
<1>2. CASE DumpTest(t)       BY <1>2, LocalWalk DEF DumpTest, Skip, locals
<1>3. CASE Visit(t)          BY <1>3, LoopType DEF Visit, AfterSlot
<1>4. CASE CleanupFree(t)    BY <1>4, LoopType DEF CleanupFree, AfterSlot
<1>5. CASE CleanupClose(t)   BY <1>5, LocalWalk DEF CleanupClose, locals
<1>6. CASE CleanupClear(t)   BY <1>6, LocalWalk DEF CleanupClear, locals
<1>7. CASE CleanupUnlock(t)  BY <1>7, LocalWalk DEF CleanupUnlock, locals
<1>8. CASE CleanupDestroy(t) BY <1>8, LocalWalk DEF CleanupDestroy, locals
<1>9. QED  BY <1>1, <1>2, <1>3, <1>4, <1>5, <1>6, <1>7, <1>8 DEF TableStep

LEMMA LogKeepsLocal ==
  ASSUME TypeInv, NEW t \in Threads, LogStep(t)
  PROVE  LocalType'
<1>1. CASE LogTest(t)        BY <1>1, LocalWalk DEF LogTest, Skip, locals
<1>2. CASE LogLoad(t)
  <2>1. idx[t] \in Slots \cup {NoSlot} /\ idx' = [idx EXCEPT ![t] = idx[t]]
    BY <1>2 DEF LogLoad, TypeInv, LocalType
  <2>2. Target(t) \in Buffers \cup {Null}
    BY <2>1 DEF Target, TypeInv, SharedType
  <2>3. Goto(t, "log_load", "log_claim") /\ buf' = [buf EXCEPT ![t] = Target(t)]
    BY <1>2 DEF LogLoad
  <2>4. "log_claim" \notin {"create_alloc", "create_default"}  OBVIOUS
  <2>5. QED  BY <2>1, <2>2, <2>3, <2>4, LocalSlot
<1>3. CASE LogClaim(t)       BY <1>3, LocalWalk DEF LogClaim, Skip, locals
<1>4. CASE LogFill(t)        BY <1>4, LocalWalk DEF LogFill, Skip, locals
<1>5. QED  BY <1>1, <1>2, <1>3, <1>4 DEF LogStep

LEMMA NextKeepsTypes == TypeInv /\ [Next]_vars => TypeInv'
<1> SUFFICES ASSUME TypeInv, [Next]_vars PROVE TypeInv'  OBVIOUS
<1>1. OwnInv'  BY NextKeepsOwn DEF TypeInv
<1>2. ASSUME NEW t \in Threads, Step(t) PROVE SharedType' /\ LocalType'
  <2>1. CASE Return(t)
    <3>1. LocalType'  BY <2>1, LocalDone DEF Return
    <3>2. QED  BY <1>2, <3>1, StepKeepsShared
  <2>2. QED
    BY <1>2, <2>1, StepKeepsShared, LockKeepsLocal, SwitchKeepsLocal,
       InitKeepsLocal, CreateKeepsLocal, TableKeepsLocal, LogKeepsLocal DEF Step
<1>3. ASSUME NEW t \in Threads, NEW c \in Calls[t], NEW i \in Slots \cup {NoSlot},
             Start(t, c, i)
      PROVE  SharedType' /\ LocalType'
  <2>1. FirstPC[c] \notin {"create_alloc", "create_default"}
    BY LibConstants DEF FirstPC, CallNames
  <2>2. buf[t] \in Buffers \cup {Null} /\ buf' = [buf EXCEPT ![t] = buf[t]]
    BY <1>3 DEF Start, TypeInv, LocalType
  <2>3. LocalType'  BY <1>3, <2>1, <2>2, LocalSlot DEF Start
  <2>4. SharedType'
    BY <1>3 DEF Start, TypeInv, SharedType, shared, switch, table, spin, word, heap
  <2>5. QED  BY <2>3, <2>4
<1>4. ASSUME UNCHANGED vars PROVE SharedType' /\ LocalType'
  <2>1. SharedType'
    BY <1>4 DEF vars, shared, switch, table, spin, word, heap, TypeInv, SharedType
  <2>2. LocalType'
    BY <1>4 DEF vars, locals, TypeInv, LocalType
  <2>3. QED  BY <2>1, <2>2
<1>5. QED  BY <1>1, <1>2, <1>3, <1>4 DEF Next, TypeInv

LEMMA InitTypes == Init => TypeInv
<1> SUFFICES ASSUME Init PROVE TypeInv  OBVIOUS
<1>1. OwnInv  BY InitOwn
<1>2. SharedType
  <2>1. /\ enabled \in Int
        /\ buffers \in [Slots -> Buffers \cup {Null}]
        /\ default_buf \in Buffers \cup {Null}
        /\ default_id \in Slots \cup {NoSlot}
    BY DEF Init
  <2>2. gstate \in States /\ owner \in Threads \cup {Nobody}
    BY DEF Init, States
  <2>3. live \subseteq Buffers /\ stranded \subseteq Buffers  BY DEF Init
  <2>4. /\ inited \in BOOLEAN /\ glock \in BOOLEAN /\ intruded \in BOOLEAN
        /\ overwritten \in BOOLEAN /\ overlapped \in BOOLEAN
    BY DEF Init
  <2>5. QED  BY <2>1, <2>2, <2>3, <2>4 DEF SharedType
<1>3. LocalType  BY DEF Init, LocalType
<1>4. QED  BY <1>1, <1>2, <1>3 DEF TypeInv

\* All variables keep their types: the loops stay inside the buffer table and
\* the default id, where there is one, is an index of it.
THEOREM LibTypeCorrect == Spec => []LibTypeOK
<1>1. TypeInv => LibTypeOK
  BY DEF TypeInv, OwnInv, SharedType, LocalType, LibTypeOK
<1>2. QED  BY InitTypes, NextKeepsTypes, <1>1, PTL DEF Spec

-----------------------------------------------------------------------------
\* Between the test of the switch and its change.
Between(p) == p \in {"disable_sub", "enable_add"}

\* As long as no two calls were in between, the one that is there finds the
\* switch as it tested it.
SwitchInv ==
  overlapped \/
    /\ enabled \in {0, 1}
    /\ \A t \in Threads : pc[t] = "disable_sub" => enabled = 1
    /\ \A t \in Threads : pc[t] = "enable_add" => enabled = 0
    /\ \A t, u \in Threads : Between(pc[t]) /\ Between(pc[u]) => t = u

LEMMA SwitchWalk ==
  ASSUME OwnInv, SwitchInv, NEW t \in Threads, NEW from, NEW to, Goto(t, from, to),
         ~Between(to), UNCHANGED switch
  PROVE  SwitchInv'
BY DEF OwnInv, SwitchInv, Goto, Between, switch

LEMMA SwitchTested ==
  ASSUME OwnInv, SwitchInv, NEW t \in Threads,
         \/ DisableNeeded /\ SwitchTest(t, "disable_test", "disable_sub")
         \/ EnableNeeded /\ SwitchTest(t, "enable_test", "enable_add")
  PROVE  SwitchInv'
<1>1. PICK to \in {"disable_sub", "enable_add"} :
        /\ pc' = [pc EXCEPT ![t] = to]
        /\ enabled' = enabled /\ enabled = (IF to = "disable_sub" THEN 1 ELSE 0)
        /\ overlapped' = (overlapped \/ \E u \in Threads \ {t} : Between(pc[u]))
  BY DEF DisableNeeded, EnableNeeded, SwitchTest, Goto, Between
<1>2. pc'[t] = to /\ \A u \in Threads : u # t => pc'[u] = pc[u]
  BY <1>1 DEF OwnInv
<1>3. ASSUME ~overlapped'
      PROVE  \A u \in Threads : u # t => ~Between(pc'[u])
  BY <1>1, <1>2, <1>3
<1>4. QED  BY <1>1, <1>2, <1>3 DEF SwitchInv, Between

LEMMA SwitchChanged ==
  ASSUME OwnInv, SwitchInv, NEW t \in Threads,
         SwitchChange(t, "disable_sub", -1) \/ SwitchChange(t, "enable_add", 1)
  PROVE  SwitchInv'
<1>1. PICK from \in {"disable_sub", "enable_add"} :
        /\ pc[t] = from /\ pc' = [pc EXCEPT ![t] = Switched(call[t])]
        /\ enabled' = enabled + (IF from = "disable_sub" THEN -1 ELSE 1)
        /\ overlapped' = overlapped
  BY DEF SwitchChange, Goto
<1>2. ~Between(pc'[t]) /\ \A u \in Threads : u # t => pc'[u] = pc[u]
  BY <1>1 DEF OwnInv, Switched, Between
<1>3. CASE overlapped  BY <1>1, <1>3 DEF SwitchInv
<1>4. CASE ~overlapped
  <2>1. \A u \in Threads : u # t => ~Between(pc[u])
    BY <1>1, <1>4 DEF SwitchInv, Between
  <2>2. enabled' \in {0, 1}  BY <1>1, <1>4 DEF SwitchInv
  <2>3. \A u \in Threads : ~Between(pc'[u])  BY <1>2, <2>1
  <2>4. QED  BY <2>2, <2>3 DEF SwitchInv, Between
<1>5. QED  BY <1>3, <1>4

LEMMA NextKeepsSwitch == OwnInv /\ SwitchInv /\ [Next]_vars => SwitchInv'
<1> SUFFICES ASSUME OwnInv, SwitchInv, [Next]_vars PROVE SwitchInv'  OBVIOUS
<1>s. ASSUME NEW t \in Threads, NEW from, NEW to, Skip(t, from, to), ~Between(to)
      PROVE  SwitchInv'
  BY <1>s, SwitchWalk DEF Skip, shared
<1>1. ASSUME NEW t \in Threads, NEW c \in Calls[t], NEW i, Start(t, c, i)
      PROVE  SwitchInv'
  <2>1. c \in CallNames  BY LibConstants
  <2>2. ~Between(FirstPC[c])  BY <2>1 DEF CallNames, FirstPC, Between
  <2>3. QED  BY <1>1, <2>2, SwitchWalk DEF Start, shared
<1>2. ASSUME NEW t \in Threads, LockStep(t) PROVE SwitchInv'
  <2>1. PICK from \in PCs, to \in PCs :
          Goto(t, from, to) /\ ~Between(to) /\ UNCHANGED switch
    <3> USE DEF PCs, Between
    <3>1. CASE LockTest(t)       BY <3>1 DEF LockTest, Skip, shared
    <3>2. CASE LockRefused(t)    BY <3>2 DEF LockRefused, shared
    <3>3. CASE LockSpin(t)       BY <3>3 DEF LockSpin
    <3>4. CASE LockMark(t)       BY <3>4 DEF LockMark, Locked
    <3>5. CASE UnlockTest(t)     BY <3>5 DEF UnlockTest, Skip, shared
    <3>6. CASE UnlockRefused(t)  BY <3>6 DEF UnlockRefused, shared
    <3>7. CASE UnlockSpin(t)     BY <3>7 DEF UnlockSpin
    <3>8. CASE UnlockMark(t)     BY <3>8 DEF UnlockMark
    <3>9. QED
      BY <1>2, <3>1, <3>2, <3>3, <3>4, <3>5, <3>6, <3>7, <3>8 DEF LockStep
  <2>2. QED  BY <2>1, SwitchWalk
<1>3. ASSUME NEW t \in Threads, ToggleTest(t) \/ Disable(t) \/ Enable(t)
      PROVE  SwitchInv'
  <2>1. ASSUME NEW from, NEW to,
               ToggleTest(t) \/ Skip(t, from, Switched(call[t]))
        PROVE  SwitchInv'
    BY <2>1, <1>s DEF ToggleTest, Switched, Between
  <2>2. QED  BY <1>3, <2>1, SwitchTested, SwitchChanged DEF Disable, Enable
<1>4. ASSUME NEW t \in Threads, InitStep(t) \/ CreateStep(t) \/ TableStep(t)
      PROVE  SwitchInv'
  <2>1. CASE InitStep(t)
    BY <2>1, SwitchWalk DEF InitStep, InitTest, InitLock, InitDefault, InitNoDefault,
       InitStrands, Strand, InitDone, Skip, Between, shared
  <2>2. CASE CreateStep(t)
    BY <2>2, SwitchWalk DEF CreateStep, CreateFind, Found, CreateAlloc,
       CreateNoMemory, CreateHangs, Strand, CreateDefault, Between, shared
  <2>3. CASE TableStep(t)
    <3> USE DEF Between
    <3>1. CASE ResetTest(t) \/ DumpTest(t)
      BY <1>s, <3>1 DEF ResetTest, DumpTest
    <3>2. CASE Visit(t)  BY <3>2, SwitchWalk DEF Visit, AfterSlot, shared
    <3>3. CASE CleanupFree(t)
      BY <3>3, SwitchWalk DEF CleanupFree, AfterSlot
    <3>4. CASE CleanupClose(t) \/ CleanupClear(t) \/ CleanupUnlock(t) \/ CleanupDestroy(t)
      BY <3>4, SwitchWalk DEF CleanupClose, CleanupClear, CleanupUnlock, CleanupDestroy
    <3>5. QED  BY <2>3, <3>1, <3>2, <3>3, <3>4 DEF TableStep
  <2>4. QED  BY <1>4, <2>1, <2>2, <2>3
<1>5. ASSUME NEW t \in Threads, LogStep(t) PROVE SwitchInv'
  BY <1>5, SwitchWalk DEF LogStep, LogTest, LogLoad, LogClaim, LogFill, Skip,
     Between, shared
<1>6. ASSUME NEW t \in Threads, Return(t) PROVE SwitchInv'
  BY <1>6, SwitchWalk DEF Return, Between, shared
<1>7. CASE UNCHANGED vars
  BY <1>7 DEF vars, shared, switch, SwitchInv
<1>8. QED  BY <1>1, <1>2, <1>3, <1>4, <1>5, <1>6, <1>7 DEF Next, Step

\* The logging switch leaves 0 and 1 only after two threads were between the
\* test and the atomic addition at once: however many threads enable, disable
\* and toggle it, that is the only way.
THEOREM SwitchStaysBinary == Spec => []SwitchBinary
<1>1. Init => SwitchInv  BY DEF Init, SwitchInv, Between
<1>2. SwitchInv => SwitchBinary  BY DEF SwitchInv, SwitchBinary
<1>3. QED  BY InitOwn, NextKeepsOwn, NextKeepsSwitch, <1>1, <1>2, PTL DEF Spec

-----------------------------------------------------------------------------
(***************************************************************************)
(* The theorems from here on are about applications that run init and      *)
(* cleanup while no other call runs: Joined.                               *)
(***************************************************************************)
LogPlaces == {"log_test", "log_load", "log_claim", "log_fill"}
CreatePlaces == {"hung", "create_find", "create_alloc", "create_default"}
CleanupPlaces == {"cleanup_free", "cleanup_close", "cleanup_clear",
                  "cleanup_unlock", "cleanup_destroy"}

\* The places that a call gets to.
RunsIn(p, c) ==
  /\ p = "idle" <=> c = "none"
  /\ p \in {"init_test", "init_lock", "init_default", "init_done"} => c = "init"
  /\ p \in {"enable_test", "enable_add"} => c \in {"init", "toggle"}
  /\ p \in {"disable_test", "disable_sub"} => c \in {"cleanup", "toggle"}
  /\ p = "toggle_test" => c = "toggle"
  /\ p \in {"lock_test", "lock_spin", "lock_mark"}
       => c \in {"cleanup", "create", "reset", "dump"}
  /\ p \in {"unlock_test", "unlock_spin", "unlock_mark"}
       => c \in {"create", "reset", "dump"}
  /\ p \in CreatePlaces => c = "create"
  /\ p = "visit" => c \in {"reset", "dump"}
  /\ p \in CleanupPlaces => c = "cleanup"
  /\ p \in LogPlaces => c = "log"
  /\ p = "reset_test" => c = "reset"
  /\ p = "dump_test" => c = "dump"

\* Places that are passed only in a library that is initialised.
Opened(p, c) ==
  \/ p \in {"lock_spin", "lock_mark", "visit", "unlock_spin", "unlock_mark",
            "cleanup_free", "cleanup_close"}
  \/ p \in CreatePlaces
  \/ p \in LogPlaces \ {"log_test"}
  \/ p \in {"disable_test", "disable_sub"} /\ c = "cleanup"
  \/ p = "lock_test" /\ c = "dump"

\* Places of init once it has set up the global lock.
Opening(p, c) ==
  \/ p \in {"init_default", "init_done"}
  \/ p \in {"enable_test", "enable_add"} /\ c = "init"

\* Places that are passed only in a library that is not.
Closed(p, c) ==
  \/ Opening(p, c)
  \/ p \in {"init_lock", "cleanup_clear", "cleanup_unlock", "cleanup_destroy"}

\* A call that changes the library is alone, so the flag that a call has
\* tested stays as it was until the call ends.
JoinInv ==
  /\ \A t \in Threads : RunsIn(pc[t], call[t])
  /\ \A t, u \in Threads : call[t] \in {"init", "cleanup"} /\ u # t => pc[u] = "idle"
  /\ \A t \in Threads : /\ Opened(pc[t], call[t]) => inited
                        /\ Closed(pc[t], call[t]) => ~inited

LEMMA JoinWalk ==
  ASSUME OwnInv, JoinInv, NEW t \in Threads, NEW from, NEW to, Goto(t, from, to),
         from # "idle", UNCHANGED <<inited, call>>, RunsIn(to, call[t]),
         Opened(to, call[t]) => inited,
         Closed(to, call[t]) => ~inited
  PROVE  JoinInv'
<1>1. pc[t] = from /\ pc'[t] = to /\ \A u \in Threads : u # t => pc'[u] = pc[u]
  BY DEF OwnInv, Goto
<1>2. \A u \in Threads :
        /\ RunsIn(pc'[u], call'[u])
        /\ Opened(pc'[u], call'[u]) => inited'
        /\ Closed(pc'[u], call'[u]) => ~inited'
  BY <1>1 DEF JoinInv
<1>3. ASSUME NEW u \in Threads, NEW v \in Threads, call'[u] \in {"init", "cleanup"},
             v # u
      PROVE  pc'[v] = "idle"
  BY <1>1, <1>3 DEF JoinInv
<1>4. QED  BY <1>2, <1>3 DEF JoinInv

\* init and cleanup change the flag while nobody else is there.
LEMMA JoinFlag ==
  ASSUME OwnInv, JoinInv, NEW t \in Threads, NEW from, NEW to, Goto(t, from, to),
         call[t] \in {"init", "cleanup"}, UNCHANGED call, RunsIn(to, call[t]),
         Opened(to, call[t]) => inited',
         Closed(to, call[t]) => ~inited'
  PROVE  JoinInv'
<1>1. pc[t] = from /\ pc'[t] = to /\ \A u \in Threads : u # t => pc'[u] = pc[u]
  BY DEF OwnInv, Goto
<1>2. \A u \in Threads : u # t => pc[u] = "idle" /\ call[u] = "none"
  BY DEF JoinInv, RunsIn
<1>3. ~Opened("idle", "none") /\ ~Closed("idle", "none")
  BY DEF Opened, Closed, Opening, CreatePlaces, LogPlaces
<1>4. \A u \in Threads :
        /\ RunsIn(pc'[u], call'[u])
        /\ Opened(pc'[u], call'[u]) => inited'
        /\ Closed(pc'[u], call'[u]) => ~inited'
  BY <1>1, <1>2, <1>3 DEF JoinInv
<1>5. \A u, v \in Threads : call'[u] \in {"init", "cleanup"} /\ v # u => pc'[v] = "idle"
  BY <1>1, <1>2
<1>6. QED  BY <1>4, <1>5 DEF JoinInv

LEMMA JoinThread ==
  ASSUME JoinInv, NEW t \in Threads
  PROVE  /\ RunsIn(pc[t], call[t])
         /\ Opened(pc[t], call[t]) => inited
         /\ Closed(pc[t], call[t]) => ~inited
BY DEF JoinInv

LEMMA StepKeepsJoin ==
  ASSUME OwnInv, JoinInv, NEW t \in Threads, Step(t)
  PROVE  JoinInv'
<1> USE DEF RunsIn, Opened, Closed, Opening, CreatePlaces, CleanupPlaces, LogPlaces
<1>t. /\ RunsIn(pc[t], call[t])
      /\ Opened(pc[t], call[t]) => inited
      /\ Closed(pc[t], call[t]) => ~inited
  BY JoinThread
<1>1. CASE LockStep(t)
  <2>1. CASE LockTest(t)
    BY <1>t, <2>1, JoinWalk DEF LockTest, Skip, Goto, shared, locals
  <2>2. CASE LockRefused(t)
    BY <1>t, <2>2, JoinWalk DEF LockRefused, Goto, shared
  <2>3. CASE LockSpin(t)       BY <1>t, <2>3, JoinWalk DEF LockSpin, Goto, locals
  <2>4. CASE LockMark(t)       BY <1>t, <2>4, JoinWalk DEF LockMark, Locked, Goto
  <2>5. CASE UnlockTest(t)
    BY <1>t, <2>5, JoinWalk DEF UnlockTest, Skip, Goto, shared, locals
  <2>6. CASE UnlockRefused(t)  BY <1>t, <2>6, JoinWalk DEF UnlockRefused, Goto, shared
  <2>7. CASE UnlockSpin(t)     BY <1>t, <2>7, JoinWalk DEF UnlockSpin, Goto, locals
  <2>8. CASE UnlockMark(t)     BY <1>t, <2>8, JoinWalk DEF UnlockMark, Goto, locals
  <2>9. QED
    BY <1>1, <2>1, <2>2, <2>3, <2>4, <2>5, <2>6, <2>7, <2>8 DEF LockStep
<1>2. CASE ToggleTest(t)
  BY <1>t, <1>2, JoinWalk DEF ToggleTest, Skip, Goto, shared, locals
<1>3. CASE Disable(t)
  <2>1. CASE SwitchTest(t, "disable_test", "disable_sub")
    BY <1>t, <2>1, JoinWalk DEF SwitchTest, Goto, locals
  <2>2. CASE Skip(t, "disable_test", Switched(call[t]))
    BY <1>t, <2>2, JoinWalk DEF Skip, Switched, Goto, shared, locals
  <2>3. CASE SwitchChange(t, "disable_sub", -1)
    BY <1>t, <2>3, JoinWalk DEF SwitchChange, Switched, Goto, locals
  <2>4. QED  BY <1>3, <2>1, <2>2, <2>3 DEF Disable
<1>4. CASE Enable(t)
  <2>1. CASE SwitchTest(t, "enable_test", "enable_add")
    BY <1>t, <2>1, JoinWalk DEF SwitchTest, Goto, locals
  <2>2. CASE Skip(t, "enable_test", Switched(call[t]))
    BY <1>t, <2>2, JoinWalk DEF Skip, Switched, Goto, shared, locals
  <2>3. CASE SwitchChange(t, "enable_add", 1)
    BY <1>t, <2>3, JoinWalk DEF SwitchChange, Switched, Goto, locals
  <2>4. QED  BY <1>4, <2>1, <2>2, <2>3 DEF Enable
<1>5. CASE InitStep(t)
  <2>1. CASE InitTest(t)
    BY <1>t, <2>1, JoinWalk DEF InitTest, Skip, Goto, shared, locals
  <2>2. CASE InitLock(t)       BY <1>t, <2>2, JoinWalk DEF InitLock, Goto, locals
  <2>3. CASE InitDefault(t)    BY <1>t, <2>3, JoinWalk DEF InitDefault, Goto, locals
  <2>4. CASE InitNoDefault(t)
    BY <1>t, <2>4, JoinWalk DEF InitNoDefault, Skip, Goto, shared, locals
  <2>5. CASE InitStrands(t)
    BY <1>t, <2>5, JoinWalk DEF InitStrands, Strand, Goto, locals
  <2>6. CASE InitDone(t)       BY <1>t, <2>6, JoinFlag DEF InitDone, Goto, locals
  <2>7. QED  BY <1>5, <2>1, <2>2, <2>3, <2>4, <2>5, <2>6 DEF InitStep
<1>6. CASE CreateStep(t)
  <2>1. CASE CreateFind(t)
    BY <1>t, <2>1, JoinWalk DEF CreateFind, Found, Goto, shared
  <2>2. CASE CreateAlloc(t)    BY <1>t, <2>2, JoinWalk DEF CreateAlloc, Goto
  <2>3. CASE CreateNoMemory(t) BY <1>t, <2>3, JoinWalk DEF CreateNoMemory, Goto, locals
  <2>4. CASE CreateHangs(t)
    BY <1>t, <2>4, JoinWalk DEF CreateHangs, Strand, Goto, locals
  <2>5. CASE CreateDefault(t)  BY <1>t, <2>5, JoinWalk DEF CreateDefault, Goto, locals
  <2>6. QED  BY <1>6, <2>1, <2>2, <2>3, <2>4, <2>5 DEF CreateStep
<1>7. CASE TableStep(t)
  <2>1. CASE ResetTest(t)
    BY <1>t, <2>1, JoinWalk DEF ResetTest, Skip, Goto, shared, locals
  <2>2. CASE DumpTest(t)
    BY <1>t, <2>2, JoinWalk DEF DumpTest, Skip, Goto, shared, locals
  <2>3. CASE Visit(t)
    BY <1>t, <2>3, JoinWalk DEF Visit, AfterSlot, Goto, shared
  <2>4. CASE CleanupFree(t)
    BY <1>t, <2>4, JoinWalk DEF CleanupFree, AfterSlot, Goto
  <2>5. CASE CleanupClose(t)   BY <1>t, <2>5, JoinFlag DEF CleanupClose, Goto, locals
  <2>6. CASE CleanupClear(t)   BY <1>t, <2>6, JoinWalk DEF CleanupClear, Goto, locals
  <2>7. CASE CleanupUnlock(t)  BY <1>t, <2>7, JoinWalk DEF CleanupUnlock, Goto, locals
  <2>8. CASE CleanupDestroy(t) BY <1>t, <2>8, JoinWalk DEF CleanupDestroy, Goto, locals
  <2>9. QED
    BY <1>7, <2>1, <2>2, <2>3, <2>4, <2>5, <2>6, <2>7, <2>8 DEF TableStep
<1>8. CASE LogStep(t)
  <2>1. CASE LogTest(t)
    BY <1>t, <2>1, JoinWalk DEF LogTest, Wanted, Skip, Goto, shared, locals
  <2>2. CASE LogLoad(t)        BY <1>t, <2>2, JoinWalk DEF LogLoad, Goto, shared
  <2>3. CASE LogClaim(t)
    BY <1>t, <2>3, JoinWalk DEF LogClaim, Skip, Goto, shared, locals
  <2>4. CASE LogFill(t)
    BY <1>t, <2>4, JoinWalk DEF LogFill, Skip, Goto, shared, locals
  <2>5. QED  BY <1>8, <2>1, <2>2, <2>3, <2>4 DEF LogStep
<1>9. CASE Return(t)
  <2>1. /\ pc[t] = "return" /\ pc'[t] = "idle" /\ call'[t] = "none" /\ inited' = inited
        /\ \A u \in Threads : u # t => pc'[u] = pc[u] /\ call'[u] = call[u]
    BY <1>9 DEF Return, Goto, OwnInv, shared
  <2>2. \A u \in Threads :
          /\ RunsIn(pc'[u], call'[u])
          /\ Opened(pc'[u], call'[u]) => inited'
          /\ Closed(pc'[u], call'[u]) => ~inited'
    <3>1. ASSUME NEW u \in Threads, u # t
          PROVE  /\ RunsIn(pc'[u], call'[u])
                 /\ Opened(pc'[u], call'[u]) => inited'
                 /\ Closed(pc'[u], call'[u]) => ~inited'
      BY <2>1, <3>1, JoinThread
    <3>2. QED  BY <2>1, <3>1
  <2>3. ASSUME NEW u \in Threads, NEW v \in Threads, v # u,
               call'[u] \in {"init", "cleanup"}
        PROVE  pc'[v] = "idle"
    BY <2>1, <2>3 DEF JoinInv
  <2>4. QED  BY <2>2, <2>3 DEF JoinInv
<1>10. QED
  BY <1>1, <1>2, <1>3, <1>4, <1>5, <1>6, <1>7, <1>8, <1>9 DEF Step

LEMMA StartKeepsJoin ==
  ASSUME Joined, OwnInv, JoinInv, NEW t \in Threads, NEW c \in Calls[t], NEW i,
         Start(t, c, i)
  PROVE  JoinInv'
<1>1. c \in CallNames  BY LibConstants
<1>2. /\ pc[t] = "idle" /\ pc'[t] = FirstPC[c] /\ call'[t] = c /\ inited' = inited
      /\ \A u \in Threads : u # t => pc'[u] = pc[u] /\ call'[u] = call[u]
  BY DEF Start, Goto, OwnInv, shared
<1>3. RunsIn(FirstPC[c], c) /\ ~Opened(FirstPC[c], c) /\ ~Closed(FirstPC[c], c)
  BY <1>1 DEF CallNames, FirstPC, RunsIn, Opened, Closed, Opening, CreatePlaces,
     CleanupPlaces, LogPlaces
<1>4. \A u \in Threads :
        /\ RunsIn(pc'[u], call'[u])
        /\ Opened(pc'[u], call'[u]) => inited'
        /\ Closed(pc'[u], call'[u]) => ~inited'
  BY <1>2, <1>3, JoinThread
<1>5. ASSUME NEW u \in Threads, NEW v \in Threads, v # u,
             call'[u] \in {"init", "cleanup"}
      PROVE  pc'[v] = "idle"
  <2>1. u = t  BY <1>2, <1>5 DEF Start, MayStart
  <2>2. \A w \in Threads : pc[w] = "idle"  BY <1>2, <1>5, <2>1 DEF Start, MayStart
  <2>3. QED  BY <1>2, <1>5, <2>1, <2>2
<1>6. QED  BY <1>4, <1>5 DEF JoinInv

-----------------------------------------------------------------------------
\* With place p in call c, a thread that took the global lock may still have
\* it, unless the state word was overwritten under it.
MayOwn(p, c) ==
  \/ p \in {"lock_mark", "visit", "unlock_test", "unlock_spin", "cleanup_free",
            "cleanup_close", "cleanup_clear", "cleanup_unlock"}
  \/ p \in CreatePlaces
  \/ p \in {"disable_test", "disable_sub"} /\ c = "cleanup"

\* cleanup has closed the library and not released the lock, or not destroyed it.
Unlocking(p) == p \in {"cleanup_clear", "cleanup_unlock"}
Destroying(p) == Unlocking(p) \/ p = "cleanup_destroy"

\* The lock and its word in a library that is not initialised, and the word
\* while a thread has the lock: the word must say so for it to be given back.
WordInv ==
  /\ ~inited => ~glock \/ \E t \in Threads : Unlocking(pc[t])
  /\ ~inited => \/ gstate = "UNINITED"
                \/ \E t \in Threads : Opening(pc[t], call[t]) \/ Destroying(pc[t])
  /\ ~overwritten => \A t \in Threads : owner = t =>
       /\ MayOwn(pc[t], call[t])
       /\ pc[t] # "lock_mark" => gstate = "SIMPLE"

LEMMA WordWalk ==
  ASSUME OwnInv, WordInv, NEW t \in Threads, NEW from, NEW to, Goto(t, from, to),
         UNCHANGED <<inited, spin, word, call>>,
         Unlocking(from) => Unlocking(to),
         Destroying(from) => Destroying(to),
         Opening(from, call[t]) => Opening(to, call[t]),
         owner = t /\ MayOwn(from, call[t]) => MayOwn(to, call[t]),
         from # "lock_mark"
  PROVE  WordInv'
<1>1. /\ pc[t] = from /\ pc'[t] = to
      /\ \A u \in Threads : u # t => pc'[u] = pc[u]
      /\ inited' = inited /\ glock' = glock /\ owner' = owner /\ gstate' = gstate
      /\ overwritten' = overwritten /\ call' = call
  BY DEF OwnInv, Goto, spin, word
<1>2. ~inited' => ~glock' \/ \E u \in Threads : Unlocking(pc'[u])
  BY <1>1 DEF WordInv
<1>3. ~inited' => \/ gstate' = "UNINITED"
                  \/ \E u \in Threads : Opening(pc'[u], call'[u]) \/ Destroying(pc'[u])
  BY <1>1 DEF WordInv
<1>4. ASSUME ~overwritten', NEW u \in Threads, owner' = u
      PROVE  /\ MayOwn(pc'[u], call'[u])
             /\ pc'[u] # "lock_mark" => gstate' = "SIMPLE"
  BY <1>1, <1>4 DEF WordInv
<1>5. QED  BY <1>2, <1>3, <1>4 DEF WordInv

\* Nobody gets away from a place where it has the lock without giving it back.
LEMMA LockKeepsWord ==
  ASSUME OwnInv, JoinInv, WordInv, NEW t \in Threads, LockStep(t)
  PROVE  WordInv'
<1> USE DEF Unlocking, Destroying, Opening, MayOwn, CreatePlaces
<1>t. /\ RunsIn(pc[t], call[t])
      /\ Opened(pc[t], call[t]) => inited
      /\ Closed(pc[t], call[t]) => ~inited
  BY JoinThread
<1>n. owner = Nobody => owner # t  BY LibConstants
<1>1. CASE LockTest(t)
  BY <1>1, WordWalk DEF LockTest, Skip, shared, locals
<1>2. CASE LockRefused(t)
  BY <1>2, WordWalk DEF LockRefused, shared
<1>3. CASE LockSpin(t)
  <2>1. /\ pc[t] = "lock_spin" /\ pc'[t] = "lock_mark" /\ owner' = t
        /\ inited' = inited /\ inited
    BY <1>3, <1>t DEF LockSpin, Goto, OwnInv, Opened
  <2>2. QED  BY <2>1 DEF WordInv
<1>4. CASE LockMark(t)
  <2>1. /\ pc[t] = "lock_mark" /\ pc'[t] = Locked(call[t]) /\ owner' = owner
        /\ \A u \in Threads : u # t => pc'[u] = pc[u]
        /\ inited' = inited /\ inited /\ call' = call /\ gstate' = "SIMPLE"
        /\ overwritten' = overwritten
    BY <1>4, <1>t DEF LockMark, Goto, OwnInv, Opened, spin
  <2>2. MayOwn(Locked(call[t]), call[t])
    BY DEF Locked
  <2>3. QED  BY <2>1, <2>2 DEF WordInv
<1>5. CASE UnlockTest(t)
  BY <1>5, WordWalk DEF UnlockTest, Skip, shared, locals
<1>6. CASE UnlockRefused(t)
  <2>1. pc[t] = "unlock_test"  BY <1>6 DEF UnlockRefused, Goto
  <2>2. CASE overwritten
    <3>1. /\ pc'[t] = "return" /\ \A u \in Threads : u # t => pc'[u] = pc[u]
          /\ inited' = inited /\ glock' = glock /\ gstate' = gstate
          /\ overwritten' = overwritten /\ call' = call
      BY <1>6 DEF UnlockRefused, Goto, OwnInv, shared, spin, word
    <3>2. QED  BY <2>1, <2>2, <3>1 DEF WordInv
  <2>3. CASE ~overwritten
    <3>1. owner # t
      <4>1. SUFFICES ASSUME owner = t PROVE FALSE  OBVIOUS
      <4>2. gstate = "SIMPLE" /\ ~inited
        BY <1>6, <2>1, <2>3, <4>1 DEF WordInv, UnlockRefused
      <4>3. glock  BY <1>n, <4>1 DEF OwnInv
      <4>4. PICK u \in Threads : Unlocking(pc[u])  BY <4>2, <4>3 DEF WordInv
      <4>5. call[u] = "cleanup" /\ u # t
        BY <2>1, <4>4 DEF JoinInv, RunsIn, CleanupPlaces
      <4>6. QED  BY <2>1, <4>5 DEF JoinInv
    <3>2. QED  BY <1>6, <3>1, WordWalk DEF UnlockRefused, shared
  <2>4. QED  BY <2>2, <2>3
<1>7. CASE UnlockSpin(t)
  <2>1. /\ pc[t] = "unlock_spin" /\ inited' = inited /\ inited /\ owner' = Nobody
    BY <1>7, <1>t DEF UnlockSpin, SpinUnlock, Goto, Opened
  <2>2. QED  BY <2>1, LibConstants DEF WordInv
<1>8. CASE UnlockMark(t)
  <2>1. /\ pc[t] = "unlock_mark" /\ inited' = inited /\ inited /\ owner' = owner
        /\ overwritten' = (overwritten \/ owner \notin {t, Nobody})
    BY <1>8, <1>t DEF UnlockMark, Goto, Opened, spin
  <2>2. ~overwritten => owner # t  BY <2>1 DEF WordInv
  <2>3. QED  BY <2>1, <2>2, LibConstants DEF WordInv
<1>9. QED  BY <1>1, <1>2, <1>3, <1>4, <1>5, <1>6, <1>7, <1>8 DEF LockStep

LEMMA StepKeepsWord ==
  ASSUME OwnInv, JoinInv, WordInv, NEW t \in Threads, Step(t)
  PROVE  WordInv'
<1> USE DEF Unlocking, Destroying, Opening, MayOwn, CreatePlaces
<1>t. /\ RunsIn(pc[t], call[t])
      /\ Opened(pc[t], call[t]) => inited
      /\ Closed(pc[t], call[t]) => ~inited
  BY JoinThread
<1>1. CASE ToggleTest(t)
  BY <1>1, WordWalk DEF ToggleTest, Skip, shared, locals
<1>2. CASE Disable(t)
  <2>1. CASE SwitchTest(t, "disable_test", "disable_sub")
    BY <2>1, WordWalk DEF SwitchTest, locals
  <2>2. CASE Skip(t, "disable_test", Switched(call[t]))
    BY <2>2, WordWalk DEF Skip, Switched, shared, locals
  <2>3. CASE SwitchChange(t, "disable_sub", -1)
    BY <2>3, WordWalk DEF SwitchChange, Switched, locals
  <2>4. QED  BY <1>2, <2>1, <2>2, <2>3 DEF Disable
<1>3. CASE Enable(t)
  <2>1. CASE SwitchTest(t, "enable_test", "enable_add")
    BY <2>1, WordWalk DEF SwitchTest, locals
  <2>2. CASE Skip(t, "enable_test", Switched(call[t]))
    BY <2>2, WordWalk DEF Skip, Switched, shared, locals
  <2>3. CASE SwitchChange(t, "enable_add", 1)
    BY <2>3, WordWalk DEF SwitchChange, Switched, locals
  <2>4. QED  BY <1>3, <2>1, <2>2, <2>3 DEF Enable
<1>4. CASE InitStep(t)
  <2>1. CASE InitTest(t)  BY <2>1, WordWalk DEF InitTest, Skip, shared, locals
  <2>2. CASE InitLock(t)
    <3>1. /\ pc'[t] = "init_default" /\ glock' = FALSE /\ owner' = Nobody
      BY <2>2 DEF InitLock, Goto, OwnInv, SpinUnlock
    <3>2. QED  BY <3>1, LibConstants DEF WordInv
  <2>i. pc[t] = "init_default" => call[t] = "init"  BY <1>t DEF RunsIn
  <2>3. CASE InitDefault(t)
    BY <2>3, <2>i, WordWalk DEF InitDefault, Goto, locals
  <2>4. CASE InitNoDefault(t)
    BY <2>4, <2>i, WordWalk DEF InitNoDefault, Skip, Goto, shared, locals
  <2>5. CASE InitStrands(t)
    BY <2>5, <2>i, WordWalk DEF InitStrands, Strand, Goto, locals
  <2>6. CASE InitDone(t)
    <3>1. /\ pc[t] = "init_done" /\ inited' = TRUE /\ owner' = owner
          /\ \A u \in Threads : u # t => pc'[u] = pc[u]
          /\ gstate' = gstate /\ overwritten' = overwritten /\ call' = call
      BY <2>6 DEF InitDone, Goto, OwnInv, spin, word, locals
    <3>2. QED  BY <3>1 DEF WordInv
  <2>7. QED  BY <1>4, <2>1, <2>2, <2>3, <2>4, <2>5, <2>6 DEF InitStep
<1>5. CASE CreateStep(t)
  <2>1. CASE CreateFind(t)     BY <2>1, WordWalk DEF CreateFind, Found, shared
  <2>2. CASE CreateAlloc(t)    BY <2>2, WordWalk DEF CreateAlloc
  <2>3. CASE CreateNoMemory(t) BY <2>3, WordWalk DEF CreateNoMemory, locals
  <2>4. CASE CreateHangs(t)    BY <2>4, WordWalk DEF CreateHangs, Strand, locals
  <2>5. CASE CreateDefault(t)  BY <2>5, WordWalk DEF CreateDefault, locals
  <2>6. QED  BY <1>5, <2>1, <2>2, <2>3, <2>4, <2>5 DEF CreateStep
<1>6. CASE TableStep(t)
  <2>1. CASE ResetTest(t)      BY <2>1, WordWalk DEF ResetTest, Skip, shared, locals
  <2>2. CASE DumpTest(t)       BY <2>2, WordWalk DEF DumpTest, Skip, shared, locals
  <2>3. CASE Visit(t)          BY <2>3, WordWalk DEF Visit, AfterSlot, shared
  <2>4. CASE CleanupFree(t)    BY <2>4, WordWalk DEF CleanupFree, AfterSlot
  <2>5. CASE CleanupClose(t)
    <3>1. /\ pc[t] = "cleanup_close" /\ pc'[t] = "cleanup_clear" /\ owner' = owner
          /\ \A u \in Threads : u # t => pc'[u] = pc[u]
          /\ gstate' = gstate /\ overwritten' = overwritten /\ call' = call
      BY <2>5 DEF CleanupClose, Goto, OwnInv, spin, word, locals
    <3>2. QED  BY <3>1 DEF WordInv
  <2>6. CASE CleanupClear(t)   BY <2>6, WordWalk DEF CleanupClear, locals
  <2>7. CASE CleanupUnlock(t)
    <3>1. /\ pc'[t] = "cleanup_destroy" /\ glock' = FALSE /\ owner' = Nobody
      BY <2>7 DEF CleanupUnlock, Goto, OwnInv, SpinUnlock
    <3>2. QED  BY <3>1, LibConstants DEF WordInv
  <2>8. CASE CleanupDestroy(t)
    <3>1. /\ pc[t] = "cleanup_destroy" /\ gstate' = "UNINITED" /\ glock' = glock
          /\ owner' = owner /\ inited' = inited
      BY <2>8 DEF CleanupDestroy, Goto, spin
    <3>2. ~inited /\ \A u \in Threads : u # t => pc[u] = "idle"
      BY <1>t, <3>1 DEF JoinInv, RunsIn, Closed, CleanupPlaces
    <3>3. ~glock  BY <3>1, <3>2 DEF WordInv
    <3>4. owner = Nobody  BY <3>3 DEF OwnInv
    <3>5. QED  BY <3>1, <3>3, <3>4, LibConstants DEF WordInv
  <2>9. QED
    BY <1>6, <2>1, <2>2, <2>3, <2>4, <2>5, <2>6, <2>7, <2>8 DEF TableStep
<1>7. CASE LogStep(t)
  <2>1. CASE LogTest(t)        BY <2>1, WordWalk DEF LogTest, Skip, shared, locals
  <2>2. CASE LogLoad(t)        BY <2>2, WordWalk DEF LogLoad, shared
  <2>3. CASE LogClaim(t)       BY <2>3, WordWalk DEF LogClaim, Skip, shared, locals
  <2>4. CASE LogFill(t)        BY <2>4, WordWalk DEF LogFill, Skip, shared, locals
  <2>5. QED  BY <1>7, <2>1, <2>2, <2>3, <2>4 DEF LogStep
<1>8. CASE Return(t)
  <2>1. /\ pc[t] = "return" /\ pc'[t] = "idle" /\ call'[t] = "none"
        /\ \A u \in Threads : u # t => pc'[u] = pc[u] /\ call'[u] = call[u]
        /\ inited' = inited /\ glock' = glock /\ owner' = owner /\ gstate' = gstate
        /\ overwritten' = overwritten
    BY <1>8 DEF Return, Goto, OwnInv, shared, spin, word
  <2>2. QED  BY <2>1 DEF WordInv
<1>9. QED
  BY <1>1, <1>2, <1>3, <1>4, <1>5, <1>6, <1>7, <1>8, LockKeepsWord DEF Step

LEMMA StartKeepsWord ==
  ASSUME OwnInv, JoinInv, WordInv, NEW t \in Threads, NEW c \in Calls[t], NEW i,
         Start(t, c, i)
  PROVE  WordInv'
<1>1. /\ pc[t] = "idle" /\ call'[t] = c
      /\ \A u \in Threads : u # t => pc'[u] = pc[u] /\ call'[u] = call[u]
      /\ inited' = inited /\ glock' = glock /\ owner' = owner /\ gstate' = gstate
      /\ overwritten' = overwritten
  BY DEF Start, Goto, OwnInv, shared, spin, word
<1>2. ~MayOwn("idle", call[t]) /\ ~Opening("idle", call[t]) /\ ~Destroying("idle")
      /\ ~Unlocking("idle")
  BY DEF MayOwn, Opening, Destroying, Unlocking, CreatePlaces
<1>3. QED  BY <1>1, <1>2 DEF WordInv

-----------------------------------------------------------------------------
\* cleanup frees the buffers and has not forgotten them yet.
Freeing(p) == p \in {"cleanup_free", "cleanup_close", "cleanup_clear"}

\* Everything the table names is allocated, but for a cleanup on its way, and
\* so is the buffer that a log call has read from it.
LiveInv ==
  /\ (\A t \in Threads : ~Freeing(pc[t])) =>
       /\ default_buf \in live \cup {Null}
       /\ \A i \in Slots : buffers[i] \in live \cup {Null}
  /\ \A t \in Threads : pc[t] = "log_fill" => buf[t] \in live
  /\ \A t \in Threads : pc[t] = "log_claim" => buf[t] \in live \cup {Null}

\* Who runs any other call is sure that no init and no cleanup runs.
LEMMA NobodyChanges ==
  ASSUME JoinInv, NEW t \in Threads, call[t] \notin {"none", "init", "cleanup"}
  PROVE  \A u \in Threads : call[u] \notin {"init", "cleanup"} /\ ~Freeing(pc[u])
<1>1. pc[t] # "idle"  BY DEF JoinInv, RunsIn
<1>2. \A u \in Threads : call[u] \notin {"init", "cleanup"}  BY <1>1 DEF JoinInv
<1>3. QED  BY <1>2 DEF JoinInv, RunsIn, Freeing, CleanupPlaces

\* Steps that free nothing.
LEMMA LiveStep ==
  ASSUME OwnInv, LiveInv, NEW t \in Threads, NEW from, NEW to, Goto(t, from, to),
         live \subseteq live', \A u \in Threads : u # t => buf'[u] = buf[u],
         to \notin {"log_claim", "log_fill"},
         (\A u \in Threads : ~Freeing(pc'[u])) =>
           /\ default_buf' \in live' \cup {Null}
           /\ \A i \in Slots : buffers'[i] \in live' \cup {Null}
  PROVE  LiveInv'
<1>1. pc'[t] = to /\ \A u \in Threads : u # t => pc'[u] = pc[u]
  BY DEF OwnInv, Goto
<1>2. /\ \A u \in Threads : pc'[u] = "log_fill" => buf'[u] \in live'
      /\ \A u \in Threads : pc'[u] = "log_claim" => buf'[u] \in live' \cup {Null}
  BY <1>1 DEF LiveInv
<1>3. QED  BY <1>2 DEF LiveInv

LEMMA LiveWalk ==
  ASSUME OwnInv, LiveInv, NEW t \in Threads, NEW from, NEW to, Goto(t, from, to),
         live \subseteq live', \A u \in Threads : u # t => buf'[u] = buf[u],
         UNCHANGED <<default_buf, buffers>>,
         Freeing(from) => Freeing(to),
         to \notin {"log_claim", "log_fill"}
  PROVE  LiveInv'
<1>1. (\A u \in Threads : ~Freeing(pc'[u])) => \A u \in Threads : ~Freeing(pc[u])
  BY DEF OwnInv, Goto
<1>2. QED  BY <1>1, LiveStep DEF LiveInv

LEMMA LockKeepsLive ==
  ASSUME OwnInv, LiveInv, NEW t \in Threads, LockStep(t)
  PROVE  LiveInv'
<1> USE DEF Freeing, shared, table, heap, locals
<1>1. CASE LockTest(t)       BY <1>1, LiveWalk DEF LockTest, Skip
<1>2. CASE LockRefused(t)    BY <1>2, LiveWalk DEF LockRefused
<1>3. CASE LockSpin(t)       BY <1>3, LiveWalk DEF LockSpin
<1>4. CASE LockMark(t)       BY <1>4, LiveWalk DEF LockMark, Locked
<1>5. CASE UnlockTest(t)     BY <1>5, LiveWalk DEF UnlockTest, Skip
<1>6. CASE UnlockRefused(t)  BY <1>6, LiveWalk DEF UnlockRefused
<1>7. CASE UnlockSpin(t)     BY <1>7, LiveWalk DEF UnlockSpin
<1>8. CASE UnlockMark(t)     BY <1>8, LiveWalk DEF UnlockMark
<1>9. QED  BY <1>1, <1>2, <1>3, <1>4, <1>5, <1>6, <1>7, <1>8 DEF LockStep

LEMMA FreshUnused == Unused # {} => Fresh \in Buffers /\ Fresh \notin live
BY DEF Unused, Fresh

LEMMA InitKeepsLive ==
  ASSUME TypeInv, JoinInv, LiveInv, NEW t \in Threads, InitStep(t)
  PROVE  LiveInv'
<1> USE DEF Freeing, shared, table, heap, locals
<1>0. OwnInv  BY DEF TypeInv
<1>1. CASE InitTest(t)       BY <1>0, <1>1, LiveWalk DEF InitTest, Skip
<1>2. CASE InitLock(t)
  <2>1. /\ Goto(t, "init_lock", "init_default") /\ live' = live /\ buf' = buf
        /\ default_buf' = default_buf /\ \A i \in Slots : buffers'[i] = Null
    BY <1>2 DEF InitLock
  <2>2. (\A u \in Threads : ~Freeing(pc'[u])) => \A u \in Threads : ~Freeing(pc[u])
    BY <1>0, <2>1 DEF OwnInv, Goto
  <2>3. QED  BY <1>0, <2>1, <2>2, LiveStep DEF LiveInv
<1>3. CASE InitDefault(t)
  <2>1. /\ Goto(t, "init_default", "enable_test") /\ live' = live \cup {Fresh}
        /\ buf' = buf /\ default_buf' = Fresh
        /\ buffers' = [buffers EXCEPT ![0] = Fresh]
    BY <1>3 DEF InitDefault
  <2>2. (\A u \in Threads : ~Freeing(pc'[u])) => \A u \in Threads : ~Freeing(pc[u])
    BY <1>0, <2>1 DEF OwnInv, Goto
  <2>3. \A i \in Slots : buffers'[i] \in {buffers[i], Fresh}
    BY <2>1 DEF TypeInv, SharedType
  <2>4. QED  BY <1>0, <2>1, <2>2, <2>3, LiveStep DEF LiveInv
<1>4. CASE InitNoDefault(t)  BY <1>0, <1>4, LiveWalk DEF InitNoDefault, Skip
<1>5. CASE InitStrands(t)    BY <1>0, <1>5, LiveWalk DEF InitStrands, Strand
<1>6. CASE InitDone(t)       BY <1>0, <1>6, LiveWalk DEF InitDone
<1>7. QED  BY <1>1, <1>2, <1>3, <1>4, <1>5, <1>6 DEF InitStep

LEMMA CreateKeepsLive ==
  ASSUME TypeInv, JoinInv, LiveInv, NEW t \in Threads, CreateStep(t)
  PROVE  LiveInv'
<1> USE DEF Freeing, shared, table, heap, locals
<1>0. OwnInv  BY DEF TypeInv
<1>c. pc[t] \in CreatePlaces
  BY DEF CreateStep, CreateFind, CreateAlloc, CreateNoMemory, CreateHangs, Strand,
     CreateDefault, Goto, CreatePlaces
<1>n. \A u \in Threads : ~Freeing(pc[u])
  <2>1. call[t] = "create"  BY <1>c DEF JoinInv, RunsIn
  <2>2. QED  BY <2>1, NobodyChanges
<1>l. /\ default_buf \in live \cup {Null}
      /\ \A i \in Slots : buffers[i] \in live \cup {Null}
  BY <1>n DEF LiveInv
<1>1. CASE CreateFind(t)     BY <1>0, <1>1, LiveWalk DEF CreateFind, Found
<1>2. CASE CreateAlloc(t)
  <2>1. /\ Goto(t, "create_alloc", "create_default") /\ live' = live \cup {Fresh}
        /\ \A u \in Threads : u # t => buf'[u] = buf[u]
        /\ default_buf' = default_buf
        /\ buffers' = [buffers EXCEPT ![idx[t]] = Fresh]
    BY <1>2 DEF CreateAlloc, TypeInv, LocalType
  <2>2. \A i \in Slots : buffers'[i] \in {buffers[i], Fresh}
    BY <2>1 DEF TypeInv, SharedType
  <2>3. QED  BY <1>0, <1>l, <2>1, <2>2, LiveStep
<1>3. CASE CreateNoMemory(t)
  <2>1. /\ Goto(t, "create_alloc", "create_default") /\ live' = live /\ buf' = buf
        /\ default_buf' = default_buf
        /\ buffers' = [buffers EXCEPT ![idx[t]] = Null]
    BY <1>3 DEF CreateNoMemory
  <2>2. \A i \in Slots : buffers'[i] \in {buffers[i], Null}
    BY <2>1 DEF TypeInv, SharedType
  <2>3. QED  BY <1>0, <1>l, <2>1, <2>2, LiveStep
<1>4. CASE CreateHangs(t)    BY <1>0, <1>4, LiveWalk DEF CreateHangs, Strand
<1>5. CASE CreateDefault(t)
  <2>1. /\ Goto(t, "create_default", "unlock_test") /\ live' = live /\ buf' = buf
        /\ default_buf' \in {default_buf, buffers[idx[t]]} /\ buffers' = buffers
    BY <1>5 DEF CreateDefault
  <2>2. idx[t] \in Slots  BY <2>1 DEF TypeInv, LocalType, Goto
  <2>3. QED  BY <1>0, <1>l, <2>1, <2>2, LiveStep
<1>6. QED  BY <1>1, <1>2, <1>3, <1>4, <1>5 DEF CreateStep

LEMMA TableKeepsLive ==
  ASSUME OwnInv, JoinInv, LiveInv, NEW t \in Threads, TableStep(t)
  PROVE  LiveInv'
<1> USE DEF Freeing, shared, table, heap, locals
<1>1. CASE ResetTest(t)      BY <1>1, LiveWalk DEF ResetTest, Skip
<1>2. CASE DumpTest(t)       BY <1>2, LiveWalk DEF DumpTest, Skip
<1>3. CASE Visit(t)          BY <1>3, LiveWalk DEF Visit, AfterSlot
<1>4. CASE CleanupFree(t)
  <2>1. /\ pc[t] = "cleanup_free" /\ pc'[t] \in {"cleanup_free", "cleanup_close"}
        /\ \A u \in Threads : u # t => pc'[u] = pc[u]
    BY <1>4 DEF CleanupFree, AfterSlot, Goto, OwnInv
  <2>2. \A u \in Threads : u # t => pc[u] = "idle"
    BY <2>1 DEF JoinInv, RunsIn, CleanupPlaces
  <2>3. QED  BY <2>1, <2>2 DEF LiveInv
<1>5. CASE CleanupClose(t)   BY <1>5, LiveWalk DEF CleanupClose
<1>6. CASE CleanupClear(t)
  <2>1. /\ Goto(t, "cleanup_clear", "cleanup_unlock") /\ live' = live /\ buf' = buf
        /\ default_buf' = Null /\ \A i \in Slots : buffers'[i] = Null
    BY <1>6 DEF CleanupClear, NoDefault
  <2>2. QED  BY <2>1, LiveStep
<1>7. CASE CleanupUnlock(t)  BY <1>7, LiveWalk DEF CleanupUnlock
<1>8. CASE CleanupDestroy(t) BY <1>8, LiveWalk DEF CleanupDestroy
<1>9. QED  BY <1>1, <1>2, <1>3, <1>4, <1>5, <1>6, <1>7, <1>8 DEF TableStep

LEMMA LogKeepsLive ==
  ASSUME TypeInv, JoinInv, LiveInv, NEW t \in Threads, LogStep(t)
  PROVE  LiveInv'
<1> USE DEF Freeing, shared, table, heap, locals
<1>0. OwnInv  BY DEF TypeInv
<1>1. CASE LogTest(t)        BY <1>0, <1>1, LiveWalk DEF LogTest, Skip
<1>2. CASE LogLoad(t)
  <2>1. /\ pc[t] = "log_load" /\ pc'[t] = "log_claim" /\ live' = live
        /\ \A u \in Threads : u # t => pc'[u] = pc[u] /\ buf'[u] = buf[u]
        /\ buf'[t] = Target(t) /\ default_buf' = default_buf /\ buffers' = buffers
    BY <1>0, <1>2 DEF LogLoad, Goto, OwnInv, TypeInv, LocalType
  <2>2. call[t] = "log"  BY <2>1 DEF JoinInv, RunsIn, LogPlaces
  <2>3. \A u \in Threads : ~Freeing(pc[u])  BY <2>2, NobodyChanges
  <2>4. idx[t] \in Slots \cup {NoSlot}  BY DEF TypeInv, LocalType
  <2>5. Target(t) \in live \cup {Null}  BY <2>3, <2>4 DEF LiveInv, Target
  <2>6. QED  BY <2>1, <2>3, <2>5 DEF LiveInv
<1>3. CASE LogClaim(t)
  <2>1. CASE inited /\ buf[t] # Null
    <3>1. /\ pc[t] = "log_claim" /\ pc'[t] = "log_fill" /\ live' = live /\ buf' = buf
          /\ \A u \in Threads : u # t => pc'[u] = pc[u]
          /\ default_buf' = default_buf /\ buffers' = buffers
      BY <1>0, <1>3, <2>1 DEF LogClaim, Skip, Goto, OwnInv
    <3>2. QED  BY <2>1, <3>1 DEF LiveInv
  <2>2. CASE ~(inited /\ buf[t] # Null)
    BY <1>0, <1>3, <2>2, LiveWalk DEF LogClaim, Skip
  <2>3. QED  BY <2>1, <2>2
<1>4. CASE LogFill(t)        BY <1>0, <1>4, LiveWalk DEF LogFill, Skip
<1>5. QED  BY <1>1, <1>2, <1>3, <1>4 DEF LogStep

LEMMA StepKeepsLive ==
  ASSUME TypeInv, JoinInv, LiveInv, NEW t \in Threads, Step(t)
  PROVE  LiveInv'
<1> USE DEF Freeing, shared, table, heap, locals
<1>0. OwnInv  BY DEF TypeInv
<1>1. CASE ToggleTest(t)  BY <1>0, <1>1, LiveWalk DEF ToggleTest, Skip
<1>2. CASE Disable(t)
  BY <1>0, <1>2, LiveWalk DEF Disable, SwitchTest, SwitchChange, Switched, Skip
<1>3. CASE Enable(t)
  BY <1>0, <1>3, LiveWalk DEF Enable, SwitchTest, SwitchChange, Switched, Skip
<1>4. CASE Return(t)
  <2>1. \A u \in Threads : u # t => buf'[u] = buf[u]
    BY <1>4 DEF Return, TypeInv, LocalType
  <2>2. QED  BY <1>0, <1>4, <2>1, LiveWalk DEF Return
<1>5. QED
  BY <1>0, <1>1, <1>2, <1>3, <1>4, LockKeepsLive, InitKeepsLive, CreateKeepsLive,
     TableKeepsLive, LogKeepsLive DEF Step

LEMMA StartKeepsLive ==
  ASSUME OwnInv, LiveInv, NEW t \in Threads, NEW c \in Calls[t], NEW i, Start(t, c, i)
  PROVE  LiveInv'
<1>1. c \in CallNames  BY LibConstants
<1>2. FirstPC[c] \notin {"log_claim", "log_fill"} /\ ~Freeing("idle")
  BY <1>1 DEF CallNames, FirstPC, Freeing
<1>3. QED  BY <1>2, LiveWalk DEF Start, shared, table, heap

-----------------------------------------------------------------------------
\* The buffers that are allocated, and not left behind, are those in the slots
\* from n on.
Owned(n) ==
  \A b \in Buffers : b \in live \ stranded <=> \E i \in Slots : n <= i /\ buffers[i] = b

\* init is past the allocation of the default buffer.
Filling(p, c) == p # "init_default" /\ Opening(p, c)

Emptied ==
  default_buf = Null /\ default_id = NoSlot /\ \A i \in Slots : buffers[i] = Null

\* With place p, a cleanup has yet to free the buffers from its slot on.
Clearing(p, c) ==
  p = "cleanup_free" \/ (p \in {"disable_test", "disable_sub"} /\ c = "cleanup")

\* What the table owns, at every place that init, create and cleanup pass.
Owns ==
  /\ stranded \subseteq live
  /\ \A i, j \in Slots : buffers[i] = buffers[j] => i = j \/ buffers[i] = Null
  /\ default_buf = Null \/ (default_id \in Slots /\ buffers[default_id] = default_buf)
  /\ \A t \in Threads : pc[t] = "create_alloc" => buffers[idx[t]] = Null
  /\ (\A t \in Threads : ~Freeing(pc[t])) => Owned(0)
  /\ \A t \in Threads : Clearing(pc[t], call[t]) => idx[t] \in Slots /\ Owned(idx[t])
  /\ \A t \in Threads : pc[t] \in {"cleanup_close", "cleanup_clear"} => live = stranded
  /\ ~inited => \/ Emptied
                \/ \E t \in Threads : Filling(pc[t], call[t]) \/ pc[t] = "cleanup_clear"

\* All of it needs the global lock, so it ends when somebody releases the lock
\* of another call.
OwnsInv == intruded \/ Owns

\* Steps that leave the table and the heap alone.
LEMMA OwnsStep ==
  ASSUME TypeInv, JoinInv, Owns, NEW t \in Threads, NEW from, NEW to, Goto(t, from, to),
         UNCHANGED <<table, heap>>,
         NEW c, call' = [call EXCEPT ![t] = c],
         \A u \in Threads : u # t => idx'[u] = idx[u],
         ~Freeing(from), to \notin {"create_alloc", "cleanup_close", "cleanup_clear"},
         Clearing(to, c) => \/ call[t] = "cleanup" /\ idx'[t] = 0
                            \/ Clearing(from, call[t]) /\ idx'[t] = idx[t],
         inited => inited',
         Filling(from, call[t]) => Filling(to, c) \/ inited'
  PROVE  OwnsInv'
<1>1. /\ pc[t] = from /\ pc'[t] = to /\ call'[t] = c
      /\ \A u \in Threads : u # t => pc'[u] = pc[u] /\ call'[u] = call[u]
  BY DEF TypeInv, OwnInv, Goto
<1>2. /\ buffers' = buffers /\ default_buf' = default_buf /\ default_id' = default_id
      /\ live' = live /\ stranded' = stranded
  BY DEF table, heap
<1>3. \A n : Owned(n) => Owned(n)'  BY <1>2 DEF Owned
<1>4. ASSUME \A u \in Threads : ~Freeing(pc'[u]) PROVE Owned(0)'
  <2>1. \A u \in Threads : ~Freeing(pc[u])  BY <1>1, <1>4
  <2>2. QED  BY <1>3, <2>1 DEF Owns
<1>5. ASSUME NEW u \in Threads, Clearing(pc'[u], call'[u])
      PROVE  /\ idx'[u] \in Slots
             /\ \A b \in Buffers :
                  b \in live' \ stranded' <=>
                    \E i \in Slots : idx'[u] <= i /\ buffers'[i] = b
  <2>1. CASE u # t \/ (Clearing(from, call[t]) /\ idx'[t] = idx[t])
    <3>1. idx'[u] = idx[u] /\ idx[u] \in Slots /\ Owned(idx[u])
      BY <1>1, <1>5, <2>1 DEF Owns
    <3>2. \A b \in Buffers :
            b \in live' \ stranded' <=> \E i \in Slots : idx'[u] <= i /\ buffers'[i] = b
      BY <1>2, <3>1 DEF Owned
    <3>3. QED  BY <3>1, <3>2
  <2>2. CASE u = t /\ ~(Clearing(from, call[t]) /\ idx'[t] = idx[t])
    <3>1. idx'[u] = 0 /\ call[t] = "cleanup"  BY <1>1, <1>5, <2>2
    <3>2. \A v \in Threads : v # t => pc[v] = "idle"  BY <3>1 DEF JoinInv
    <3>3. \A v \in Threads : ~Freeing(pc[v])  BY <1>1, <3>2 DEF Freeing
    <3>4. \A b \in Buffers :
            b \in live' \ stranded' <=> \E i \in Slots : idx'[u] <= i /\ buffers'[i] = b
      BY <1>2, <3>1, <3>3 DEF Owns, Owned
    <3>5. 0 \in Slots  BY LibConstants DEF Slots
    <3>6. QED  BY <3>1, <3>4, <3>5
  <2>3. QED  BY <2>1, <2>2
<1>6. ASSUME NEW u \in Threads, pc'[u] \in {"cleanup_close", "cleanup_clear"}
      PROVE  live' = stranded'
  BY <1>1, <1>2, <1>6 DEF Owns
<1>7. ~inited' => \/ Emptied'
                  \/ \E u \in Threads : Filling(pc'[u], call'[u]) \/ pc'[u] = "cleanup_clear"
  <2>1. SUFFICES ASSUME ~inited', ~Emptied
                 PROVE  \E u \in Threads :
                          Filling(pc'[u], call'[u]) \/ pc'[u] = "cleanup_clear"
    BY <1>2 DEF Emptied
  <2>2. PICK u \in Threads : Filling(pc[u], call[u]) \/ pc[u] = "cleanup_clear"
    BY <2>1 DEF Owns
  <2>3. CASE u = t  BY <1>1, <2>1, <2>2, <2>3 DEF Freeing
  <2>4. CASE u # t  BY <1>1, <2>2, <2>4
  <2>5. QED  BY <2>3, <2>4
<1>8. \A u \in Threads : pc'[u] = "create_alloc" => buffers'[idx'[u]] = Null
  BY <1>1, <1>2 DEF Owns
<1>9. Owns'
  <2>1. \A u \in Threads : Clearing(pc[u], call[u])' => (idx[u] \in Slots /\ Owned(idx[u]))'
    BY <1>5 DEF Owned
  <2>2. /\ stranded' \subseteq live'
        /\ \A i, j \in Slots : buffers'[i] = buffers'[j] => i = j \/ buffers'[i] = Null
        /\ \/ default_buf' = Null
           \/ default_id' \in Slots /\ buffers'[default_id'] = default_buf'
    BY <1>2 DEF Owns
  <2>3. QED  BY <1>4, <1>6, <1>7, <1>8, <2>1, <2>2 DEF Owns
<1>10. QED  BY <1>9 DEF OwnsInv

LEMMA OwnsWalk ==
  ASSUME TypeInv, JoinInv, Owns, NEW t \in Threads, NEW from, NEW to, Goto(t, from, to),
         UNCHANGED <<table, heap, call>>,
         \A u \in Threads : u # t => idx'[u] = idx[u],
         ~Freeing(from), to \notin {"create_alloc", "cleanup_close", "cleanup_clear"},
         Clearing(to, call[t]) => \/ call[t] = "cleanup" /\ idx'[t] = 0
                                  \/ Clearing(from, call[t]) /\ idx'[t] = idx[t],
         inited => inited',
         Filling(from, call[t]) => Filling(to, call[t]) \/ inited'
  PROVE  OwnsInv'
<1>1. call' = [call EXCEPT ![t] = call[t]]  BY DEF TypeInv, OwnInv
<1>2. QED  BY <1>1, OwnsStep

\* Steps of a call that is alone.
LEMMA OwnsAlone ==
  ASSUME TypeInv, JoinInv, NEW t \in Threads, NEW from, NEW to, Goto(t, from, to),
         call[t] \in {"init", "cleanup"}, UNCHANGED call,
         to # "create_alloc", ~Freeing(to), ~Clearing(to, call[t]),
         stranded' \subseteq live', Owned(0)',
         \A i, j \in Slots : buffers'[i] = buffers'[j] => i = j \/ buffers'[i] = Null,
         \/ default_buf' = Null
         \/ default_id' \in Slots /\ buffers'[default_id'] = default_buf',
         inited' \/ Emptied' \/ Filling(to, call[t])
  PROVE  OwnsInv'
<1>1. pc'[t] = to /\ \A u \in Threads : u # t => pc'[u] = "idle"
  BY DEF TypeInv, OwnInv, JoinInv, Goto
<1>2. \A u \in Threads : /\ pc'[u] # "create_alloc"
                         /\ ~Freeing(pc'[u]) /\ ~Clearing(pc'[u], call'[u])
  BY <1>1 DEF Freeing, Clearing
<1>3. Owns'  BY <1>1, <1>2 DEF Owns, Freeing
<1>4. QED  BY <1>3 DEF OwnsInv

\* Steps of a create call, which excludes every other.
LEMMA OwnsCreate ==
  ASSUME TypeInv, JoinInv, Owns, ~intruded, NEW t \in Threads,
         NEW from \in {"create_find", "create_alloc", "create_default"}, NEW to,
         Goto(t, from, to), UNCHANGED <<inited, call>>,
         \A u \in Threads : u # t => idx'[u] = idx[u],
         to = "create_alloc" => buffers'[idx'[t]] = Null,
         ~Freeing(to), ~Clearing(to, "create"),
         stranded' \subseteq live', Owned(0)',
         \A i, j \in Slots : buffers'[i] = buffers'[j] => i = j \/ buffers'[i] = Null,
         \/ default_buf' = Null
         \/ default_id' \in Slots /\ buffers'[default_id'] = default_buf'
  PROVE  OwnsInv'
<1>1. /\ pc[t] = from /\ pc'[t] = to
      /\ \A u \in Threads : u # t => pc'[u] = pc[u]
  BY DEF TypeInv, OwnInv, Goto
<1>2. call[t] = "create" /\ inited
  BY <1>1 DEF JoinInv, RunsIn, Opened, CreatePlaces
<1>3. \A u \in Threads : call[u] \notin {"init", "cleanup"} /\ ~Freeing(pc[u])
  BY <1>2, NobodyChanges
<1>4. ASSUME NEW u \in Threads
      PROVE  /\ pc'[u] = "create_alloc" => buffers'[idx'[u]] = Null
             /\ ~Freeing(pc'[u]) /\ ~Clearing(pc'[u], call'[u])
  <2>1. CASE u = t  BY <1>1, <1>2, <2>1
  <2>2. CASE u # t
    <3>1. pc[u] # "create_alloc"
      <4>1. HoldsAt(pc[t], call[t])  BY <1>1 DEF HoldsAt
      <4>2. pc[u] = "create_alloc" => HoldsAt(pc[u], call[u])  BY DEF HoldsAt
      <4>3. QED  BY <2>2, <4>1, <4>2 DEF TypeInv, OwnInv
    <3>2. ~Freeing(pc[u]) /\ ~Clearing(pc[u], call[u])
      BY <1>3 DEF Clearing, Freeing
    <3>3. QED  BY <1>1, <2>2, <3>1, <3>2
  <2>3. QED  BY <2>1, <2>2
<1>5. Owns'
  <2>1. \A u \in Threads : pc'[u] \notin {"cleanup_close", "cleanup_clear"}
    BY <1>4 DEF Freeing
  <2>2. QED  BY <1>2, <1>4, <2>1 DEF Owns
<1>6. QED  BY <1>5 DEF OwnsInv

\* A new buffer in an empty slot.
LEMMA OwnedFresh ==
  ASSUME TypeInv, Owns, Owned(0), Unused # {}, NEW i \in Slots, buffers[i] = Null,
         buffers' = [buffers EXCEPT ![i] = Fresh], live' = live \cup {Fresh},
         stranded' = stranded
  PROVE  /\ stranded' \subseteq live' /\ Owned(0)'
         /\ \A j, k \in Slots : buffers'[j] = buffers'[k] => j = k \/ buffers'[j] = Null
<1>1. Fresh \in Buffers /\ Fresh \notin live /\ Null \notin Buffers
  BY FreshUnused, LibConstants
<1>2. /\ buffers'[i] = Fresh
      /\ \A j \in Slots : j # i => buffers'[j] = buffers[j]
  BY DEF TypeInv, SharedType
<1>3. stranded \subseteq live  BY DEF Owns
<1>4. \A j \in Slots : 0 <= j  BY LibConstants DEF Slots
<1>5. \A j \in Slots : buffers[j] # Fresh  BY <1>1, <1>4 DEF Owned
<1>6. ASSUME NEW b \in Buffers
      PROVE  b \in live' \ stranded' <=> \E j \in Slots : 0 <= j /\ buffers'[j] = b
  <2>1. CASE b = Fresh  BY <1>1, <1>2, <1>3, <1>4, <2>1
  <2>2. CASE b # Fresh
    <3>1. b \in live' \ stranded' <=> b \in live \ stranded  BY <2>2
    <3>2. ASSUME NEW j \in Slots PROVE buffers'[j] = b <=> buffers[j] = b
      BY <1>1, <1>2, <2>2
    <3>3. QED  BY <3>1, <3>2 DEF Owned
  <2>3. QED  BY <2>1, <2>2
<1>7. \A j, k \in Slots : buffers'[j] = buffers'[k] => j = k \/ buffers'[j] = Null
  BY <1>2, <1>5 DEF Owns
<1>8. QED  BY <1>3, <1>6, <1>7 DEF Owned

\* A buffer that is left behind.
LEMMA OwnedStranded ==
  ASSUME Owns, Owned(0), Unused # {}, live' = live \cup {Fresh},
         stranded' = stranded \cup {Fresh}, buffers' = buffers
  PROVE  stranded' \subseteq live' /\ Owned(0)'
<1>1. Fresh \in Buffers /\ Fresh \notin live  BY FreshUnused
<1>2. stranded \subseteq live  BY DEF Owns
<1>3. \A b \in Buffers : b \in live' \ stranded' <=> b \in live \ stranded
  BY <1>1
<1>4. QED  BY <1>2, <1>3 DEF Owned

LEMMA InitKeepsOwns ==
  ASSUME TypeInv, JoinInv, Owns, NEW t \in Threads, InitStep(t)
  PROVE  OwnsInv'
<1> USE DEF Opening, Filling, Freeing, Clearing
<1>t. /\ RunsIn(pc[t], call[t])
      /\ Closed(pc[t], call[t]) => ~inited
  BY JoinThread
<1>a. ASSUME call[t] = "init"
      PROVE  (\A u \in Threads : u # t => pc[u] = "idle")
  BY <1>a DEF JoinInv
<1>1. CASE InitTest(t)
  BY <1>1, OwnsWalk DEF InitTest, Skip, shared, locals
<1>2. CASE InitLock(t) \/ InitDefault(t) \/ InitNoDefault(t) \/ InitStrands(t)
  <2>1. /\ pc[t] \in {"init_lock", "init_default"} /\ call' = call /\ inited' = inited
    BY <1>2 DEF InitLock, InitDefault, InitNoDefault, InitStrands, Strand, Skip,
       Goto, shared, locals
  <2>2. call[t] = "init" /\ ~inited  BY <1>t, <2>1 DEF RunsIn, Closed
  <2>3. \A u \in Threads : ~Freeing(pc[u])  BY <1>a, <2>1, <2>2
  <2>4. Owned(0) /\ stranded \subseteq live  BY <2>3 DEF Owns
  <2>5. Emptied
    <3>1. \A u \in Threads : ~Filling(pc[u], call[u]) /\ pc[u] # "cleanup_clear"
      BY <1>a, <2>1, <2>2
    <3>2. QED  BY <2>2, <3>1 DEF Owns
  <2>6. CASE InitLock(t)
    <3>1. /\ Goto(t, "init_lock", "init_default") /\ live' = live
          /\ stranded' = stranded /\ default_buf' = default_buf
          /\ default_id' = default_id
          /\ \A i \in Slots : buffers'[i] = Null
      BY <2>6 DEF InitLock, heap
    <3>2. Owned(0)'  BY <2>4, <2>5, <3>1 DEF Owned, Emptied
    <3>3. Emptied'  BY <2>5, <3>1 DEF Emptied
    <3>4. QED  BY <2>1, <2>2, <2>4, <3>1, <3>2, <3>3, OwnsAlone DEF Emptied
  <2>7. CASE InitDefault(t)
    <3>1. /\ Goto(t, "init_default", "enable_test") /\ live' = live \cup {Fresh}
          /\ stranded' = stranded /\ default_buf' = Fresh /\ default_id' = 0
          /\ buffers' = [buffers EXCEPT ![0] = Fresh] /\ Unused # {}
      BY <2>7 DEF InitDefault
    <3>2. 0 \in Slots /\ buffers[0] = Null
      BY <2>5, LibConstants DEF Emptied, Slots
    <3>3. buffers'[0] = Fresh  BY <3>1, <3>2 DEF TypeInv, SharedType
    <3>4. /\ stranded' \subseteq live' /\ Owned(0)'
          /\ \A i, j \in Slots : buffers'[i] = buffers'[j] => i = j \/ buffers'[i] = Null
      BY <2>4, <3>1, <3>2, OwnedFresh
    <3>5. QED  BY <2>1, <2>2, <3>1, <3>2, <3>3, <3>4, OwnsAlone
  <2>8. CASE InitNoDefault(t)
    BY <2>8, OwnsWalk DEF InitNoDefault, Skip, shared, locals
  <2>9. CASE InitStrands(t)
    <3>1. /\ Goto(t, "init_default", "enable_test") /\ live' = live \cup {Fresh}
          /\ stranded' = stranded \cup {Fresh} /\ Unused # {}
          /\ default_buf' = default_buf /\ default_id' = default_id
          /\ buffers' = buffers
      BY <2>9 DEF InitStrands, Strand, table
    <3>2. stranded' \subseteq live' /\ Owned(0)'  BY <2>4, <3>1, OwnedStranded
    <3>3. Emptied'  BY <2>5, <3>1 DEF Emptied
    <3>4. QED  BY <2>1, <2>2, <3>1, <3>2, <3>3, OwnsAlone DEF Emptied
  <2>10. QED  BY <1>2, <2>6, <2>7, <2>8, <2>9
<1>3. CASE InitDone(t)
  BY <1>3, OwnsWalk DEF InitDone, locals
<1>4. QED  BY <1>1, <1>2, <1>3 DEF InitStep

LEMMA CreateKeepsOwns ==
  ASSUME TypeInv, JoinInv, Owns, ~intruded, NEW t \in Threads, CreateStep(t)
  PROVE  OwnsInv'
<1> USE DEF Freeing, Clearing
<1>c. pc[t] \in CreatePlaces
  BY DEF CreateStep, CreateFind, CreateAlloc, CreateNoMemory, CreateHangs, Strand,
     CreateDefault, Goto, CreatePlaces
<1>n. \A u \in Threads : ~Freeing(pc[u])
  <2>1. call[t] = "create"  BY <1>c DEF JoinInv, RunsIn
  <2>2. QED  BY <2>1, NobodyChanges
<1>o. /\ Owned(0) /\ stranded \subseteq live
      /\ \A i, j \in Slots : buffers[i] = buffers[j] => i = j \/ buffers[i] = Null
      /\ default_buf = Null \/ (default_id \in Slots /\ buffers[default_id] = default_buf)
  BY <1>n DEF Owns
<1>i. idx \in [Threads -> Slots \cup {NoSlot}] /\ buffers \in [Slots -> Buffers \cup {Null}]
  BY DEF TypeInv, LocalType, SharedType
<1>1. CASE CreateFind(t)
  <2>1. /\ Goto(t, "create_find", Found) /\ UNCHANGED <<inited, call, table, heap>>
        /\ \A u \in Threads : u # t => idx'[u] = idx[u]
    BY <1>i, <1>1 DEF CreateFind, shared
  <2>2. Owned(0)'  BY <1>o, <2>1 DEF Owned, table, heap
  <2>3. Found = "create_alloc" => buffers[idx'[t]] = Null
    BY <1>i, <1>1 DEF CreateFind, Found, FreeSlots
  <2>4. Found \in {"create_alloc", "unlock_test"}  BY DEF Found
  <2>5. QED  BY <1>o, <2>1, <2>2, <2>3, <2>4, OwnsCreate DEF table, heap
<1>2. CASE CreateAlloc(t)
  <2>1. /\ Goto(t, "create_alloc", "create_default") /\ UNCHANGED <<inited, call, idx>>
        /\ live' = live \cup {Fresh} /\ stranded' = stranded /\ Unused # {}
        /\ default_buf' = default_buf /\ default_id' = default_id
        /\ buffers' = [buffers EXCEPT ![idx[t]] = Fresh]
    BY <1>2 DEF CreateAlloc
  <2>2. idx[t] \in Slots /\ buffers[idx[t]] = Null
    BY <2>1 DEF Goto, TypeInv, LocalType, Owns
  <2>3. /\ stranded' \subseteq live' /\ Owned(0)'
        /\ \A i, j \in Slots : buffers'[i] = buffers'[j] => i = j \/ buffers'[i] = Null
    BY <1>o, <2>1, <2>2, OwnedFresh
  <2>4. default_buf # Null => default_id # idx[t]  BY <1>o, <2>2
  <2>5. \/ default_buf' = Null
        \/ default_id' \in Slots /\ buffers'[default_id'] = default_buf'
    BY <1>i, <1>o, <2>1, <2>4
  <2>6. QED  BY <2>1, <2>3, <2>5, OwnsCreate
<1>3. CASE CreateNoMemory(t)
  <2>1. /\ Goto(t, "create_alloc", "create_default") /\ UNCHANGED <<inited, call, idx>>
        /\ live' = live /\ stranded' = stranded
        /\ default_buf' = default_buf /\ default_id' = default_id
        /\ buffers' = [buffers EXCEPT ![idx[t]] = Null]
    BY <1>3 DEF CreateNoMemory, heap, locals
  <2>2. idx[t] \in Slots /\ buffers[idx[t]] = Null
    BY <2>1 DEF Goto, TypeInv, LocalType, Owns
  <2>3. buffers' = buffers  BY <1>i, <2>1, <2>2
  <2>4. Owned(0)'  BY <1>o, <2>1, <2>3 DEF Owned
  <2>5. QED  BY <1>o, <2>1, <2>3, <2>4, OwnsCreate
<1>4. CASE CreateHangs(t)
  <2>1. /\ Goto(t, "create_alloc", "hung") /\ UNCHANGED <<inited, call, idx>>
        /\ live' = live \cup {Fresh} /\ stranded' = stranded \cup {Fresh}
        /\ Unused # {} /\ default_buf' = default_buf /\ default_id' = default_id
        /\ buffers' = buffers
    BY <1>4 DEF CreateHangs, Strand, table, locals
  <2>2. stranded' \subseteq live' /\ Owned(0)'  BY <1>o, <2>1, OwnedStranded
  <2>3. QED  BY <1>o, <2>1, <2>2, OwnsCreate
<1>5. CASE CreateDefault(t)
  <2>1. /\ Goto(t, "create_default", "unlock_test") /\ UNCHANGED <<inited, call, idx>>
        /\ live' = live /\ stranded' = stranded /\ buffers' = buffers
    BY <1>5 DEF CreateDefault, heap, locals
  <2>2. idx[t] \in Slots  BY <2>1 DEF Goto, TypeInv, LocalType
  <2>3. \/ default_buf' = Null
        \/ default_id' \in Slots /\ buffers'[default_id'] = default_buf'
    BY <1>o, <1>5, <2>1, <2>2 DEF CreateDefault, DefaultIdFor
  <2>4. Owned(0)'  BY <1>o, <2>1 DEF Owned
  <2>5. QED  BY <1>o, <2>1, <2>3, <2>4, OwnsCreate
<1>6. QED  BY <1>1, <1>2, <1>3, <1>4, <1>5 DEF CreateStep

\* A round of the loop of cleanup: one buffer less.
LEMMA FreeKeepsOwns ==
  ASSUME TypeInv, JoinInv, Owns, NEW t \in Threads, CleanupFree(t)
  PROVE  OwnsInv'
<1>1. /\ pc[t] = "cleanup_free" /\ call' = call /\ inited' = inited
      /\ live' = live \ {buffers[idx[t]]} /\ stranded' = stranded
      /\ buffers' = buffers /\ default_buf' = default_buf /\ default_id' = default_id
      /\ pc'[t] = IF idx[t] + 1 < MaxBufs THEN "cleanup_free" ELSE "cleanup_close"
      /\ idx'[t] = IF idx[t] + 1 < MaxBufs THEN idx[t] + 1 ELSE NoSlot
  BY DEF CleanupFree, AfterSlot, NextSlot, Goto, TypeInv, OwnInv, LocalType, table
<1>2. PICK n \in Slots : n = idx[t] /\ Owned(n)
  BY <1>1 DEF Owns, Clearing
<1>3. inited /\ \A u \in Threads : u # t => pc'[u] = "idle"
  <2>1. call[t] = "cleanup" /\ inited
    BY <1>1 DEF JoinInv, RunsIn, Opened, CleanupPlaces
  <2>2. \A u \in Threads : u # t => pc[u] = "idle" /\ pc'[u] = pc[u]
    BY <2>1 DEF JoinInv, CleanupFree, Goto, TypeInv, OwnInv
  <2>3. QED  BY <2>1, <2>2
<1>4. \A i, j \in Slots : buffers[i] = buffers[j] => i = j \/ buffers[i] = Null
  BY DEF Owns
<1>5. Owned(n + 1)'
  <2>1. ASSUME NEW b \in Buffers
        PROVE  b \in live' \ stranded' <=> \E i \in Slots : n + 1 <= i /\ buffers[i] = b
    <3>1. n \in Int /\ \A i \in Slots : i \in Int  BY <1>2 DEF Slots
    <3>2. \A i \in Slots : n + 1 <= i <=> n <= i /\ i # n  BY <3>1
    <3>3. b \in live' \ stranded' <=> b \in live \ stranded /\ b # buffers[n]
      BY <1>1, <1>2
    <3>4. b \in live \ stranded <=> \E i \in Slots : n <= i /\ buffers[i] = b
      BY <1>2 DEF Owned
    <3>5. b # Null  BY LibConstants
    <3>6. ASSUME NEW i \in Slots, n <= i, buffers[i] = b, b # buffers[n]
          PROVE  n + 1 <= i
      BY <3>2, <3>6
    <3>7. ASSUME NEW i \in Slots, n + 1 <= i, buffers[i] = b
          PROVE  n <= i /\ b # buffers[n]
      BY <1>2, <1>4, <3>2, <3>5, <3>7
    <3>8. QED  BY <3>3, <3>4, <3>6, <3>7
  <2>2. QED  BY <1>1, <2>1 DEF Owned
<1>6. stranded' \subseteq live'
  <2>1. buffers[n] \in Buffers => buffers[n] \notin stranded
    BY <1>2 DEF Owned, Slots
  <2>2. stranded \subseteq live /\ stranded \subseteq Buffers
    BY DEF Owns, TypeInv, SharedType
  <2>3. QED  BY <1>1, <1>2, <2>1, <2>2
<1>7. CASE n + 1 < MaxBufs
  <2>1. n + 1 \in Slots  BY <1>2, <1>7, LibConstants DEF Slots
  <2>2. pc'[t] = "cleanup_free" /\ idx'[t] = n + 1  BY <1>1, <1>2, <1>7
  <2>3. ASSUME NEW u \in Threads, Clearing(pc'[u], call'[u])
        PROVE  /\ idx'[u] \in Slots
               /\ \A b \in Buffers :
                    b \in live' \ stranded' <=>
                      \E i \in Slots : idx'[u] <= i /\ buffers'[i] = b
    <3>1. u = t  BY <1>3, <2>3 DEF Clearing
    <3>2. QED  BY <1>5, <2>1, <2>2, <3>1 DEF Owned
  <2>4. \A u \in Threads : Clearing(pc[u], call[u])' => (idx[u] \in Slots /\ Owned(idx[u]))'
    BY <2>3 DEF Owned
  <2>5. \A u \in Threads : pc'[u] \notin {"create_alloc", "cleanup_close", "cleanup_clear"}
    BY <1>3, <2>2
  <2>6. ~ \A u \in Threads : ~Freeing(pc'[u])  BY <2>2 DEF Freeing
  <2>7. Owns'  BY <1>1, <1>3, <1>6, <2>4, <2>5, <2>6 DEF Owns
  <2>8. QED  BY <2>7 DEF OwnsInv
<1>8. CASE ~(n + 1 < MaxBufs)
  <2>1. pc'[t] = "cleanup_close"  BY <1>1, <1>2, <1>8
  <2>2. \A i \in Slots : ~(n + 1 <= i)  BY <1>2, <1>8, LibConstants DEF Slots
  <2>3. \A b \in Buffers : b \notin live' \ stranded'  BY <1>5, <2>2 DEF Owned
  <2>4. live' = stranded'
    BY <1>1, <1>6, <2>3 DEF TypeInv, SharedType
  <2>5. \A u \in Threads : pc'[u] # "create_alloc" /\ ~Clearing(pc'[u], call'[u])
    BY <1>3, <2>1 DEF Clearing
  <2>6. ~ \A u \in Threads : ~Freeing(pc'[u])  BY <2>1 DEF Freeing
  <2>7. Owns'  BY <1>1, <1>3, <1>6, <2>4, <2>5, <2>6 DEF Owns
  <2>8. QED  BY <2>7 DEF OwnsInv
<1>9. QED  BY <1>7, <1>8

LEMMA CleanupKeepsOwns ==
  ASSUME TypeInv, JoinInv, Owns, NEW t \in Threads, CleanupClose(t) \/ CleanupClear(t)
  PROVE  OwnsInv'
<1>1. /\ pc[t] \in {"cleanup_close", "cleanup_clear"} /\ call' = call
      /\ live' = live /\ stranded' = stranded
  BY DEF CleanupClose, CleanupClear, Goto, heap, locals
<1>2. live = stranded  BY <1>1 DEF Owns
<1>3. call[t] = "cleanup"  BY <1>1 DEF JoinInv, RunsIn, CleanupPlaces
<1>4. CASE CleanupClose(t)
  <2>1. /\ pc'[t] = "cleanup_clear"
        /\ buffers' = buffers /\ default_buf' = default_buf /\ default_id' = default_id
    BY <1>4 DEF CleanupClose, Goto, TypeInv, OwnInv, table
  <2>2. \A u \in Threads : u # t => pc'[u] = "idle"
    BY <1>3, <1>4 DEF CleanupClose, Goto, TypeInv, OwnInv, JoinInv
  <2>3. \A u \in Threads : pc'[u] # "create_alloc" /\ ~Clearing(pc'[u], call'[u])
    BY <2>1, <2>2 DEF Clearing
  <2>4. ~ \A u \in Threads : ~Freeing(pc'[u])  BY <2>1 DEF Freeing
  <2>5. Owns'  BY <1>1, <1>2, <2>1, <2>3, <2>4 DEF Owns
  <2>6. QED  BY <2>5 DEF OwnsInv
<1>5. CASE CleanupClear(t)
  <2>1. /\ Goto(t, "cleanup_clear", "cleanup_unlock")
        /\ default_buf' = Null /\ default_id' = NoSlot
        /\ \A i \in Slots : buffers'[i] = Null
    BY <1>5 DEF CleanupClear, NoDefault
  <2>2. Owned(0)'  BY <1>1, <1>2, <2>1, LibConstants DEF Owned
  <2>3. Emptied'  BY <2>1 DEF Emptied
  <2>4. ~Freeing("cleanup_unlock") /\ ~Clearing("cleanup_unlock", call[t])
    BY DEF Freeing, Clearing
  <2>5. QED  BY <1>1, <1>2, <1>3, <2>1, <2>2, <2>3, <2>4, OwnsAlone
<1>6. QED  BY <1>4, <1>5

\* Nobody un-releases a lock.
LEMMA IntrudedStays ==
  ASSUME [Next]_vars, intruded
  PROVE  intruded'
<1> USE DEF shared, spin
<1>1. ASSUME NEW t \in Threads, NEW c, NEW i, Start(t, c, i) PROVE intruded'
  BY <1>1 DEF Start
<1>2. ASSUME NEW t \in Threads, LockStep(t) PROVE intruded'
  BY <1>2 DEF LockStep, LockTest, LockRefused, LockSpin, LockMark, UnlockTest,
     UnlockRefused, UnlockSpin, SpinUnlock, UnlockMark, Skip
<1>3. ASSUME NEW t \in Threads, ToggleTest(t) \/ Disable(t) \/ Enable(t)
      PROVE  intruded'
  BY <1>3 DEF ToggleTest, Disable, Enable, SwitchTest, SwitchChange, Skip
<1>4. ASSUME NEW t \in Threads, InitStep(t) PROVE intruded'
  BY <1>4 DEF InitStep, InitTest, InitLock, SpinUnlock, InitDefault, InitNoDefault,
     InitStrands, Strand, InitDone, Skip
<1>5. ASSUME NEW t \in Threads, CreateStep(t) PROVE intruded'
  BY <1>5 DEF CreateStep, CreateFind, CreateAlloc, CreateNoMemory, CreateHangs,
     Strand, CreateDefault
<1>6. ASSUME NEW t \in Threads, TableStep(t) PROVE intruded'
  BY <1>6 DEF TableStep, ResetTest, DumpTest, Visit, CleanupFree, CleanupClose,
     CleanupClear, CleanupUnlock, SpinUnlock, CleanupDestroy, Skip
<1>7. ASSUME NEW t \in Threads, LogStep(t) \/ Return(t) PROVE intruded'
  BY <1>7 DEF LogStep, LogTest, LogLoad, LogClaim, LogFill, Return, Skip
<1>8. CASE UNCHANGED vars  BY <1>8 DEF vars
<1>9. QED
  BY <1>1, <1>2, <1>3, <1>4, <1>5, <1>6, <1>7, <1>8 DEF Next, Step

LEMMA StepKeepsOwns ==
  ASSUME TypeInv, JoinInv, Owns, ~intruded, NEW t \in Threads, Step(t)
  PROVE  OwnsInv'
<1> USE DEF Freeing, Clearing, Filling, Opening, shared, locals
<1>i. idx \in [Threads -> Slots \cup {NoSlot}]  BY DEF TypeInv, LocalType
<1>t. RunsIn(pc[t], call[t])  BY JoinThread
<1>1. CASE LockStep(t)
  <2>1. CASE LockTest(t)       BY <2>1, OwnsWalk DEF LockTest, Skip
  <2>2. CASE LockRefused(t)    BY <1>i, <2>2, OwnsWalk DEF LockRefused
  <2>3. CASE LockSpin(t)       BY <2>3, OwnsWalk DEF LockSpin
  <2>4. CASE LockMark(t)
    <3>1. idx'[t] = 0 /\ \A u \in Threads : u # t => idx'[u] = idx[u]
      BY <1>i, <2>4 DEF LockMark
    <3>2. QED  BY <2>4, <3>1, OwnsWalk DEF LockMark, Locked
  <2>5. CASE UnlockTest(t)     BY <2>5, OwnsWalk DEF UnlockTest, Skip
  <2>6. CASE UnlockRefused(t)  BY <1>i, <2>6, OwnsWalk DEF UnlockRefused
  <2>7. CASE UnlockSpin(t)     BY <2>7, OwnsWalk DEF UnlockSpin
  <2>8. CASE UnlockMark(t)     BY <2>8, OwnsWalk DEF UnlockMark
  <2>9. QED
    BY <1>1, <2>1, <2>2, <2>3, <2>4, <2>5, <2>6, <2>7, <2>8 DEF LockStep
<1>2. CASE ToggleTest(t)
  BY <1>t, <1>2, OwnsWalk DEF ToggleTest, Skip, RunsIn, Goto
<1>3. CASE Disable(t)
  <2>1. CASE SwitchTest(t, "disable_test", "disable_sub")
    BY <2>1, OwnsWalk DEF SwitchTest
  <2>2. CASE Skip(t, "disable_test", Switched(call[t]))
    BY <2>2, OwnsWalk DEF Skip, Switched
  <2>3. CASE SwitchChange(t, "disable_sub", -1)
    BY <2>3, OwnsWalk DEF SwitchChange, Switched
  <2>4. QED  BY <1>3, <2>1, <2>2, <2>3 DEF Disable
<1>4. CASE Enable(t)
  <2>0. pc[t] \in {"enable_test", "enable_add"} => call[t] # "cleanup"
    BY <1>t DEF RunsIn
  <2>1. CASE SwitchTest(t, "enable_test", "enable_add")
    BY <2>1, OwnsWalk DEF SwitchTest
  <2>2. CASE Skip(t, "enable_test", Switched(call[t]))
    BY <2>0, <2>2, OwnsWalk DEF Skip, Switched, Goto
  <2>3. CASE SwitchChange(t, "enable_add", 1)
    BY <2>0, <2>3, OwnsWalk DEF SwitchChange, Switched, Goto
  <2>4. QED  BY <1>4, <2>1, <2>2, <2>3 DEF Enable
<1>5. CASE TableStep(t)
  <2>1. CASE ResetTest(t)      BY <2>1, OwnsWalk DEF ResetTest, Skip
  <2>2. CASE DumpTest(t)       BY <2>2, OwnsWalk DEF DumpTest, Skip
  <2>3. CASE Visit(t)
    <3>1. \A u \in Threads : u # t => idx'[u] = idx[u]
      BY <1>i, <2>3 DEF Visit, NextSlot
    <3>2. QED  BY <2>3, <3>1, OwnsWalk DEF Visit, AfterSlot
  <2>4. CASE CleanupUnlock(t)  BY <2>4, OwnsWalk DEF CleanupUnlock
  <2>5. CASE CleanupDestroy(t) BY <2>5, OwnsWalk DEF CleanupDestroy
  <2>6. QED
    BY <1>5, <2>1, <2>2, <2>3, <2>4, <2>5, FreeKeepsOwns, CleanupKeepsOwns DEF TableStep
<1>6. CASE LogStep(t)
  <2>1. CASE LogTest(t)        BY <2>1, OwnsWalk DEF LogTest, Skip
  <2>2. CASE LogLoad(t)        BY <2>2, OwnsWalk DEF LogLoad
  <2>3. CASE LogClaim(t)       BY <2>3, OwnsWalk DEF LogClaim, Skip
  <2>4. CASE LogFill(t)        BY <2>4, OwnsWalk DEF LogFill, Skip
  <2>5. QED  BY <1>6, <2>1, <2>2, <2>3, <2>4 DEF LogStep
<1>7. CASE Return(t)
  <2>1. \A u \in Threads : u # t => idx'[u] = idx[u]
    BY <1>i, <1>7 DEF Return
  <2>2. /\ Goto(t, "return", "idle") /\ UNCHANGED <<table, heap>>
        /\ call' = [call EXCEPT ![t] = "none"] /\ inited' = inited
    BY <1>7 DEF Return
  <2>3. ~Freeing("return") /\ ~Clearing("idle", "none") /\ ~Filling("return", call[t])
    OBVIOUS
  <2> HIDE DEF Freeing, Clearing, Filling
  <2>4. QED  BY <2>1, <2>2, <2>3, OwnsStep
<1>8. QED
  BY <1>1, <1>2, <1>3, <1>4, <1>5, <1>6, <1>7, InitKeepsOwns, CreateKeepsOwns
  DEF Step

LEMMA StartKeepsOwns ==
  ASSUME TypeInv, JoinInv, Owns, NEW t \in Threads, NEW c \in Calls[t], NEW i,
         Start(t, c, i)
  PROVE  OwnsInv'
<1>1. c \in CallNames  BY LibConstants
<1>2. /\ FirstPC[c] \notin {"create_alloc", "cleanup_close", "cleanup_clear"}
      /\ ~Freeing("idle") /\ ~Clearing(FirstPC[c], c) /\ ~Filling("idle", call[t])
  BY <1>1 DEF CallNames, FirstPC, Freeing, Clearing, Filling, Opening
<1>3. \A u \in Threads : u # t => idx'[u] = idx[u]
  BY DEF Start, TypeInv, LocalType
<1>4. QED  BY <1>2, <1>3, OwnsStep DEF Start, shared

-----------------------------------------------------------------------------
\* The parts together.
LibInv == TypeInv /\ JoinInv /\ WordInv /\ LiveInv /\ OwnsInv

LEMMA InitLib == Init => LibInv
<1> SUFFICES ASSUME Init PROVE LibInv  OBVIOUS
<1>1. TypeInv  BY InitTypes
<1>2. JoinInv
  BY DEF Init, JoinInv, RunsIn, Opened, Closed, Opening, CreatePlaces, CleanupPlaces,
     LogPlaces
<1>3. WordInv  BY LibConstants DEF Init, WordInv
<1>4. LiveInv  BY DEF Init, LiveInv
<1>5. OwnsInv
  <2>1. Owned(0)  BY LibConstants DEF Init, Owned
  <2>2. Emptied  BY DEF Init, Emptied
  <2>3. QED  BY <2>1, <2>2 DEF Init, OwnsInv, Owns, Emptied, Clearing
<1>6. QED  BY <1>1, <1>2, <1>3, <1>4, <1>5 DEF LibInv

LEMMA NextKeepsLib == Joined /\ LibInv /\ [Next]_vars => LibInv'
<1> SUFFICES ASSUME Joined, LibInv, [Next]_vars PROVE LibInv'  OBVIOUS
<1>0. TypeInv /\ OwnInv /\ JoinInv /\ WordInv /\ LiveInv /\ OwnsInv
  BY DEF LibInv, TypeInv
<1>1. TypeInv'  BY <1>0, NextKeepsTypes
<1>2. ASSUME NEW t \in Threads, Step(t)
      PROVE  JoinInv' /\ WordInv' /\ LiveInv'
  BY <1>0, <1>2, StepKeepsJoin, StepKeepsWord, StepKeepsLive
<1>3. ASSUME NEW t \in Threads, NEW c \in Calls[t], NEW i, Start(t, c, i)
      PROVE  JoinInv' /\ WordInv' /\ LiveInv'
  BY <1>0, <1>3, StartKeepsJoin, StartKeepsWord, StartKeepsLive
<1>4. CASE UNCHANGED vars
  <2>1. JoinInv'  BY <1>0, <1>4 DEF vars, shared, locals, JoinInv
  <2>2. WordInv'  BY <1>0, <1>4 DEF vars, shared, spin, word, locals, WordInv
  <2>3. LiveInv'  BY <1>0, <1>4 DEF vars, shared, table, heap, locals, LiveInv
  <2>4. OwnsInv'
    <3>1. Owned(0)' <=> Owned(0)  BY <1>4 DEF vars, shared, table, heap, Owned
    <3>2. \A t \in Threads : Owned(idx[t])' <=> Owned(idx[t])
      BY <1>4 DEF vars, shared, table, heap, locals, Owned
    <3>3. QED
      BY <1>0, <1>4, <3>1, <3>2 DEF vars, shared, table, spin, heap, locals, OwnsInv,
         Owns, Emptied
  <2>5. QED  BY <1>1, <2>1, <2>2, <2>3, <2>4 DEF LibInv
<1>5. CASE Next
  <2>1. JoinInv' /\ WordInv' /\ LiveInv'  BY <1>2, <1>3, <1>5 DEF Next
  <2>2. OwnsInv'
    <3>1. CASE intruded  BY <3>1, IntrudedStays DEF OwnsInv
    <3>2. CASE ~intruded
      <4>1. Owns  BY <1>0, <3>2 DEF OwnsInv
      <4>2. QED  BY <1>0, <1>5, <3>2, <4>1, StepKeepsOwns, StartKeepsOwns DEF Next
    <3>3. QED  BY <3>1, <3>2
  <2>3. QED  BY <1>1, <2>1, <2>2 DEF LibInv
<1>6. QED  BY <1>4, <1>5

\* If init and cleanup run on their own, a log call never works on a buffer
\* that was freed: whatever the locks do, only cleanup frees buffers.
THEOREM LogsTouchLive == ASSUME Joined PROVE Spec => []LogTouchesLive
<1>1. LibInv => LogTouchesLive  BY DEF LibInv, LiveInv, LogTouchesLive
<1>2. QED  BY InitLib, NextKeepsLib, <1>1, PTL DEF Spec

\* If init and cleanup run on their own, the global lock stays taken only where
\* the thread that took it has yet to unlock, unless its state word was
\* overwritten: then qlog_unlock_global refuses and the lock is lost.
THEOREM LockNotOrphaned == ASSUME Joined PROVE Spec => []NoOrphanGlobalLock
<1>1. LibInv => NoOrphanGlobalLock
  <2> SUFFICES ASSUME LibInv, glock, ~overwritten
               PROVE  pc[owner] \in
                        {"lock_mark", "hung", "create_find", "create_alloc",
                         "create_default", "visit", "unlock_test", "unlock_spin",
                         "disable_test", "disable_sub", "cleanup_free",
                         "cleanup_close", "cleanup_clear", "cleanup_unlock"}
    BY DEF NoOrphanGlobalLock
  <2>1. owner \in Threads
    BY DEF LibInv, TypeInv, OwnInv, SharedType
  <2>2. MayOwn(pc[owner], call[owner])  BY <2>1 DEF LibInv, WordInv
  <2>3. QED  BY <2>2 DEF MayOwn, CreatePlaces
<1>2. QED  BY InitLib, NextKeepsLib, <1>1, PTL DEF Spec

\* Outside init and cleanup nobody is at a place of theirs.
LEMMA Unchanging ==
  ASSUME LibInv, ~Changing, NEW t \in Threads
  PROVE  /\ ~Freeing(pc[t]) /\ ~Filling(pc[t], call[t]) /\ ~Unlocking(pc[t])
         /\ ~Destroying(pc[t]) /\ ~Opening(pc[t], call[t])
<1>1. RunsIn(pc[t], call[t]) /\ call[t] \notin {"init", "cleanup"}
  BY JoinThread DEF LibInv, Changing
<1>2. QED
  BY <1>1 DEF RunsIn, Freeing, Filling, Unlocking, Destroying, Opening, CleanupPlaces

\* If init and cleanup run on their own and no call released the lock of
\* another, then outside of them the table holds every buffer that no failed
\* allocation has left behind, each once, and nothing that was freed.
THEOREM TableOwnsBuffers == ASSUME Joined PROVE Spec => []TableOwns
<1>1. LibInv => TableOwns
  <2> SUFFICES ASSUME LibInv, ~intruded, ~Changing
               PROVE  /\ live \ stranded = {buffers[i] : i \in Slots} \ {Null}
                      /\ \A i, j \in Slots :
                           buffers[i] = buffers[j] => i = j \/ buffers[i] = Null
    BY DEF TableOwns
  <2>1. Owns  BY DEF LibInv, OwnsInv
  <2>2. Owned(0)  BY <2>1, Unchanging DEF Owns
  <2>3. \A i \in Slots : 0 <= i  BY DEF Slots
  <2>4. live \subseteq Buffers /\ buffers \in [Slots -> Buffers \cup {Null}]
    BY DEF LibInv, TypeInv, SharedType
  <2>5. live \ stranded \subseteq {buffers[i] : i \in Slots} \ {Null}
    BY <2>2, <2>4, LibConstants DEF Owned
  <2>6. {buffers[i] : i \in Slots} \ {Null} \subseteq live \ stranded
    BY <2>2, <2>3, <2>4 DEF Owned
  <2>7. QED  BY <2>1, <2>5, <2>6 DEF Owns
<1>2. QED  BY InitLib, NextKeepsLib, <1>1, PTL DEF Spec

\* Under the same conditions the default buffer, where there is one, is the one
\* that its id names in the table.
THEOREM DefaultIdAgrees == ASSUME Joined PROVE Spec => []DefaultAgrees
<1>1. LibInv => DefaultAgrees  BY DEF LibInv, OwnsInv, Owns, DefaultAgrees
<1>2. QED  BY InitLib, NextKeepsLib, <1>1, PTL DEF Spec

\* Under the same conditions a library that is not initialised has nothing but
\* what failed allocations have left behind: no buffer, no default, its lock
\* free and its state word as before the first init.
THEOREM CleanupLeavesNothing == ASSUME Joined PROVE Spec => []CleanupClears
<1>1. LibInv => CleanupClears
  <2> SUFFICES ASSUME LibInv, ~inited, ~Changing, ~intruded
               PROVE  /\ live = stranded
                      /\ default_buf = Null /\ default_id = NoSlot
                      /\ ~glock /\ gstate = "UNINITED"
    BY DEF CleanupClears
  <2>1. Owns /\ WordInv  BY DEF LibInv, OwnsInv
  <2>2. \A t \in Threads : pc[t] # "cleanup_clear"  BY Unchanging DEF Freeing
  <2>3. Emptied  BY <2>1, <2>2, Unchanging DEF Owns
  <2>4. Owned(0) /\ stranded \subseteq live  BY <2>1, Unchanging DEF Owns
  <2>5. \A b \in Buffers : b \notin live \ stranded
    BY <2>3, <2>4, LibConstants DEF Owned, Emptied
  <2>6. live = stranded  BY <2>4, <2>5 DEF LibInv, TypeInv, SharedType
  <2>7. ~glock /\ gstate = "UNINITED"  BY <2>1, Unchanging DEF WordInv
  <2>8. QED  BY <2>3, <2>6, <2>7 DEF Emptied
<1>2. QED  BY InitLib, NextKeepsLib, <1>1, PTL DEF Spec

=============================================================================
