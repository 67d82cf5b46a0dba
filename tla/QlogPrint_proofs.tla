--------------------------- MODULE QlogPrint_proofs ----------------------------
(***************************************************************************)
(* Theorems about what a print of a QlogBuffer shows when no log call was  *)
(* in flight as it took the buffer's lock: the newest messages since the   *)
(* last reset, whole and in order, and only blocks that are allocated.     *)
(***************************************************************************)
EXTENDS QlogEvents_proofs

(***************************************************************************)
(* The walk.  A quiet print is alone: the calls that could change an event *)
(* are over, and a new one needs the buffer's lock to claim an event.      *)
(***************************************************************************)
\* The event n places after the beginning of t's walk.
At(t, n) == IF start[t] + n < Size THEN start[t] + n ELSE start[t] + n - Size

\* The first n events of t's walk have been shown as they are.
Walked(t, n) ==
  \A i \in 1 .. n : LET e == events[At(t, i - 1)] IN
    /\ all[t] \/ e.used
    /\ shown[t][i] = <<e.stamp, e.message>>

\* Where t's walk has got to.
Progress(t) ==
  LET n == Len(shown[t])
      e == events[event[t]]
  IN  \/ /\ pc[t] = "print_event"
         /\ n < Size /\ event[t] = At(t, n) /\ Walked(t, n)
      \/ /\ pc[t] = "print_message"
         /\ n \in 1 .. Size /\ event[t] = At(t, n - 1) /\ Walked(t, n - 1)
         /\ all[t] \/ e.used
         /\ shown[t][n][1] = e.stamp
      \/ /\ pc[t] = "print_ext"
         /\ n \in 1 .. Size /\ event[t] = At(t, n - 1) /\ Walked(t, n)
         /\ ptr[t] = e.ext_data /\ ptr[t] # Null
      \/ /\ pc[t] = "print_unlock"
         /\ n <= Size /\ Walked(t, n)
         /\ n = Size \/ (~all[t] /\ ~events[At(t, n)].used)

\* A quiet print has the buffer to itself from its beginning to its end.
WalkInv ==
  \A t \in Threads :
    /\ pc[t] \notin PrintPCs => shown[t] = <<>> /\ ~quiet[t]
    /\ quiet[t] => /\ \A u \in Threads : ~InFlight(u)
                   /\ start[t] = PrintStart(all[t])
                   /\ Progress(t)

\* k is the newest message that belongs in event s, Null if there is none,
\* when the claims o + 1 to n were made since the last reset.
Belongs(k, s, o, n) == k \in o + 1 .. n /\ (k - o - 1) % Size = s
Newest(k, s, o, n) ==
  /\ k # Null => Belongs(k, s, o, n)
  /\ \A j \in o + 1 .. n : Belongs(j, s, o, n) => k # Null /\ j <= k

\* The newest message of an event is in it or in the making; a reset leaves
\* empty events behind.
ContentInv ==
  /\ \A t \in Threads : InFlight(t) => Newest(ticket[t], event[t], origin, tickets)
  /\ \A s \in Slots :
       \/ \E t \in Threads : (InFlight(t) /\ event[t] = s) \/ pc[t] \in ResetPCs
       \/ Newest(events[s].message, s, origin, tickets)
  /\ \A t \in Threads, s \in Slots :
       pc[t] \in ResetPCs /\ (s < event[t] \/ pc[t] = "reset_done") => ~events[s].used
  /\ \A t \in Threads : pc[t] \in {"idle", "reset_done"} => event[t] = head

LEMMA QuietAlone ==
  ASSUME TypeInv, WalkInv, [Next]_vars, NEW t \in Threads, quiet[t]
  PROVE  PrintStep(t) \/ UNCHANGED vars
<1> USE DEF TypeInv, LockInv
<1>1. pc[t] \in PrintPCs /\ \A u \in Threads : ~InFlight(u)  BY DEF WalkInv
<1>2. buffer_lock  BY <1>1 DEF BufferLockExclusive, HoldPCs
<1>3. ASSUME NEW u \in Threads, u # t PROVE pc[u] = "idle"
  BY <1>1, <1>3 DEF BufferLockExclusive, HoldPCs, InFlight, FlightPCs, FillPCs,
     PCs, LogPCs, PrintPCs, ResetPCs
<1>4. ASSUME NEW u \in Threads, CallStep(u) PROVE PrintStep(t)
  <2>1. pc[u] # "idle"
    BY <1>4 DEF CallStep, LogStep, PrintStep, ResetStep, LogRead, LogAdvance, LogDrop,
       LogTakeEvent, LogStamp, LogText, LogMessage, LogExtCheck, LogExtFree, LogExtClear,
       LogExtStore, LogExtPublish, LogUsed, LogUnlock, PrintStop, PrintEvent,
       PrintMessage, PrintExt, PrintUnlock, ResetFields, ResetUsed, ResetFree,
       ResetExt, ResetDone, Goto, PrintNext
  <2>2. u = t  BY <1>3, <2>1
  <2>3. ~LogStep(t)
    BY <1>1 DEF LogStep, LogRead, LogAdvance, LogDrop,
       LogTakeEvent, LogStamp, LogText, LogMessage, LogExtCheck, LogExtFree, LogExtClear,
       LogExtStore, LogExtPublish, LogUsed, LogUnlock, Goto, PrintPCs
  <2>4. ~ResetStep(t)
    BY <1>1 DEF ResetStep, ResetFields, ResetUsed, ResetFree, ResetExt, ResetDone,
       Goto, PrintPCs
  <2>5. QED  BY <1>4, <2>2, <2>3, <2>4 DEF CallStep
<1>5. QED  BY <1>2, <1>4 DEF Next, LogLock, PrintLock, ResetLock, SpinLock

\* The places of a walk are the ring's, one after the other.
LEMMA WalkOn ==
  ASSUME TypeOK, NEW t \in Threads, NEW n \in 0 .. Size - 1
  PROVE  /\ At(t, n) \in Slots
         /\ n + 1 < Size => Succ(At(t, n)) = At(t, n + 1) /\ At(t, n + 1) # start[t]
         /\ n + 1 = Size => Succ(At(t, n)) = start[t]
<1>1. start[t] \in 0 .. Size - 1 /\ Size \in Nat \ {0}
  BY BufferConstants DEF TypeOK, Slots
<1>2. QED  BY <1>1 DEF At, Succ, Slots, head

\* The part of a walk that is shown stays shown while nothing it is made of
\* changes.
LEMMA WalkedFrame ==
  ASSUME NEW t \in Threads, NEW n \in Nat, Walked(t, n), UNCHANGED events,
         start'[t] = start[t], all'[t] = all[t],
         \A i \in 1 .. n : shown'[t][i] = shown[t][i]
  PROVE  Walked(t, n)'
BY DEF Walked, At

\* The start and the kind of a walk are settled when it begins.
LEMMA PrintFrame ==
  ASSUME TypeInv, NEW t \in Threads, PrintStep(t), pc'[t] # "idle"
  PROVE  /\ UNCHANGED <<events, bufferVars>>
         /\ start'[t] = start[t] /\ all'[t] = all[t]
<1>1. ~PrintUnlock(t)  BY DEF PrintUnlock, Goto, TypeInv, LockInv
<1>2. QED
  BY <1>1 DEF PrintStep, PrintStop, PrintEvent, PrintMessage, PrintExt, PrintNext,
     printVars, bufferVars

\* The step to the next event ends the walk where it began.
LEMMA NextPlace ==
  ASSUME TypeInv, NEW t \in Threads, NEW from, PrintNext(t, from),
         NEW n \in 1 .. Size, Len(shown'[t]) = n, event[t] = At(t, n - 1),
         Walked(t, n)', start'[t] = start[t]
  PROVE  Progress(t)'
<1>1. /\ n - 1 \in 0 .. Size - 1 /\ (n - 1) + 1 = n /\ n \in Nat /\ n <= Size
      /\ TypeOK
  BY BufferConstants DEF TypeInv
<1>2. /\ n < Size => Succ(event[t]) = At(t, n) /\ At(t, n) # start[t]
      /\ n = Size => Succ(event[t]) = start[t]
  BY <1>1, WalkOn
<1>3. /\ event'[t] = Succ(event[t])
      /\ pc'[t] = IF Succ(event[t]) = start[t] THEN "print_unlock" ELSE "print_event"
  BY DEF PrintNext, Goto, TypeInv, LockInv, TypeOK
<1>4. At(t, n)' = At(t, n)  BY DEF At
<1>5. CASE n < Size  BY <1>1, <1>2, <1>3, <1>4, <1>5 DEF Progress
<1>6. CASE n = Size  BY <1>1, <1>2, <1>3, <1>6 DEF Progress
<1>7. QED  BY <1>1, <1>5, <1>6, BufferConstants

LEMMA ProgressStep ==
  ASSUME TypeInv, NEW t \in Threads, Progress(t), PrintStep(t), pc'[t] # "idle"
  PROVE  Progress(t)'
<1> DEFINE e == events[event[t]]
<1>n. PICK n \in Nat : n = Len(shown[t])  BY DEF TypeInv, TypeOK
<1>1. /\ UNCHANGED events /\ start'[t] = start[t] /\ all'[t] = all[t]
  BY PrintFrame
<1>2. /\ shown[t] \in Seq(TicketOrNull \X TicketOrNull) /\ n = Len(shown[t])
      /\ DOMAIN shown = Threads /\ DOMAIN event = Threads /\ Size \in Nat
  BY <1>n, BufferConstants DEF TypeInv, TypeOK
<1>a. \A m \in Nat : At(t, m)' = At(t, m)  BY <1>1 DEF At
<1>3. CASE PrintStop(t)
  <2>1. /\ n < Size /\ event[t] = At(t, n) /\ Walked(t, n) /\ ~all[t] /\ ~e.used
        /\ pc'[t] = "print_unlock" /\ shown'[t] = shown[t]
    BY <1>2, <1>3 DEF PrintStop, Progress, Goto, printVars, TypeInv, LockInv
  <2>2. Walked(t, n)'  BY <1>1, <1>2, <2>1, WalkedFrame
  <2>3. QED  BY <1>1, <1>2, <1>a, <2>1, <2>2 DEF Progress
<1>4. CASE PrintEvent(t)
  <2>1. /\ n < Size /\ event[t] = At(t, n) /\ Walked(t, n) /\ (all[t] \/ e.used)
        /\ pc'[t] = "print_message" /\ event' = event
        /\ shown'[t] = Append(shown[t], <<e.stamp, Null>>)
    BY <1>2, <1>4 DEF PrintEvent, Progress, Goto, TypeInv, LockInv
  <2>2. /\ Len(shown'[t]) = n + 1 /\ shown'[t][n + 1] = <<e.stamp, Null>>
        /\ \A i \in 1 .. n : shown'[t][i] = shown[t][i]
    BY <1>2, <2>1
  <2>3. Walked(t, n)'
    <3>1. \A i \in 1 .. n : shown'[t][i] = shown[t][i]  BY <2>2
    <3>2. n \in Nat /\ Walked(t, n)  BY <1>2, <2>1
    <3>3. QED  BY <1>1, <3>1, <3>2, WalkedFrame
  <2>4. (n + 1) - 1 = n /\ n + 1 \in 1 .. Size  BY <1>2, <2>1
  <2>5. QED
    <3>1. /\ event'[t] = At(t, n)' /\ events'[event'[t]] = e /\ pc'[t] = "print_message"
          /\ all'[t] \/ e.used
      BY <1>1, <1>2, <1>a, <2>1
    <3>2. shown'[t][n + 1][1] = e.stamp  BY <2>2
    <3>3. QED  BY <2>2, <2>3, <2>4, <3>1, <3>2 DEF Progress
<1>5. CASE PrintMessage(t)
  <2>1. /\ n \in 1 .. Size /\ event[t] = At(t, n - 1) /\ Walked(t, n - 1)
        /\ all[t] \/ e.used
        /\ shown[t][n][1] = e.stamp
    BY <1>2, <1>5 DEF PrintMessage, Progress
  <2>2. /\ shown'[t] = [shown[t] EXCEPT ![n] = [shown[t][n] EXCEPT ![2] = e.message]]
        /\ shown[t][n] \in TicketOrNull \X TicketOrNull
    BY <1>2, <1>5, <2>1 DEF PrintMessage
  <2>3. [shown[t][n] EXCEPT ![2] = e.message] = <<e.stamp, e.message>>
    BY <2>1, <2>2
  <2>4. /\ Len(shown'[t]) = n /\ shown'[t][n] = <<e.stamp, e.message>>
        /\ \A i \in 1 .. n - 1 : shown'[t][i] = shown[t][i]
    BY <1>2, <2>1, <2>2, <2>3
  <2>5. Walked(t, n - 1)'  BY <1>1, <2>1, <2>4, WalkedFrame
  <2>6. Walked(t, n)'
    <3>1. At(t, n - 1)' = event[t]  BY <1>a, <2>1
    <3>2. \A i \in 1 .. n : i \in 1 .. n - 1 \/ i = n  BY <2>1
    <3>3. \A i \in 1 .. n - 1 : LET f == events'[At(t, i - 1)'] IN
            (all'[t] \/ f.used) /\ shown'[t][i] = <<f.stamp, f.message>>
      BY <2>5 DEF Walked
    <3>4. LET f == events'[At(t, n - 1)'] IN
            (all'[t] \/ f.used) /\ shown'[t][n] = <<f.stamp, f.message>>
      BY <1>1, <2>1, <2>4, <3>1
    <3>5. QED  BY <3>2, <3>3, <3>4 DEF Walked
  <2>7. CASE e.ext_type /\ e.ext_data # Null
    <3>1. pc'[t] = "print_ext" /\ ptr'[t] = e.ext_data /\ event' = event
      BY <1>5, <2>7 DEF PrintMessage, Goto, TypeInv, LockInv, TypeOK
    <3>2. QED  BY <1>1, <1>a, <2>1, <2>4, <2>6, <2>7, <3>1 DEF Progress
  <2>8. CASE ~(e.ext_type /\ e.ext_data # Null)
    <3>1. PrintNext(t, "print_message")  BY <1>5, <2>8 DEF PrintMessage
    <3>2. QED  BY <1>1, <2>1, <2>4, <2>6, <3>1, NextPlace
  <2>9. QED  BY <2>7, <2>8
<1>6. CASE PrintExt(t)
  <2>1. /\ n \in 1 .. Size /\ event[t] = At(t, n - 1) /\ Walked(t, n)
        /\ shown' = shown /\ Len(shown'[t]) = n /\ PrintNext(t, "print_ext")
    BY <1>2, <1>6 DEF PrintExt, PrintNext, Goto, Progress, printVars
  <2>2. Walked(t, n)'  BY <1>1, <1>2, <2>1, WalkedFrame
  <2>3. QED  BY <1>1, <2>1, <2>2, NextPlace
<1>7. ~PrintUnlock(t)  BY DEF PrintUnlock, Goto, TypeInv, LockInv
<1>8. QED  BY <1>3, <1>4, <1>5, <1>6, <1>7 DEF PrintStep

\* The other steps leave every walk alone.
LEMMA NoPrint ==
  ASSUME TypeInv, NEW t \in Threads,
         LogStep(t) \/ ResetStep(t) \/ (\E x \in ExtChoices : LogLock(t, x)) \/ ResetLock(t)
  PROVE  /\ UNCHANGED <<shown, quiet>>
         /\ pc[t] \notin PrintPCs
         /\ \A u \in Threads : u # t => pc'[u] = pc[u]
<1> USE DEF TypeInv, LockInv, Goto, PrintPCs, printVars, history
<1>1. CASE LogStep(t)
  BY <1>1 DEF LogStep, LogRead, LogAdvance, LogDrop, LogTakeEvent, LogStamp, LogText,
     LogMessage, LogExtCheck, LogExtFree, LogExtClear, LogExtStore, LogExtPublish,
     LogUsed, LogUnlock
<1>2. CASE ResetStep(t)
  BY <1>2 DEF ResetStep, ResetFields, ResetUsed, ResetFree, ResetExt, ResetDone
<1>3. CASE \E x \in ExtChoices : LogLock(t, x)  BY <1>3 DEF LogLock
<1>4. CASE ResetLock(t)  BY <1>4 DEF ResetLock
<1>5. QED  BY <1>1, <1>2, <1>3, <1>4

LEMMA PrintLockWalks ==
  ASSUME TypeInv, WalkInv, NEW t \in Threads, NEW a \in DumpChoices, PrintLock(t, a),
         quiet'[t]
  PROVE  /\ \A u \in Threads : ~InFlight(u)'
         /\ (start[t] = PrintStart(all[t]))'
         /\ Progress(t)'
<1>1. /\ pc[t] = "idle" /\ pc'[t] = "print_event" /\ shown'[t] = <<>>
      /\ \A u \in Threads : u # t => pc'[u] = pc[u]
  BY DEF PrintLock, Goto, WalkInv, PrintPCs, TypeInv, LockInv
<1>2. /\ start'[t] = PrintStart(a) /\ event'[t] = PrintStart(a) /\ all'[t] = a
      /\ PrintStart(a)' = PrintStart(a)
  BY DEF PrintLock, TypeInv, TypeOK, PrintStart, bufferVars
<1>3. \A u \in Threads : ~InFlight(u)'
  <2>1. \A u \in Threads : ~InFlight(u)  BY DEF PrintLock, TypeInv, TypeOK
  <2>2. QED  BY <1>1, <2>1 DEF InFlight, FlightPCs, FillPCs, LogPCs
<1>4. PrintStart(a) \in Slots  BY RingClosed DEF PrintStart, TypeInv, TypeOK
<1>5. At(t, 0)' = PrintStart(a)  BY <1>2, <1>4, BufferConstants DEF At, Slots
<1>6. Walked(t, 0)'  BY DEF Walked
<1>7. Progress(t)'  BY <1>1, <1>2, <1>5, <1>6, BufferConstants DEF Progress
<1>8. QED  BY <1>2, <1>3, <1>7

LEMMA WalkStep == TypeInv /\ WalkInv /\ [Next]_vars => WalkInv'
<1> SUFFICES ASSUME TypeInv, WalkInv, [Next]_vars, NEW v \in Threads
             PROVE  /\ pc'[v] \notin PrintPCs => shown'[v] = <<>> /\ ~quiet'[v]
                    /\ quiet'[v] => /\ \A u \in Threads : ~InFlight(u)'
                                   /\ (start[v] = PrintStart(all[v]))'
                                   /\ Progress(v)'
  BY DEF WalkInv
<1>0. /\ pc[v] \notin PrintPCs => shown[v] = <<>> /\ ~quiet[v]
      /\ quiet[v] => /\ \A u \in Threads : ~InFlight(u)
                     /\ start[v] = PrintStart(all[v])
                     /\ Progress(v)
  BY DEF WalkInv
<1>1. CASE UNCHANGED vars
  <2>1. UNCHANGED <<pc, shown, quiet, start, all, event, events, ptr, bufferVars>>
    BY <1>1 DEF vars, printVars, history
  <2>2. \A u \in Threads : InFlight(u)' <=> InFlight(u)  BY <2>1 DEF InFlight
  <2>3. PrintStart(all[v])' = PrintStart(all[v])
    BY <2>1 DEF PrintStart, bufferVars
  <2>4. Progress(v)' <=> Progress(v)  BY <2>1 DEF Progress, At, Walked
  <2>5. QED  BY <1>0, <2>1, <2>2, <2>3, <2>4
<1>2. CASE ~UNCHANGED vars /\ quiet[v]
  <2>1. PrintStep(v)  BY <1>2, QuietAlone
  <2>2. CASE PrintUnlock(v)
    BY <2>2 DEF PrintUnlock, TypeInv, TypeOK
  <2>3. CASE ~PrintUnlock(v)
    <3>1. pc'[v] \in PrintPCs /\ \A u \in Threads : u # v => pc'[u] = pc[u]
      BY <2>1, <2>3 DEF PrintStep, PrintStop, PrintEvent, PrintMessage, PrintExt,
         PrintNext, Goto, PrintPCs, TypeInv, LockInv
    <3>2. pc'[v] # "idle"  BY <3>1 DEF PrintPCs
    <3>3. \A u \in Threads : ~InFlight(u)'
      BY <1>0, <1>2, <3>1 DEF InFlight, FlightPCs, FillPCs, LogPCs, PrintPCs
    <3>4. start'[v] = start[v] /\ all'[v] = all[v] /\ UNCHANGED bufferVars
      BY <2>1, <3>2, PrintFrame
    <3>5. PrintStart(all[v])' = PrintStart(all[v])
      BY <3>4 DEF PrintStart, bufferVars
    <3>6. Progress(v)'  BY <1>0, <1>2, <2>1, <3>2, ProgressStep
    <3>7. QED  BY <1>0, <1>2, <3>1, <3>3, <3>4, <3>5, <3>6
  <2>4. QED  BY <2>2, <2>3
<1>3. CASE ~UNCHANGED vars /\ ~quiet[v]
  <2>1. ASSUME NEW t \in Threads,
               LogStep(t) \/ ResetStep(t) \/ (\E x \in ExtChoices : LogLock(t, x))
               \/ ResetLock(t)
        PROVE  ~quiet'[v] /\ (pc'[v] \notin PrintPCs => shown'[v] = <<>>)
    BY <1>0, <1>3, <2>1, NoPrint
  <2>2. ASSUME NEW t \in Threads, PrintStep(t)
        PROVE  ~quiet'[v] /\ (pc'[v] \notin PrintPCs => shown'[v] = <<>>)
    <3>1. CASE PrintUnlock(t)
      BY <1>0, <1>3, <3>1 DEF PrintUnlock, Goto, TypeInv, TypeOK, LockInv
    <3>2. CASE ~PrintUnlock(t)
      <4>1. quiet' = quiet
        BY <2>2, <3>2 DEF PrintStep, PrintStop, PrintEvent, PrintMessage, PrintExt, history
      <4>2. pc'[t] \in PrintPCs
        BY <2>2, <3>2 DEF PrintStep, PrintStop, PrintEvent, PrintMessage, PrintExt,
           PrintNext, Goto, PrintPCs, TypeInv, LockInv
      <4>3. v # t => pc'[v] = pc[v] /\ shown'[v] = shown[v]
        BY <2>2 DEF PrintStep, PrintStop, PrintEvent, PrintMessage, PrintExt, PrintUnlock,
           PrintNext, Goto, printVars, TypeInv, TypeOK, LockInv
      <4>4. QED  BY <1>0, <1>3, <4>1, <4>2, <4>3
    <3>3. QED  BY <3>1, <3>2
  <2>3. ASSUME NEW t \in Readers, NEW a \in DumpChoices, PrintLock(t, a)
        PROVE  /\ pc'[v] \notin PrintPCs => shown'[v] = <<>> /\ ~quiet'[v]
               /\ quiet'[v] => t = v
    BY <1>0, <1>3, <2>3 DEF PrintLock, Goto, PrintPCs, TypeInv, TypeOK, LockInv, Threads
  <2>4. QED
    BY <1>3, <2>1, <2>2, <2>3, PrintLockWalks DEF Next, CallStep, Threads
<1>4. QED  BY <1>1, <1>2, <1>3

LEMMA InitWalk == Init => WalkInv
BY DEF Init, WalkInv

LEMMA WalkAlways == Spec => []WalkInv
<1>1. TypeInv /\ WalkInv /\ [Next]_vars => TypeInv' /\ WalkInv'
  BY TypeInvStep, WalkStep
<1>2. QED  BY InitTypeInv, InitWalk, <1>1, PTL DEF Spec

\* A print that began with no call in flight hands its callback only blocks
\* that are still allocated, however many threads log and print, unless a
\* reset began while a log call was in flight.
THEOREM QuietPrintsReadLive == Spec => []QuietPrintReadsLive
<1>1. TypeInv /\ WalkInv /\ (disturbed \/ EventsInv) => QuietPrintReadsLive
  <2> SUFFICES ASSUME TypeInv, WalkInv, EventsInv, NEW t \in Threads,
                      pc[t] = "print_ext", quiet[t]
               PROVE  ptr[t] \in heap
    BY DEF QuietPrintReadsLive
  <2>1. /\ ptr[t] = events[event[t]].ext_data /\ ptr[t] # Null
        /\ \A u \in Threads : ~InFlight(u)
    BY DEF WalkInv, Progress
  <2>2. \A u \in Threads : pc[u] \notin ResetPCs
    BY DEF TypeInv, LockInv, BufferLockExclusive, HoldPCs, ResetPCs, PrintPCs
  <2>3. \A u \in Threads : ~Works(u, event[t])
    BY <2>1, <2>2 DEF Works, WorkPCs, InFlight, FlightPCs, ResetPCs
  <2>4. event[t] \in Slots  BY DEF TypeInv, TypeOK
  <2>5. Settled(events[event[t]], heap)  BY <2>3, <2>4 DEF EventsInv
  <2>6. QED  BY <2>1, <2>5 DEF Settled, ExtWhole
<1>2. Spec => []TypeInv  BY InitTypeInv, TypeInvStep, PTL DEF Spec
<1>3. QED  BY EventsAlways, WalkAlways, <1>1, <1>2, PTL

-----------------------------------------------------------------------------
(***************************************************************************)
(* The contents.  Unless a call was overtaken or disturbed, every event    *)
(* has its newest message or a call in flight that brings it.              *)
(***************************************************************************)
\* What is known of a history in which every message was kept.
Kept == Calm /\ AccountInv /\ ~overtaken /\ ContentInv

\* Steps that change no event but t's.
LEMMA ContentFrame ==
  ASSUME Kept, NEW t \in Threads, NEW from, NEW to, Goto(t, from, to),
         \A u \in Threads : u # t => event'[u] = event[u] /\ ticket'[u] = ticket[u],
         UNCHANGED <<tickets, origin>>,
         to \in FlightPCs =>
           from \in FlightPCs /\ event'[t] = event[t] /\ ticket'[t] = ticket[t],
         from \in FlightPCs /\ to \notin FlightPCs =>
           events'[event[t]].message = ticket[t],
         \A s \in Slots : s # event[t] => events'[s] = events[s],
         from \notin FlightPCs \cup ResetPCs => UNCHANGED events,
         from \in ResetPCs => to \in ResetPCs /\ (events'[event[t]].used => events[event[t]].used),
         to \in ResetPCs => from \in ResetPCs /\ to # "reset_done" /\ event'[t] = event[t],
         to = "idle" => event'[t] = head
  PROVE  ContentInv'
<1> USE DEF Kept, Calm
<1>1. /\ pc[t] = from /\ pc'[t] = to /\ \A u \in Threads : u # t => pc'[u] = pc[u]
  BY DEF Goto, TypeInv, LockInv
<1>2. tickets' = tickets /\ origin' = origin  OBVIOUS
<1>3. \A u \in Threads : InFlight(u)' =>
        InFlight(u) /\ event'[u] = event[u] /\ ticket'[u] = ticket[u]
  BY <1>1 DEF InFlight
<1>4. \A u \in Threads : InFlight(u)' => Newest(ticket'[u], event'[u], origin', tickets')
  BY <1>2, <1>3 DEF ContentInv
<1>5. ASSUME NEW s \in Slots,
             \A u \in Threads : ~((InFlight(u)' /\ event'[u] = s) \/ pc'[u] \in ResetPCs)
      PROVE  Newest(events'[s].message, s, origin', tickets')
  <2>1. from \notin ResetPCs  BY <1>1, <1>5
  <2>2. \A u \in Threads : u # t => ~((InFlight(u) /\ event[u] = s) \/ pc[u] \in ResetPCs)
    BY <1>1, <1>5 DEF InFlight
  <2>3. CASE from \in FlightPCs /\ event[t] = s
    <3>1. to \notin FlightPCs  BY <1>1, <1>5, <2>3 DEF InFlight
    <3>2. events'[s].message = ticket[t]  BY <2>3, <3>1
    <3>3. Newest(ticket[t], s, origin, tickets)  BY <1>1, <2>3 DEF ContentInv, InFlight
    <3>4. QED  BY <1>2, <3>2, <3>3
  <2>4. CASE ~(from \in FlightPCs /\ event[t] = s)
    <3>1. ~((InFlight(t) /\ event[t] = s) \/ pc[t] \in ResetPCs)
      BY <1>1, <2>1, <2>4 DEF InFlight
    <3>2. Newest(events[s].message, s, origin, tickets)  BY <2>2, <3>1 DEF ContentInv
    <3>3. events'[s] = events[s]  BY <2>1, <2>4
    <3>4. QED  BY <1>2, <3>2, <3>3
  <2>5. QED  BY <2>3, <2>4
<1>6. ASSUME NEW u \in Threads, NEW s \in Slots, pc'[u] \in ResetPCs,
             s < event'[u] \/ pc'[u] = "reset_done"
      PROVE  ~events'[s].used
  <2>1. /\ pc[u] \in ResetPCs /\ event'[u] = event[u]
        /\ s < event[u] \/ pc[u] = "reset_done"
    BY <1>1, <1>6
  <2>2. ~events[s].used  BY <2>1 DEF ContentInv
  <2>3. from \notin FlightPCs  BY <1>1, <2>1 DEF FillInv, ResetAlone, InFlight
  <2>4. QED  BY <2>2, <2>3
<1>7. ASSUME NEW u \in Threads, pc'[u] \in {"idle", "reset_done"} PROVE event'[u] = head
  BY <1>1, <1>7 DEF ContentInv, ResetPCs
<1>8. QED  BY <1>4, <1>5, <1>6, <1>7 DEF ContentInv

\* The new ticket is the newest message of its event, and of no other.
LEMMA NewestNext ==
  ASSUME NEW o \in Nat, NEW n \in Nat, o <= n, NEW s, s = (n - o) % Size
  PROVE  /\ Newest(n + 1, s, o, n + 1)
         /\ \A k, r : r # s /\ Newest(k, r, o, n) => Newest(k, r, o, n + 1)
<1>1. /\ (n + 1) - o - 1 = n - o /\ n + 1 \in o + 1 .. n + 1 /\ n + 1 # Null
      /\ \A j \in o + 1 .. n + 1 : j \in Int /\ j <= n + 1 /\ (j = n + 1 \/ j \in o + 1 .. n)
      /\ \A j \in o + 1 .. n : j \in o + 1 .. n + 1
  BY DEF Null
<1>2. \A r : Belongs(n + 1, r, o, n + 1) <=> r = s  BY <1>1 DEF Belongs
<1>3. \A j \in o + 1 .. n : \A r : Belongs(j, r, o, n + 1) <=> Belongs(j, r, o, n)
  BY <1>1 DEF Belongs
<1>4. Newest(n + 1, s, o, n + 1)  BY <1>1, <1>2 DEF Newest
<1>5. ASSUME NEW k, NEW r, r # s, Newest(k, r, o, n) PROVE Newest(k, r, o, n + 1)
  <2>1. k # Null => Belongs(k, r, o, n + 1)
    BY <1>3, <1>5 DEF Newest, Belongs
  <2>2. ASSUME NEW j \in o + 1 .. n + 1, Belongs(j, r, o, n + 1)
        PROVE  k # Null /\ j <= k
    <3>1. j \in o + 1 .. n  BY <1>1, <1>2, <1>5, <2>2
    <3>2. QED  BY <1>3, <1>5, <2>2, <3>1 DEF Newest
  <2>3. QED  BY <2>1, <2>2 DEF Newest
<1>6. QED  BY <1>4, <1>5

LEMMA AdvanceKeepsContent ==
  ASSUME Kept, NEW t \in Threads, LogAdvance(t), ~overtaken'
  PROVE  ContentInv'
<1> USE DEF Kept, Calm
<1>1. /\ pc[t] = "log_advance" /\ pc'[t] = "log_tas"
      /\ \A u \in Threads : u # t => pc'[u] = pc[u] /\ ticket'[u] = ticket[u]
      /\ ticket'[t] = tickets + 1 /\ tickets' = tickets + 1
      /\ event' = event /\ UNCHANGED <<events, origin>>
  BY DEF LogAdvance, Goto, TypeInv, LockInv, TypeOK
<1>2. tickets \in Nat /\ origin \in Nat /\ origin <= tickets
  BY DEF TypeInv, TypeOK
<1>3. event[t] = (tickets - origin) % Size
  BY <1>1 DEF AccountInv, Accounted, CursorHeld
<1>4. /\ Newest(tickets + 1, event[t], origin', tickets')
      /\ \A k, r : r # event[t] /\ Newest(k, r, origin, tickets)
                   => Newest(k, r, origin', tickets')
  BY <1>1, <1>2, <1>3, NewestNext
<1>5. \A u \in Threads : u # t => ~(InFlight(u) /\ event[u] = event[t])
  BY DEF LogAdvance
<1>6. ASSUME NEW u \in Threads, InFlight(u)'
      PROVE  Newest(ticket'[u], event'[u], origin', tickets')
  <2>1. CASE u = t  BY <1>1, <1>4, <2>1
  <2>2. CASE u # t
    <3>1. InFlight(u)  BY <1>1, <1>6, <2>2 DEF InFlight
    <3>2. Newest(ticket[u], event[u], origin, tickets) /\ event[u] # event[t]
      BY <1>5, <2>2, <3>1 DEF ContentInv
    <3>3. QED  BY <1>1, <1>4, <2>2, <3>2
  <2>3. QED  BY <2>1, <2>2
<1>7. ASSUME NEW s \in Slots,
             \A u \in Threads : ~((InFlight(u)' /\ event'[u] = s) \/ pc'[u] \in ResetPCs)
      PROVE  Newest(events'[s].message, s, origin', tickets')
  <2>1. s # event[t]  BY <1>1, <1>7 DEF InFlight, FlightPCs
  <2>2. \A u \in Threads : ~((InFlight(u) /\ event[u] = s) \/ pc[u] \in ResetPCs)
    BY <1>1, <1>7, <2>1 DEF InFlight, ResetPCs
  <2>3. Newest(events[s].message, s, origin, tickets)  BY <2>2 DEF ContentInv
  <2>4. QED  BY <1>1, <1>4, <2>1, <2>3
<1>8. \A u \in Threads : pc'[u] \notin ResetPCs
  BY <1>1 DEF TypeInv, LockInv, BufferLockExclusive, HoldPCs, ResetPCs
<1>9. \A u \in Threads : pc'[u] \in {"idle", "reset_done"} => event'[u] = head
  BY <1>1 DEF ContentInv
<1>10. QED  BY <1>6, <1>7, <1>8, <1>9 DEF ContentInv

LEMMA ResetLockKeepsContent ==
  ASSUME Kept, NEW t \in Threads, ResetLock(t), ~disturbed'
  PROVE  ContentInv'
<1> USE DEF Kept, Calm
<1>1. /\ pc[t] = "idle" /\ pc'[t] = "reset_fields"
      /\ \A u \in Threads : u # t => pc'[u] = pc[u]
      /\ UNCHANGED <<events, event, ticket, tickets, origin>>
  BY DEF ResetLock, Goto, TypeInv, LockInv
<1>2. \A u \in Threads : ~InFlight(u)'
  BY <1>1 DEF ResetLock, InFlight, FlightPCs, FillPCs, LogPCs
<1>3. pc'[t] \in ResetPCs  BY <1>1 DEF ResetPCs
<1>4. \A s \in Slots : ~(s < event[t])
  BY <1>1, BufferConstants DEF ContentInv, head, Slots
<1>5. \A u \in Threads : u # t => pc[u] \notin ResetPCs
  BY <1>1 DEF ResetLock, SpinLock, TypeInv, LockInv, BufferLockExclusive, HoldPCs
<1>6. QED  BY <1>1, <1>2, <1>3, <1>4, <1>5 DEF ContentInv

\* One more event is empty.
LEMMA ResetExtKeepsContent ==
  ASSUME Kept, NEW t \in Threads, ResetExt(t)
  PROVE  ContentInv'
<1> DEFINE s == event[t]
<1> USE DEF Kept, Calm
<1>1. /\ pc[t] = "reset_ext" /\ s \in Slots
      /\ pc'[t] = IF Succ(s) = head THEN "reset_done" ELSE "reset_fields"
      /\ \A u \in Threads : u # t => pc'[u] = pc[u] /\ event'[u] = event[u]
      /\ event'[t] = Succ(s)
  BY DEF ResetExt, Goto, TypeInv, LockInv, TypeOK
<1>2. /\ \A r \in Slots : events'[r].used = events[r].used
      /\ ~events[s].used
  <2>1. events' = WithoutExt(s) \/ events' = [events EXCEPT ![s].ext_type = FALSE]
    BY DEF ResetExt, NulledExt
  <2>2. \A r \in Slots : events[r] \in EventType  BY DEF TypeInv, TypeOK
  <2>3. \A r \in Slots : events'[r].used = events[r].used
    <3>1. DOMAIN events = Slots /\ s \in Slots  BY <1>1 DEF TypeInv, TypeOK
    <3>2. CASE events' = WithoutExt(s)
      BY <2>2, <3>1, <3>2 DEF WithoutExt, EventType
    <3>3. CASE events' = [events EXCEPT ![s].ext_type = FALSE]
      BY <2>2, <3>1, <3>3 DEF EventType
    <3>4. QED  BY <2>1, <3>2, <3>3
  <2>4. Stage("reset_ext", ticket[t], ptr[t], events[s], heap)
    BY <1>1, Worker DEF WorkPCs
  <2>5. QED  BY <2>3, <2>4 DEF Stage
<1>3. /\ \A r \in Slots : r < event'[t] \/ pc'[t] = "reset_done" => r < s \/ r = s
      /\ pc'[t] \in {"idle", "reset_done"} => event'[t] = head
  BY <1>1, BufferConstants DEF Succ, Slots, head
<1>4. \A u \in Threads : ~InFlight(u)'
  <2>1. ~InFlight(t)'  BY <1>1 DEF InFlight, FlightPCs, FillPCs, LogPCs
  <2>2. \A u \in Threads : ~InFlight(u)
    BY <1>1 DEF FillInv, ResetAlone, ResetPCs
  <2>3. QED  BY <1>1, <2>1, <2>2 DEF InFlight
<1>5. pc'[t] \in ResetPCs  BY <1>1 DEF ResetPCs
<1>6. \A u \in Threads : u # t => pc[u] \notin ResetPCs
  BY <1>1 DEF TypeInv, LockInv, BufferLockExclusive, HoldPCs, ResetPCs
<1>7. \A r \in Slots : r < s => ~events[r].used
  BY <1>1 DEF ContentInv, ResetPCs
<1> HIDE DEF s
<1>8. ASSUME NEW u \in Threads, NEW r \in Slots, pc'[u] \in ResetPCs,
             r < event'[u] \/ pc'[u] = "reset_done"
      PROVE  ~events'[r].used
  BY <1>1, <1>2, <1>3, <1>6, <1>7, <1>8
<1>9. \A u \in Threads : pc'[u] \in {"idle", "reset_done"} => event'[u] = head
  BY <1>1, <1>3 DEF ContentInv
<1>10. QED  BY <1>4, <1>5, <1>8, <1>9 DEF ContentInv

\* All events are empty, and no message has been claimed since.
LEMMA ResetDoneKeepsContent ==
  ASSUME Kept, NEW t \in Threads, ResetDone(t)
  PROVE  ContentInv'
<1> USE DEF Kept, Calm
<1>1. /\ pc[t] = "reset_done" /\ pc'[t] = "idle"
      /\ \A u \in Threads : u # t => pc'[u] = pc[u]
      /\ UNCHANGED <<events, event, ticket, tickets>> /\ origin' = tickets
  BY DEF ResetDone, Goto, TypeInv, LockInv
<1>2. \A u \in Threads : ~InFlight(u)
  BY <1>1 DEF FillInv, ResetAlone, ResetPCs
<1>3. \A u \in Threads : ~InFlight(u)'
  BY <1>1, <1>2 DEF InFlight, FlightPCs, FillPCs, LogPCs
<1>4. \A u \in Threads : u # t => pc[u] \notin ResetPCs
  BY <1>1 DEF TypeInv, LockInv, BufferLockExclusive, HoldPCs, ResetPCs
<1>5. \A u \in Threads : pc'[u] \notin ResetPCs
  BY <1>1, <1>4 DEF ResetPCs
<1>6. ASSUME NEW s \in Slots PROVE Newest(events'[s].message, s, origin', tickets')
  <2>1. \A u \in Threads : ~Works(u, s)
    BY <1>1, <1>2, <1>4 DEF Works, WorkPCs, InFlight, FlightPCs, FillPCs, LogPCs, ResetPCs
  <2>2. Settled(events[s], heap)  BY <2>1 DEF EventsInv
  <2>3. ~events[s].used  BY <1>1 DEF ContentInv, ResetPCs
  <2>4. events'[s].message = Null  BY <1>1, <2>2, <2>3 DEF Settled, Text
  <2>5. \A j : j \notin tickets + 1 .. tickets  BY DEF TypeInv, TypeOK
  <2>6. QED  BY <1>1, <2>4, <2>5 DEF Newest
<1>7. \A u \in Threads : pc'[u] \in {"idle", "reset_done"} => event'[u] = head
  BY <1>1 DEF ContentInv
<1>8. QED  BY <1>3, <1>5, <1>6, <1>7 DEF ContentInv

LEMMA ContentStep ==
  ASSUME Kept, [Next]_vars, ~overtaken', ~disturbed'
  PROVE  ContentInv'
<1> USE ContentFrame DEF FlightPCs, FillPCs, LogPCs, ResetPCs, history
<1>k. Kept  OBVIOUS
<1>t. /\ event \in [Threads -> Slots] /\ ticket \in [Threads -> TicketOrNull]
      /\ pc \in [Threads -> PCs]
      /\ \A s \in Slots : events[s] \in EventType
      /\ DOMAIN events = Slots
  BY DEF Kept, Calm, TypeInv, TypeOK, LockInv
<1>1. ASSUME NEW t \in Threads, LogStep(t) PROVE ContentInv'
  <2>1. CASE LogRead(t)        BY <2>1, <1>t DEF LogRead
  <2>2. CASE LogAdvance(t)     BY <2>2, AdvanceKeepsContent
  <2>3. CASE LogDrop(t)        BY <2>3, DropsMeet DEF LogDrop, Goto, DropOnlyOvertaken, Kept, Calm
  <2>4. CASE LogTakeEvent(t)   BY <2>4, <1>t DEF LogTakeEvent
  <2>4a. CASE LogStamp(t)      BY <2>4a, <1>t DEF LogStamp
  <2>5. CASE LogText(t)        BY <2>5, <1>t DEF LogText
  <2>6. CASE LogMessage(t)     BY <2>6, <1>t DEF LogMessage
  <2>7. CASE LogExtCheck(t)    BY <2>7, <1>t DEF LogExtCheck, AfterExtCheck, AfterOldExt
  <2>8. CASE LogExtFree(t)     BY <2>8 DEF LogExtFree
  <2>9. CASE LogExtClear(t)    BY <2>9, <1>t DEF LogExtClear, AfterOldExt, WithoutExt
  <2>10. CASE LogExtStore(t)   BY <2>10, <1>t DEF LogExtStore
  <2>11. CASE LogExtPublish(t) BY <2>11, <1>t DEF LogExtPublish
  <2>12. CASE LogUsed(t)       BY <2>12, <1>t DEF LogUsed
  <2>13. CASE LogUnlock(t)
    <3>1. Stage("log_unlock", ticket[t], ptr[t], events[event[t]], heap)
      BY <2>13, Worker DEF LogUnlock, Goto, WorkPCs, Kept
    <3>2. events[event[t]].message = ticket[t]
      BY <3>1 DEF Stage, Text
    <3>3. events'[event[t]].message = ticket[t]
      BY <1>t, <2>13, <3>2 DEF LogUnlock, Released, EventType
    <3>4. QED  BY <2>13, <1>t, <3>3 DEF LogUnlock, Released
  <2>14. QED
    BY <1>1, <2>1, <2>2, <2>3, <2>4, <2>4a, <2>5, <2>6, <2>7, <2>8, <2>9, <2>10,
       <2>11, <2>12, <2>13 DEF LogStep
<1>2. ASSUME NEW t \in Threads, PrintStep(t) PROVE ContentInv'
  <2>1. CASE PrintStop(t)      BY <2>1 DEF PrintStop
  <2>2. CASE PrintEvent(t)     BY <2>2 DEF PrintEvent
  <2>3. CASE PrintMessage(t)
    <3>1. PICK to \in {"print_ext", "print_unlock", "print_event"} :
            Goto(t, "print_message", to)
      BY <2>3 DEF PrintMessage, PrintNext
    <3>2. /\ UNCHANGED <<events, ticket, tickets, origin>>
          /\ \A u \in Threads : u # t => event'[u] = event[u]
      BY <2>3, <1>t DEF PrintMessage, PrintNext
    <3>3. QED  BY <1>t, <3>1, <3>2
  <2>4. CASE PrintExt(t)       BY <2>4, <1>t DEF PrintExt, PrintNext
  <2>5. CASE PrintUnlock(t)    BY <2>5, <1>t DEF PrintUnlock
  <2>6. QED  BY <1>2, <2>1, <2>2, <2>3, <2>4, <2>5 DEF PrintStep
<1>3. ASSUME NEW t \in Threads, ResetStep(t) PROVE ContentInv'
  <2>1. CASE ResetFields(t)    BY <2>1, <1>t DEF ResetFields, EventType
  <2>2. CASE ResetUsed(t)      BY <2>2, <1>t DEF ResetUsed, AfterReset, Unused, EventType
  <2>3. CASE ResetFree(t)      BY <2>3 DEF ResetFree
  <2>4. CASE ResetExt(t)       BY <2>4, ResetExtKeepsContent
  <2>5. CASE ResetDone(t)      BY <2>5, ResetDoneKeepsContent
  <2>6. QED  BY <1>3, <2>1, <2>2, <2>3, <2>4, <2>5 DEF ResetStep
<1>4. ASSUME NEW t \in Writers, NEW x \in ExtChoices, LogLock(t, x) PROVE ContentInv'
  BY <1>4 DEF LogLock, Threads
<1>5. ASSUME NEW t \in Readers, NEW a \in DumpChoices, PrintLock(t, a) PROVE ContentInv'
  BY <1>5, <1>t DEF PrintLock, Threads
<1>6. ASSUME NEW t \in Resetters, ResetLock(t) PROVE ContentInv'
  BY <1>6, ResetLockKeepsContent DEF Threads
<1>7. CASE UNCHANGED vars
  <2>1. /\ UNCHANGED <<events, pc, event, ticket, tickets, origin>>
        /\ ContentInv
    BY <1>7 DEF vars, Kept
  <2>2. \A u \in Threads : InFlight(u)' <=> InFlight(u)  BY <2>1 DEF InFlight
  <2>3. QED  BY <2>1, <2>2 DEF ContentInv
<1>8. QED
  BY <1>1, <1>2, <1>3, <1>4, <1>5, <1>6, <1>7 DEF Next, CallStep

LEMMA InitContent == Init => ContentInv
<1> SUFFICES ASSUME Init PROVE ContentInv  OBVIOUS
<1>1. \A t \in Threads : ~InFlight(t) /\ pc[t] = "idle" /\ event[t] = head
  BY DEF Init, InFlight, FlightPCs, FillPCs, LogPCs
<1>2. \A s \in Slots : Newest(events[s].message, s, origin, tickets)
  BY DEF Init, EmptyEvent, Newest
<1>3. QED  BY <1>1, <1>2 DEF ContentInv, ResetPCs

\* Once a call was overtaken, the history stays so.
LEMMA OvertakenStays == TypeInv /\ overtaken /\ [Next]_vars => overtaken'
<1> SUFFICES ASSUME overtaken, [Next]_vars PROVE overtaken'  OBVIOUS
<1> USE DEF history
<1>1. ASSUME NEW t \in Threads, LogStep(t) PROVE overtaken'
  BY <1>1 DEF LogStep, LogRead, LogAdvance, LogDrop, LogTakeEvent, LogStamp, LogText, LogMessage,
     LogExtCheck, LogExtFree, LogExtClear, LogExtStore, LogExtPublish, LogUsed, LogUnlock
<1>2. ASSUME NEW t \in Threads, PrintStep(t) PROVE overtaken'
  BY <1>2 DEF PrintStep, PrintStop, PrintEvent, PrintMessage, PrintExt, PrintUnlock
<1>3. ASSUME NEW t \in Threads, ResetStep(t) PROVE overtaken'
  BY <1>3 DEF ResetStep, ResetFields, ResetUsed, ResetFree, ResetExt, ResetDone
<1>4. CASE UNCHANGED vars  BY <1>4 DEF vars
<1>5. QED
  BY <1>1, <1>2, <1>3, <1>4 DEF Next, CallStep, LogLock, PrintLock, ResetLock

LEMMA ContentAlways == Spec => [](disturbed \/ overtaken \/ ContentInv)
<1> DEFINE Inv == /\ TypeInv /\ FillInv /\ FlightInv /\ AccountInv
                  /\ disturbed \/ EventsInv
                  /\ disturbed \/ overtaken \/ ContentInv
<1>1. Init => Inv
  BY InitTypeInv, InitFillInv, InitFlight, InitAccount, InitEvents, InitContent
<1>2. Inv /\ [Next]_vars => Inv'
  <2> SUFFICES ASSUME Inv, [Next]_vars PROVE Inv'  OBVIOUS
  <2>1. TypeInv' /\ FillInv' /\ FlightInv' /\ AccountInv'
    BY TypeInvStep, FillInvStep, FlightStep, AccountStep
  <2>2. disturbed' \/ EventsInv'
    BY DisturbedStays, EventsStep DEF Calm
  <2>3. disturbed' \/ overtaken' \/ ContentInv'
    BY DisturbedStays, OvertakenStays, ContentStep DEF Kept, Calm
  <2>4. QED  BY <2>1, <2>2, <2>3
<1>3. QED  BY <1>1, <1>2, PTL DEF Spec

-----------------------------------------------------------------------------
(***************************************************************************)
(* The order.  Which message is the newest of its event, before and after  *)
(* the ring has wrapped.                                                   *)
(***************************************************************************)
LEMMA SmallRest ==
  ASSUME NEW d \in Nat \ {0}, NEW r \in 0 .. d - 1
  PROVE  r % d = r /\ r \div d = 0
<1>1. d * 0 + r = r /\ 0 \in Nat  OBVIOUS
<1>2. QED  BY <1>1, DivideUnique

LEMMA RestOn ==
  ASSUME NEW d \in Nat \ {0}, NEW n \in Nat, NEW j \in 0 .. d - 1
  PROVE  (n + j) % d = IF (n % d) + j < d THEN (n % d) + j ELSE (n % d) + j - d
<1>1. PICK q \in Nat, r \in 0 .. d - 1 : r = n % d /\ n = d * q + r
  BY Divide
<1>2. CASE r + j < d
  <2>1. r + j \in 0 .. d - 1 /\ n + j = d * q + (r + j)  BY <1>1, <1>2
  <2>2. (d * q + (r + j)) % d = r + j  BY <2>1, DivideUnique
  <2>3. QED  BY <1>1, <1>2, <2>1, <2>2
<1>3. CASE ~(r + j < d)
  <2>1. r + j - d \in 0 .. d - 1 /\ q + 1 \in Nat  BY <1>1, <1>3
  <2>2. d * (q + 1) = d * q + d  BY <1>1
  <2>3. n + j = d * (q + 1) + (r + j - d)  BY <1>1, <2>1, <2>2
  <2>4. (d * (q + 1) + (r + j - d)) % d = r + j - d  BY <2>1, DivideUnique
  <2>5. QED  BY <1>1, <1>3, <2>3, <2>4
<1>4. QED  BY <1>2, <1>3

LEMMA RestLess ==
  ASSUME NEW d \in Nat \ {0}, NEW n \in Nat, d <= n
  PROVE  (n - d) % d = n % d
<1>1. PICK q \in Nat, r \in 0 .. d - 1 : r = n % d /\ n = d * q + r
  BY Divide
<1>2. q # 0
  <2>1. d * 0 + r = r  BY <1>1
  <2>2. QED  BY <1>1, <2>1
<1>3. q - 1 \in Nat /\ d * q = d * (q - 1) + d
  <2>1. q - 1 \in Nat  BY <1>1, <1>2
  <2>2. d * ((q - 1) + 1) = d * (q - 1) + d  BY <2>1
  <2>3. QED  BY <1>1, <2>1, <2>2
<1>4. n - d = d * (q - 1) + r  BY <1>1, <1>3
<1>5. (d * (q - 1) + r) % d = r  BY <1>3, DivideUnique
<1>6. QED  BY <1>1, <1>4, <1>5

\* Numbers less than d apart with the same remainder are equal.
LEMMA RestApart ==
  ASSUME NEW d \in Nat \ {0}, NEW a \in Nat, NEW j \in 0 .. d - 1,
         (a + j) % d = a % d
  PROVE  j = 0
<1>1. a % d \in 0 .. d - 1  BY Divide
<1>2. (a + j) % d = IF (a % d) + j < d THEN (a % d) + j ELSE (a % d) + j - d
  BY RestOn
<1>3. QED  BY <1>1, <1>2

\* Before the ring has wrapped, event i has the message i places after the
\* last reset.
LEMMA NewestPart ==
  ASSUME NEW o \in Nat, NEW n \in Nat, o <= n, n - o < Size,
         NEW i \in Slots, NEW k, Newest(k, i, o, n)
  PROVE  k = IF i < n - o THEN o + i + 1 ELSE Null
<1> USE BufferConstants DEF Slots
<1>1. \A j \in o + 1 .. n : (j - o - 1) % Size = j - o - 1
  <2>1. TAKE j \in o + 1 .. n
  <2>2. j - o - 1 \in 0 .. Size - 1  OBVIOUS
  <2>3. QED  BY <2>2, SmallRest
<1>2. ASSUME NEW j PROVE Belongs(j, i, o, n) <=> i < n - o /\ j = o + i + 1
  <2>1. CASE j \in o + 1 .. n
    <3>1. (j - o - 1) % Size = j - o - 1  BY <1>1, <2>1
    <3>2. j - o - 1 = i <=> i < n - o /\ j = o + i + 1  BY <2>1
    <3>3. QED  BY <2>1, <3>1, <3>2 DEF Belongs
  <2>2. CASE j \notin o + 1 .. n
    <3>1. i < n - o => o + i + 1 \in o + 1 .. n  OBVIOUS
    <3>2. QED  BY <2>2, <3>1 DEF Belongs
  <2>3. QED  BY <2>1, <2>2
<1>3. CASE i < n - o
  <2>1. Belongs(o + i + 1, i, o, n) /\ o + i + 1 \in o + 1 .. n  BY <1>2, <1>3
  <2>2. k # Null  BY <2>1 DEF Newest
  <2>3. QED  BY <1>2, <1>3, <2>2 DEF Newest
<1>4. CASE ~(i < n - o)
  BY <1>2, <1>4 DEF Newest
<1>5. QED  BY <1>3, <1>4

\* Once it has, the events from next_write on have the newest Size messages.
LEMMA NewestFull ==
  ASSUME NEW o \in Nat, NEW n \in Nat, Size <= n - o,
         NEW i \in 1 .. Size, NEW k, Newest(k, (n - o + i - 1) % Size, o, n)
  PROVE  k = n - Size + i
<1> USE BufferConstants
<1> DEFINE s == (n - o + i - 1) % Size
           m == n - Size + i
<1>1. m \in o + 1 .. n /\ m - o - 1 = (n - o + i - 1) - Size
      /\ m - o - 1 \in Nat /\ n - o + i - 1 \in Nat /\ Size <= n - o + i - 1
  OBVIOUS
<1>2. (m - o - 1) % Size = s  BY <1>1, RestLess
<1> HIDE DEF m, s
<1>3. Belongs(m, s, o, n)  BY <1>1, <1>2 DEF Belongs
<1>4. k # Null /\ m <= k /\ Belongs(k, s, o, n)
  BY <1>1, <1>3 DEF Newest, s
<1>5. k \in o + 1 .. n /\ (k - o - 1) % Size = s  BY <1>4 DEF Belongs
<1>6. k - m \in 0 .. Size - 1  BY <1>4, <1>5 DEF m
<1>7. (m - o - 1) + (k - m) = k - o - 1  BY <1>1, <1>5
<1>8. k - m = 0  BY <1>1, <1>2, <1>5, <1>6, <1>7, RestApart
<1>9. QED  BY <1>1, <1>5, <1>8 DEF m

LEMMA NewestIs ==
  ASSUME TypeOK, NEW s, NEW k, Newest(k, s, origin, tickets)
  PROVE  NewestFor(s) = k
<1> DEFINE mine == {j \in origin + 1 .. tickets : (j - origin - 1) % Size = s}
<1>1. \A j : j \in mine <=> Belongs(j, s, origin, tickets)  BY DEF Belongs
<1>2. mine \subseteq Int  BY DEF TypeOK
<1>3. CASE mine = {}
  BY <1>1, <1>3 DEF NewestFor, Newest
<1>4. CASE mine # {}
  <2>1. k \in mine /\ \A j \in mine : j <= k  BY <1>1, <1>4 DEF Newest
  <2>2. \A j \in mine : (\A i \in mine : i <= j) => j = k  BY <1>2, <2>1
  <2>3. NewestFor(s) = CHOOSE j \in mine : \A i \in mine : i <= j
    BY <1>4 DEF NewestFor
  <2> HIDE DEF mine
  <2>4. QED  BY <2>1, <2>2, <2>3
<1>5. QED  BY <1>3, <1>4

LEMMA ListOf ==
  ASSUME NEW A, NEW s \in Seq(A)
  PROVE  s = [i \in 1 .. Len(s) |-> s[i]]
OBVIOUS

\* Unless a log call was overtaken or disturbed, or the count of wraps came
\* round to zero, a print that starts when no call is in flight shows exactly
\* the newest Size messages since the last reset, whole and in order, and a
\* print of all events shows each event once, with its newest message.
THEOREM PrintsExact == Spec => []PrintExact
<1>1. ASSUME TypeInv, AccountInv, WalkInv, EventsInv, ContentInv, NEW t \in Threads,
             pc[t] = "print_unlock", quiet[t], all[t] \/ ~WrapsForgotten
      PROVE  shown[t] = IF all[t]
                        THEN [i \in 1 .. Size |-> <<NewestFor(i - 1), NewestFor(i - 1)>>]
                        ELSE LogWindow
  <2> USE <1>1
  <2>1. PICK n \in Nat : n = Len(shown[t])  BY DEF TypeInv, TypeOK
  <2>2. /\ n <= Size /\ Walked(t, n)
        /\ n = Size \/ (~all[t] /\ ~events[At(t, n)].used)
        /\ start[t] = PrintStart(all[t])
        /\ \A u \in Threads : ~InFlight(u)
    BY <2>1 DEF WalkInv, Progress
  <2>3. /\ tickets \in Nat /\ origin \in Nat /\ origin <= tickets
        /\ Size \in Nat \ {0} /\ WrapModulus \in Nat \ {0}
        /\ start[t] \in Slots /\ TypeOK
        /\ shown[t] \in Seq(TicketOrNull \X TicketOrNull)
    BY BufferConstants DEF TypeInv, TypeOK
  <2>4. \A u \in Threads : pc[u] \notin ResetPCs
    BY DEF TypeInv, LockInv, BufferLockExclusive, HoldPCs, ResetPCs, PrintPCs
  <2>5. ASSUME NEW s \in Slots
        PROVE  /\ events[s].stamp = events[s].message
               /\ events[s].used <=> events[s].message # Null
               /\ Newest(events[s].message, s, origin, tickets)
    <3>1. \A u \in Threads : ~Works(u, s)
      BY <2>2, <2>4 DEF Works, WorkPCs, InFlight, FlightPCs, ResetPCs
    <3>2. Settled(events[s], heap)  BY <3>1 DEF EventsInv
    <3>3. Newest(events[s].message, s, origin, tickets)
      BY <2>2, <2>4 DEF ContentInv
    <3>4. QED  BY <3>2, <3>3 DEF Settled, Text
  <2>6. \A i \in 1 .. n : At(t, i - 1) \in Slots
    BY <2>2, <2>3 DEF At, Slots
  <2>7. \A i \in 1 .. n : LET k == events[At(t, i - 1)].message IN
          shown[t][i] = <<k, k>> /\ (all[t] \/ k # Null)
    BY <2>2, <2>5, <2>6 DEF Walked
  <2>8. CASE all[t]
    <3>1. n = Size /\ start[t] = 0  BY <2>2, <2>8 DEF PrintStart, head
    <3>2. ASSUME NEW i \in 1 .. Size
          PROVE  shown[t][i] = <<NewestFor(i - 1), NewestFor(i - 1)>>
      <4>1. At(t, i - 1) = i - 1 /\ i - 1 \in Slots  BY <2>3, <3>1 DEF At, Slots
      <4>2. NewestFor(i - 1) = events[i - 1].message
        BY <2>3, <2>5, <4>1, NewestIs
      <4>3. QED  BY <2>7, <3>1, <4>1, <4>2
    <3>3. shown[t] = [i \in 1 .. Size |-> <<NewestFor(i - 1), NewestFor(i - 1)>>]
      <4>1. shown[t] = [i \in 1 .. Size |-> shown[t][i]]
        BY <2>1, <2>3, <3>1, ListOf
      <4>2. QED  BY <3>2, <4>1
    <3>4. QED  BY <2>8, <3>3
  <2>9. CASE ~all[t] /\ tickets - origin < Size
    <3> DEFINE logged == tickets - origin
    <3>1. logged \in 0 .. Size - 1  BY <2>3, <2>9
    <3>2. start[t] = 0
      <4>1. logged \div Size = 0 /\ 0 % WrapModulus = 0
        BY <2>3, <3>1, SmallRest, DivideZero
      <4>2. wrapped = 0  BY <4>1 DEF AccountInv, Accounted
      <4>3. QED  BY <2>2, <4>2 DEF PrintStart, head
    <3>3. \A i \in Slots : At(t, i) = i  BY <2>3, <3>2 DEF At, Slots
    <3>4. \A i \in Slots : events[i].message = IF i < logged THEN origin + i + 1 ELSE Null
      BY <2>3, <2>5, <2>9, NewestPart
    <3>5. n = logged
      <4>1. ASSUME n < logged PROVE FALSE
        <5>1. n \in Slots /\ n # Size  BY <2>3, <3>1, <4>1 DEF Slots
        <5>2. events[n].message = Null  BY <2>2, <2>5, <3>3, <5>1
        <5>3. events[n].message = origin + n + 1  BY <3>4, <4>1, <5>1
        <5>4. QED  BY <2>3, <5>2, <5>3 DEF Null
      <4>2. ASSUME n > logged PROVE FALSE
        <5>1. logged + 1 \in 1 .. n /\ logged \in Slots /\ (logged + 1) - 1 = logged
          BY <2>3, <3>1, <4>2 DEF Slots
        <5>2. At(t, (logged + 1) - 1) = logged  BY <3>3, <5>1
        <5>3. events[logged].message = Null  BY <3>4, <5>1
        <5>4. QED  BY <2>7, <2>9, <5>1, <5>2, <5>3
      <4>3. QED  BY <2>3, <3>1, <4>1, <4>2
    <3>6. ASSUME NEW i \in 1 .. logged
          PROVE  shown[t][i] = <<tickets - logged + i, tickets - logged + i>>
      <4>1. i - 1 \in Slots /\ i - 1 < logged  BY <2>3, <3>1 DEF Slots
      <4>2. events[At(t, i - 1)].message = tickets - logged + i
        BY <2>3, <3>3, <3>4, <4>1
      <4>3. QED  BY <2>7, <3>5, <4>2
    <3>7. shown[t] = [i \in 1 .. logged |-> <<tickets - logged + i, tickets - logged + i>>]
      <4>1. shown[t] = [i \in 1 .. logged |-> shown[t][i]]
        BY <2>1, <2>3, <3>5, ListOf
      <4>2. QED  BY <3>6, <4>1
    <3>8. QED  BY <2>9, <3>7 DEF LogWindow
  <2>10. CASE ~all[t] /\ ~(tickets - origin < Size)
    <3> DEFINE logged == tickets - origin
    <3>1. logged \in Nat /\ Size <= logged  BY <2>3, <2>10
    <3>2. start[t] = logged % Size
      <4>1. wrapped # 0
        BY <2>10, <3>1 DEF AccountInv, Accounted, WrapsForgotten
      <4>2. QED  BY <2>2, <2>10, <4>1 DEF PrintStart, AccountInv, Accounted
    <3>3. ASSUME NEW i \in 1 .. Size
          PROVE  /\ At(t, i - 1) \in Slots
                 /\ events[At(t, i - 1)].message = tickets - Size + i
      <4>1. i - 1 \in 0 .. Size - 1  BY <2>3
      <4>2. At(t, i - 1) = (logged + (i - 1)) % Size
        <5>1. (logged + (i - 1)) % Size =
                IF (logged % Size) + (i - 1) < Size THEN (logged % Size) + (i - 1)
                ELSE (logged % Size) + (i - 1) - Size
          BY <2>3, <3>1, <4>1, RestOn
        <5>2. QED  BY <3>2, <5>1 DEF At
      <4>3. At(t, i - 1) \in Slots  BY <2>3, <4>1 DEF At, Slots
      <4>4. logged + (i - 1) = tickets - origin + i - 1  BY <2>3, <4>1
      <4>5. Newest(events[At(t, i - 1)].message, (tickets - origin + i - 1) % Size,
                   origin, tickets)
        BY <2>5, <4>2, <4>3, <4>4
      <4>6. QED  BY <2>3, <3>1, <4>3, <4>5, NewestFull
    <3>4. n = Size
      <4>1. ASSUME n # Size PROVE FALSE
        <5>1. n + 1 \in 1 .. Size /\ (n + 1) - 1 = n  BY <2>2, <2>3, <4>1
        <5>2. events[At(t, n)].message = tickets - Size + (n + 1) /\ At(t, n) \in Slots
          BY <3>3, <5>1
        <5>3. events[At(t, n)].message = Null  BY <2>2, <2>5, <4>1, <5>2
        <5>4. QED  BY <2>3, <3>1, <5>2, <5>3 DEF Null
      <4>2. QED  BY <4>1
    <3>5. \A i \in 1 .. Size : shown[t][i] = <<tickets - Size + i, tickets - Size + i>>
      BY <2>7, <3>3, <3>4
    <3>6. shown[t] = [i \in 1 .. Size |-> <<tickets - Size + i, tickets - Size + i>>]
      <4>1. shown[t] = [i \in 1 .. Size |-> shown[t][i]]
        BY <2>1, <2>3, <3>4, ListOf
      <4>2. QED  BY <3>5, <4>1
    <3>7. QED  BY <2>10, <3>6 DEF LogWindow
  <2>11. QED  BY <2>8, <2>9, <2>10
<1>2. /\ TypeInv /\ AccountInv /\ WalkInv /\ (disturbed \/ EventsInv)
      /\ disturbed \/ overtaken \/ ContentInv
      => PrintExact
  BY <1>1 DEF PrintExact
<1>3. Spec => []TypeInv  BY InitTypeInv, TypeInvStep, PTL DEF Spec
<1>4. QED
  BY AccountAlways, WalkAlways, EventsAlways, ContentAlways, <1>2, <1>3, PTL
=============================================================================
