--------------------------- MODULE QlogClaims_proofs ---------------------------
(***************************************************************************)
(* Theorems about how log calls claim the events of a QlogBuffer: what     *)
(* next_write and wrapped count, and which calls can meet at an event.     *)
(***************************************************************************)
EXTENDS QlogBuffer_proofs

(***************************************************************************)
(* Division by the ring's size: what one more claim does to quotient and   *)
(* remainder.                                                              *)
(***************************************************************************)
LEMMA Divide ==
  ASSUME NEW d \in Nat \ {0}, NEW n \in Nat
  PROVE  n = d * (n \div d) + (n % d) /\ n % d \in 0 .. d - 1 /\ n \div d \in Nat
OBVIOUS

LEMMA DivideUnique ==
  ASSUME NEW d \in Nat \ {0}, NEW q \in Nat, NEW r \in 0 .. d - 1
  PROVE  (d * q + r) % d = r /\ (d * q + r) \div d = q
<1>1. (d * q + r) % d = r     OBVIOUS
<1>2. (d * q + r) \div d = q  OBVIOUS
<1>3. QED  BY <1>1, <1>2

LEMMA DivideInside ==
  ASSUME NEW d \in Nat \ {0}, NEW n \in Nat, n % d # d - 1
  PROVE  (n + 1) % d = (n % d) + 1 /\ (n + 1) \div d = n \div d
<1>1. PICK q \in Nat, r \in 0 .. d - 1 :
        q = n \div d /\ r = n % d /\ n = d * q + r
  BY Divide
<1>2. r + 1 \in 0 .. d - 1 /\ n + 1 = d * q + (r + 1)  BY <1>1
<1>3. (d * q + (r + 1)) % d = r + 1 /\ (d * q + (r + 1)) \div d = q
  BY <1>2, DivideUnique
<1>4. QED  BY <1>1, <1>2, <1>3

LEMMA DivideRound ==
  ASSUME NEW d \in Nat \ {0}, NEW n \in Nat, n % d = d - 1
  PROVE  (n + 1) % d = 0 /\ (n + 1) \div d = n \div d + 1
<1>1. PICK q \in Nat : q = n \div d /\ n = d * q + (d - 1)  BY Divide
<1>2. n + 1 = d * (q + 1) + 0
  <2>1. d * (q + 1) = d * q + d  OBVIOUS
  <2>2. n + 1 = d * q + d  BY <1>1
  <2>3. QED  BY <2>1, <2>2
<1>3. (d * (q + 1) + 0) % d = 0 /\ (d * (q + 1) + 0) \div d = q + 1
  BY DivideUnique
<1>4. QED  BY <1>1, <1>2, <1>3

LEMMA DivideZero ==
  ASSUME NEW d \in Nat \ {0}
  PROVE  0 % d = 0 /\ 0 \div d = 0
OBVIOUS

-----------------------------------------------------------------------------
\* ClaimAccounting holds with the lock taken, too; the call that is about to
\* move next_write on has read its last value.
Accounted ==
  /\ next_write = (tickets - origin) % Size
  /\ wrapped = ((tickets - origin) \div Size) % WrapModulus
CursorHeld == \A t \in Threads : pc[t] = "log_advance" => event[t] = next_write
AccountInv == Accounted /\ CursorHeld

LEMMA AccountFrame ==
  ASSUME TypeInv, AccountInv, NEW t \in Threads, NEW from, NEW to, Goto(t, from, to),
         to # "log_advance", \A u \in Threads : u # t => event'[u] = event[u],
         UNCHANGED <<next_write, wrapped, tickets, origin>>
  PROVE  AccountInv'
<1>1. Accounted'  BY DEF AccountInv, Accounted
<1>2. CursorHeld'  BY DEF AccountInv, CursorHeld, Goto, TypeInv, LockInv
<1>3. QED  BY <1>1, <1>2 DEF AccountInv

\* Only one call at a time is about to move next_write on or back.
LEMMA HolderAlone ==
  ASSUME TypeInv, NEW t \in Threads, pc[t] \in HoldPCs, NEW to, Goto(t, pc[t], to),
         to # "log_advance"
  PROVE  CursorHeld'
BY DEF CursorHeld, Goto, TypeInv, LockInv, BufferLockExclusive, HoldPCs

LEMMA AdvanceKeepsAccount ==
  ASSUME TypeInv, AccountInv, NEW t \in Threads, LogAdvance(t)
  PROVE  AccountInv'
<1> DEFINE n == tickets - origin
           q == n \div Size
<1>1. CursorHeld'  BY HolderAlone DEF LogAdvance, Goto, HoldPCs
<1>2. n \in Nat /\ tickets' - origin' = n + 1
  BY DEF LogAdvance, TypeInv, TypeOK
<1>3. /\ event[t] = n % Size /\ wrapped = q % WrapModulus
      /\ next_write' = Succ(event[t]) /\ wrapped' = CountWrap(Succ(event[t]))
  BY DEF LogAdvance, Goto, AccountInv, Accounted, CursorHeld
<1>4. n % Size \in 0 .. Size - 1 /\ q \in Nat
  BY <1>2, Divide, BufferConstants
<1> HIDE DEF n, q
<1>5. CASE n % Size # Size - 1
  <2>1. (n + 1) % Size = (n % Size) + 1 /\ (n + 1) \div Size = q
    BY <1>2, <1>5, DivideInside, BufferConstants DEF q
  <2>2. Succ(event[t]) = (n % Size) + 1 /\ Succ(event[t]) # head
    BY <1>3, <1>4, <1>5, BufferConstants DEF Succ, head
  <2>3. wrapped' = q % WrapModulus  BY <1>3, <2>2 DEF CountWrap
  <2>4. Accounted'  BY <1>2, <1>3, <2>1, <2>2, <2>3 DEF Accounted
  <2>5. QED  BY <1>1, <2>4 DEF AccountInv
<1>6. CASE n % Size = Size - 1
  <2>1. (n + 1) % Size = 0 /\ (n + 1) \div Size = q + 1
    BY <1>2, <1>6, DivideRound, BufferConstants DEF q
  <2>2. Succ(event[t]) = head  BY <1>3, <1>6 DEF Succ
  <2>3. wrapped' = (q + 1) % WrapModulus
    <3>1. CASE q % WrapModulus = WrapModulus - 1
      <4>1. (q + 1) % WrapModulus = 0
        BY <1>4, <3>1, DivideRound, BufferConstants
      <4>2. wrapped' = 0  BY <1>3, <2>2, <3>1 DEF CountWrap
      <4>3. QED  BY <4>1, <4>2
    <3>2. CASE q % WrapModulus # WrapModulus - 1
      <4>1. (q + 1) % WrapModulus = (q % WrapModulus) + 1
        BY <1>4, <3>2, DivideInside, BufferConstants
      <4>2. wrapped' = wrapped + 1  BY <1>3, <2>2, <3>2 DEF CountWrap
      <4>3. QED  BY <1>3, <4>1, <4>2
    <3>3. QED  BY <3>1, <3>2
  <2>4. Accounted'  BY <1>2, <1>3, <2>1, <2>2, <2>3 DEF Accounted, head
  <2>5. QED  BY <1>1, <2>4 DEF AccountInv
<1>7. QED  BY <1>5, <1>6

LEMMA ResetDoneKeepsAccount ==
  ASSUME TypeInv, AccountInv, NEW t \in Threads, ResetDone(t)
  PROVE  AccountInv'
<1>1. CursorHeld'  BY HolderAlone DEF ResetDone, Goto, HoldPCs, ResetPCs
<1>2. tickets' - origin' = 0  BY DEF ResetDone, TypeInv, TypeOK
<1>3. next_write' = 0 /\ wrapped' = 0  BY DEF ResetDone, Rewind, head
<1>4. 0 % Size = 0 /\ 0 \div Size = 0 /\ 0 % WrapModulus = 0
  BY DivideZero, BufferConstants
<1>5. Accounted'  BY <1>2, <1>3, <1>4 DEF Accounted
<1>6. QED  BY <1>1, <1>5 DEF AccountInv

LEMMA ReadKeepsAccount ==
  ASSUME TypeInv, AccountInv, NEW t \in Threads, LogRead(t)
  PROVE  AccountInv'
<1> USE DEF LogRead, bufferVars, history
<1>1. Accounted'  BY DEF AccountInv, Accounted
<1>2. CursorHeld'
  BY DEF AccountInv, CursorHeld, Goto, TypeInv, LockInv, TypeOK
<1>3. QED  BY <1>1, <1>2 DEF AccountInv

LEMMA AccountStep == TypeInv /\ AccountInv /\ [Next]_vars => AccountInv'
<1> SUFFICES ASSUME TypeInv, AccountInv, [Next]_vars PROVE AccountInv'  OBVIOUS
<1> USE AccountFrame DEF bufferVars, history
<1>e. event \in [Threads -> Slots]  BY DEF TypeInv, TypeOK
<1>1. ASSUME NEW t \in Threads, LogStep(t) PROVE AccountInv'
  <2>1. CASE LogRead(t)        BY <2>1, ReadKeepsAccount
  <2>2. CASE LogAdvance(t)     BY <2>2, AdvanceKeepsAccount
  <2>3. CASE LogDrop(t)        BY <2>3, <1>e DEF LogDrop
  <2>4. CASE LogTakeEvent(t)   BY <2>4 DEF LogTakeEvent
  <2>4a. CASE LogStamp(t)      BY <2>4a DEF LogStamp
  <2>5. CASE LogText(t)        BY <2>5 DEF LogText
  <2>6. CASE LogMessage(t)     BY <2>6 DEF LogMessage
  <2>7. CASE LogExtCheck(t)
    BY <2>7 DEF LogExtCheck, AfterExtCheck, AfterOldExt
  <2>8. CASE LogExtFree(t)     BY <2>8 DEF LogExtFree
  <2>9. CASE LogExtClear(t)    BY <2>9 DEF LogExtClear, AfterOldExt
  <2>10. CASE LogExtStore(t)   BY <2>10 DEF LogExtStore
  <2>11. CASE LogExtPublish(t) BY <2>11 DEF LogExtPublish
  <2>12. CASE LogUsed(t)       BY <2>12 DEF LogUsed
  <2>13. CASE LogUnlock(t)     BY <2>13, <1>e DEF LogUnlock
  <2>14. QED
    BY <1>1, <2>1, <2>2, <2>3, <2>4, <2>4a, <2>5, <2>6, <2>7, <2>8, <2>9, <2>10,
       <2>11, <2>12, <2>13 DEF LogStep
<1>2. ASSUME NEW t \in Threads, PrintStep(t) PROVE AccountInv'
  <2>1. CASE PrintStop(t)      BY <2>1 DEF PrintStop
  <2>2. CASE PrintEvent(t)     BY <2>2 DEF PrintEvent
  <2>3. CASE PrintMessage(t)   BY <2>3, <1>e DEF PrintMessage, PrintNext
  <2>4. CASE PrintExt(t)       BY <2>4, <1>e DEF PrintExt, PrintNext
  <2>5. CASE PrintUnlock(t)    BY <2>5, <1>e DEF PrintUnlock
  <2>6. QED  BY <1>2, <2>1, <2>2, <2>3, <2>4, <2>5 DEF PrintStep
<1>3. ASSUME NEW t \in Threads, ResetStep(t) PROVE AccountInv'
  <2>1. CASE ResetFields(t)    BY <2>1 DEF ResetFields
  <2>2. CASE ResetUsed(t)      BY <2>2 DEF ResetUsed, AfterReset
  <2>3. CASE ResetFree(t)      BY <2>3 DEF ResetFree
  <2>4. CASE ResetExt(t)       BY <2>4, <1>e DEF ResetExt
  <2>5. CASE ResetDone(t)      BY <2>5, ResetDoneKeepsAccount
  <2>6. QED  BY <1>3, <2>1, <2>2, <2>3, <2>4, <2>5 DEF ResetStep
<1>4. ASSUME NEW t \in Writers, NEW x \in ExtChoices, LogLock(t, x) PROVE AccountInv'
  BY <1>4 DEF LogLock, Threads
<1>5. ASSUME NEW t \in Readers, NEW a \in DumpChoices, PrintLock(t, a) PROVE AccountInv'
  BY <1>5, <1>e DEF PrintLock, Threads
<1>6. ASSUME NEW t \in Resetters, ResetLock(t) PROVE AccountInv'
  BY <1>6 DEF ResetLock, Threads
<1>7. CASE UNCHANGED vars
  BY <1>7 DEF vars, AccountInv, Accounted, CursorHeld
<1>8. QED
  BY <1>1, <1>2, <1>3, <1>4, <1>5, <1>6, <1>7 DEF Next, CallStep

LEMMA InitAccount == Init => AccountInv
<1> SUFFICES ASSUME Init PROVE AccountInv  OBVIOUS
<1>1. next_write = 0 /\ wrapped = 0 /\ tickets - origin = 0  BY DEF Init, head
<1>2. 0 % Size = 0 /\ 0 \div Size = 0 /\ 0 % WrapModulus = 0
  BY DivideZero, BufferConstants
<1>3. Accounted  BY <1>1, <1>2 DEF Accounted
<1>4. CursorHeld  BY DEF Init, CursorHeld
<1>5. QED  BY <1>3, <1>4 DEF AccountInv

LEMMA AccountAlways == Spec => []AccountInv
<1>1. TypeInv /\ AccountInv /\ [Next]_vars => TypeInv' /\ AccountInv'
  BY TypeInvStep, AccountStep
<1>2. QED  BY InitTypeInv, InitAccount, <1>1, PTL DEF Spec

\* next_write and wrapped always say how many events were claimed since the
\* last reset, for every ring size and every width of the count of wraps: no
\* claim is lost or counted twice, whatever was in flight.
THEOREM ClaimsAccounted == Spec => []ClaimAccounting
<1>1. AccountInv => ClaimAccounting
  BY DEF AccountInv, Accounted, ClaimAccounting
<1>2. QED  BY AccountAlways, <1>1, PTL

-----------------------------------------------------------------------------
\* A call in flight has a ticket of its own, one that was given out; two calls
\* in flight meet at an event only if one has overtaken the other.
FlightInv ==
  /\ \A t \in Threads : InFlight(t) => ticket[t] \in 1 .. tickets
  /\ \A t, u \in Threads : InFlight(t) /\ InFlight(u) /\ t # u =>
       ticket[t] # ticket[u] /\ (event[t] = event[u] => overtaken)

\* Steps that bring no call into flight.
LEMMA FlightFrame ==
  ASSUME TypeInv, FlightInv, NEW t \in Threads, NEW from, NEW to, Goto(t, from, to),
         \A u \in Threads : u # t => event'[u] = event[u] /\ ticket'[u] = ticket[u],
         to \in FlightPCs =>
           from \in FlightPCs /\ event'[t] = event[t] /\ ticket'[t] = ticket[t],
         UNCHANGED <<tickets, overtaken>>
  PROVE  FlightInv'
<1>1. pc[t] = from /\ pc'[t] = to /\ \A u \in Threads : u # t => pc'[u] = pc[u]
  BY DEF Goto, TypeInv, LockInv
<1>2. \A u \in Threads : InFlight(u)' =>
        InFlight(u) /\ event'[u] = event[u] /\ ticket'[u] = ticket[u]
  BY <1>1 DEF InFlight
<1>3. QED  BY <1>2 DEF FlightInv

LEMMA AdvanceKeepsFlight ==
  ASSUME TypeInv, FlightInv, NEW t \in Threads, LogAdvance(t)
  PROVE  FlightInv'
<1>1. /\ tickets' = tickets + 1 /\ tickets \in Nat
      /\ event' = event /\ ticket'[t] = tickets + 1
      /\ \A u \in Threads : u # t => ticket'[u] = ticket[u]
  BY DEF LogAdvance, TypeInv, TypeOK
<1>2. \A u \in Threads : u # t => (InFlight(u)' <=> InFlight(u))
  BY DEF LogAdvance, Goto, InFlight, TypeInv, LockInv
<1>3. \A u \in Threads : InFlight(u)' => ticket'[u] \in 1 .. tickets'
  BY <1>1, <1>2 DEF FlightInv
<1>4. ASSUME NEW u \in Threads, NEW v \in Threads, InFlight(u)', InFlight(v)', u # v
      PROVE  ticket'[u] # ticket'[v] /\ (event'[u] = event'[v] => overtaken')
  <2>1. CASE u # t /\ v # t
    BY <1>1, <1>2, <1>4, <2>1 DEF FlightInv, LogAdvance
  <2>2. ASSUME NEW w \in Threads, w # t, InFlight(w)'
        PROVE  /\ ticket'[t] # ticket'[w]
               /\ event'[t] = event'[w] => overtaken'
    <3>1. InFlight(w) /\ ticket'[w] \in 1 .. tickets
      BY <1>1, <1>2, <2>2 DEF FlightInv
    <3>2. ticket'[t] # ticket'[w]  BY <1>1, <3>1
    <3>3. event'[t] = event'[w] => overtaken'
      BY <1>1, <2>2, <3>1 DEF LogAdvance
    <3>4. QED  BY <3>2, <3>3
  <2>3. QED  BY <1>4, <2>1, <2>2
<1>5. QED  BY <1>3, <1>4 DEF FlightInv

LEMMA FlightStep == TypeInv /\ FlightInv /\ [Next]_vars => FlightInv'
<1> SUFFICES ASSUME TypeInv, FlightInv, [Next]_vars PROVE FlightInv'  OBVIOUS
<1> USE FlightFrame DEF history, FlightPCs, FillPCs, LogPCs
<1>e. event \in [Threads -> Slots] /\ ticket \in [Threads -> TicketOrNull]
  BY DEF TypeInv, TypeOK
<1>1. ASSUME NEW t \in Threads, LogStep(t) PROVE FlightInv'
  <2>1. CASE LogRead(t)        BY <2>1, <1>e DEF LogRead
  <2>2. CASE LogAdvance(t)     BY <2>2, AdvanceKeepsFlight
  <2>3. CASE LogDrop(t)        BY <2>3, <1>e DEF LogDrop
  <2>4. CASE LogTakeEvent(t)   BY <2>4 DEF LogTakeEvent
  <2>4a. CASE LogStamp(t)      BY <2>4a DEF LogStamp
  <2>5. CASE LogText(t)        BY <2>5 DEF LogText
  <2>6. CASE LogMessage(t)     BY <2>6 DEF LogMessage
  <2>7. CASE LogExtCheck(t)
    BY <2>7 DEF LogExtCheck, AfterExtCheck, AfterOldExt
  <2>8. CASE LogExtFree(t)     BY <2>8 DEF LogExtFree
  <2>9. CASE LogExtClear(t)    BY <2>9 DEF LogExtClear, AfterOldExt
  <2>10. CASE LogExtStore(t)   BY <2>10 DEF LogExtStore
  <2>11. CASE LogExtPublish(t) BY <2>11 DEF LogExtPublish
  <2>12. CASE LogUsed(t)       BY <2>12 DEF LogUsed
  <2>13. CASE LogUnlock(t)     BY <2>13, <1>e DEF LogUnlock
  <2>14. QED
    BY <1>1, <2>1, <2>2, <2>3, <2>4, <2>4a, <2>5, <2>6, <2>7, <2>8, <2>9, <2>10,
       <2>11, <2>12, <2>13 DEF LogStep
<1>2. ASSUME NEW t \in Threads, PrintStep(t) PROVE FlightInv'
  <2>1. CASE PrintStop(t)      BY <2>1 DEF PrintStop
  <2>2. CASE PrintEvent(t)     BY <2>2 DEF PrintEvent
  <2>3. CASE PrintMessage(t)   BY <2>3, <1>e DEF PrintMessage, PrintNext
  <2>4. CASE PrintExt(t)       BY <2>4, <1>e DEF PrintExt, PrintNext
  <2>5. CASE PrintUnlock(t)    BY <2>5, <1>e DEF PrintUnlock
  <2>6. QED  BY <1>2, <2>1, <2>2, <2>3, <2>4, <2>5 DEF PrintStep
<1>3. ASSUME NEW t \in Threads, ResetStep(t) PROVE FlightInv'
  <2>1. CASE ResetFields(t)    BY <2>1 DEF ResetFields
  <2>2. CASE ResetUsed(t)      BY <2>2 DEF ResetUsed, AfterReset
  <2>3. CASE ResetFree(t)      BY <2>3 DEF ResetFree
  <2>4. CASE ResetExt(t)       BY <2>4, <1>e DEF ResetExt
  <2>5. CASE ResetDone(t)      BY <2>5 DEF ResetDone
  <2>6. QED  BY <1>3, <2>1, <2>2, <2>3, <2>4, <2>5 DEF ResetStep
<1>4. ASSUME NEW t \in Writers, NEW x \in ExtChoices, LogLock(t, x) PROVE FlightInv'
  BY <1>4 DEF LogLock, Threads
<1>5. ASSUME NEW t \in Readers, NEW a \in DumpChoices, PrintLock(t, a) PROVE FlightInv'
  BY <1>5, <1>e DEF PrintLock, Threads
<1>6. ASSUME NEW t \in Resetters, ResetLock(t) PROVE FlightInv'
  BY <1>6 DEF ResetLock, Threads
<1>7. CASE UNCHANGED vars
  BY <1>7 DEF vars, FlightInv, InFlight
<1>8. QED
  BY <1>1, <1>2, <1>3, <1>4, <1>5, <1>6, <1>7 DEF Next, CallStep

LEMMA InitFlight == Init => FlightInv
BY DEF Init, FlightInv, InFlight, FlightPCs, FillPCs, LogPCs

LEMMA FlightAlways == Spec => []FlightInv
<1>1. TypeInv /\ FlightInv /\ [Next]_vars => TypeInv' /\ FlightInv'
  BY TypeInvStep, FlightStep
<1>2. QED  BY InitTypeInv, InitFlight, <1>1, PTL DEF Spec

LEMMA DropsMeet == FillInv /\ FlightInv /\ TypeInv => DropOnlyOvertaken
<1> SUFFICES ASSUME FillInv, FlightInv, TypeInv, NEW t \in Threads,
                    pc[t] = "log_tas", events[event[t]].lock
             PROVE  overtaken
  BY DEF DropOnlyOvertaken
<1>1. PICK u \in Threads : Filling(u, event[t])
  BY DEF FillInv, NoOrphanLock, TypeInv, TypeOK
<1>2. u # t /\ InFlight(u) /\ InFlight(t) /\ event[u] = event[t]
  BY <1>1 DEF Filling, InFlight, FlightPCs, FillPCs
<1>3. QED  BY <1>2 DEF FlightInv

\* A message is dropped only when the ring has come round to a call that has
\* not finished, for every ring size and also when resets clear flags at any
\* moment: never because of a flag left behind.
THEOREM DropsAreOvertaken == Spec => []DropOnlyOvertaken
<1>1. Spec => []TypeInv  BY InitTypeInv, TypeInvStep, PTL DEF Spec
<1>2. QED  BY FillInvAlways, FlightAlways, DropsMeet, <1>1, PTL

=============================================================================
