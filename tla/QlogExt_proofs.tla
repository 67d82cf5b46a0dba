--------------------------- MODULE QlogExt_proofs ---------------------------
(***************************************************************************)
(* Theorems about QlogExt, for any number of threads, callbacks, events,   *)
(* table entries and lives of the library.                                 *)
(***************************************************************************)
EXTENDS QlogExt, SequenceTheorems, FunctionTheorems, FiniteSetTheorems, TLAPS

\* The places of log calls, prints and threads outside any call.
AsidePCs == {"idle"} \cup FillPCs \cup PrintPCs

PCs == RegPCs \cup AsidePCs

\* What a step of a fill, and one of a print, leaves alone.
LEMMA FillFrame ==
  ASSUME NEW t \in Threads, FillStep(t)
  PROVE  /\ pc[t] \in FillPCs
         /\ \E to \in {"idle"} \cup FillPCs : pc' = [pc EXCEPT ![t] = to]
         /\ UNCHANGED <<inited, registry, table_lock, registering, lives>>
         /\ msg' \in {msg, [msg EXCEPT ![t] = Plain]}
BY DEF FillStep, FillEmpty, FillDrop, FillDropSize, FillDropType, FillData, FillType,
       FillCallback, FillSize, FillDone, Fill, AfterClear, Goto, FillPCs, logging

LEMMA PrintFrame ==
  ASSUME NEW t \in Threads, PrintStep(t)
  PROVE  /\ pc[t] \in {"idle"} \cup PrintPCs
         /\ \E to \in {"idle"} \cup PrintPCs : pc' = [pc EXCEPT ![t] = to]
         /\ UNCHANGED <<inited, registry, table_lock, events, registering, msg, lives>>
         /\ \/ UNCHANGED slot
            \/ \E r \in Slots \cup {Null} : slot' = [slot EXCEPT ![t] = r]
BY DEF PrintStep, PrintType, PrintTest, PrintEnd, Goto, PrintPCs, logging

\* A registration that has the table's lock.
Inside(t) == pc[t] \in {"reg_find", "reg_next", "reg_unlock"}

\* The type of entry i: the built-in ones, then the types given out in turn.
NumberAt(i) == IF i <= LAST THEN i ELSE DynamicStart + i - LAST - 1

Bound(type, callback) ==
  \E i \in 1 .. Len(table) : table[i].type = type /\ table[i].callback = callback

RegTypes ==
  /\ inited \in BOOLEAN /\ initialized \in BOOLEAN /\ table_lock \in BOOLEAN
  /\ table \in Seq([type : Nat, callback : AllCallbacks])
  /\ next_event_type \in Nat /\ lives \in Nat
  /\ pc \in [Threads -> PCs]
  /\ cb \in [Threads -> Data]
  /\ ret \in [Threads -> Nat]
  /\ held \in [Threads -> [type : Nat, callback : Data, life : Nat]]

\* The entries, and the next type unless it is just being counted.
TableInv ==
  /\ inited => initialized
  /\ initialized <=> lives > 0
  /\ IF initialized THEN Len(table) >= LAST ELSE table = <<>>
  /\ \A i \in 1 .. Len(table) : table[i].type = NumberAt(i)
  /\ \A i, j \in 1 .. Len(table) : table[i].callback = table[j].callback => i = j
  /\ initialized => table[BT].callback = BtCallback /\ table[HEXDUMP].callback = HexCallback
  /\ initialized => next_event_type = NumberAt(Len(table) + 1)
       \/ \E t \in Threads : pc[t] = "reg_next"

\* What a registration knows while it is under way, and has returned.
CallInv ==
  /\ \A t \in Threads : Inside(t) => table_lock
  /\ \A t, u \in Threads : Inside(t) /\ Inside(u) => t = u
  /\ \A t \in Threads : pc[t] \in RegPCs => initialized /\ cb[t] \in Callbacks
  /\ \A t \in Threads : pc[t] = "reg_next" =>
       /\ Len(table) > LAST
       /\ next_event_type = NumberAt(Len(table))
       /\ table[Len(table)].callback = cb[t]
  /\ \A t \in Threads : pc[t] = "reg_unlock" => Bound(ret[t], cb[t])
  /\ \A t \in Threads : held[t].life <= lives
  /\ \A t \in Threads : held[t].life = lives /\ lives > 0 => Bound(held[t].type, held[t].callback)
  /\ \A t \in Threads : held[t].type # NONE => held[t].callback # Null

RegInv == RegTypes /\ TableInv /\ CallInv

-----------------------------------------------------------------------------
LEMMA RegInit == Init => RegInv
<1> SUFFICES ASSUME Init PROVE RegInv
  OBVIOUS
<1>1. RegTypes
  <2>1. table \in Seq([type : Nat, callback : AllCallbacks])
    BY EmptySeq DEF Init
  <2> QED
    BY <2>1 DEF Init, RegTypes, PCs, AsidePCs, Data, NoType, NONE
<1>2. TableInv
  BY DEF Init, TableInv
<1>3. CallInv
  BY DEF Init, CallInv, Inside, RegPCs, NoType, NONE
<1> QED
  BY <1>1, <1>2, <1>3 DEF RegInv

\* Steps that leave the registry alone: log calls, and the waiting and the
\* refusals of registrations.
LEMMA RegAside ==
  ASSUME RegInv, UNCHANGED <<registry, lives>>, inited' \in BOOLEAN, inited' => initialized,
         NEW t \in Threads, NEW to \in {"reg_spin"} \cup AsidePCs,
         pc[t] \in AsidePCs, pc' = [pc EXCEPT ![t] = to],
         cb' \in [Threads -> Data], \A u \in Threads : u # t => cb'[u] = cb[u],
         to = "reg_spin" => initialized /\ cb'[t] \in Callbacks,
         UNCHANGED <<table_lock, ret, held>>
  PROVE  RegInv'
<1>1. /\ pc' \in [Threads -> PCs] /\ pc'[t] = to
      /\ \A u \in Threads : u # t => pc'[u] = pc[u]
  BY DEF RegInv, RegTypes, PCs, RegPCs
<1>2. RegTypes'
  BY <1>1 DEF RegInv, RegTypes, registry
<1>3. TableInv'
  <2>1. \A u \in Threads : pc[u] = "reg_next" => pc'[u] = "reg_next"
    BY <1>1 DEF AsidePCs, FillPCs, PrintPCs
  <2> QED
    BY <2>1 DEF RegInv, TableInv, registry
<1>4. CallInv'
  <2>1. pc'[t] \notin {"reg_find", "reg_next", "reg_unlock"}
    BY <1>1 DEF AsidePCs, FillPCs, PrintPCs
  <2>2. pc'[t] \in RegPCs => initialized /\ cb'[t] \in Callbacks
    BY <1>1 DEF RegPCs, AsidePCs, FillPCs, PrintPCs
  <2> QED
    BY <1>1, <2>1, <2>2 DEF RegInv, CallInv, Inside, Bound, registry
<1> QED
  BY <1>2, <1>3, <1>4 DEF RegInv

\* The steps of a registration that has waited for the lock or has it.
LEMMA RegOwn ==
  ASSUME RegInv, NEW t \in Threads, RegStep(t)
  PROVE  RegInv'
<1> USE DEF registry, registering, logging
<1>1. PICK to \in PCs : /\ pc' = [pc EXCEPT ![t] = to]
                        /\ pc[t] \in RegPCs /\ to \in {"reg_find", "reg_next", "reg_unlock", "idle"}
  BY DEF RegStep, RegSpin, RegFound, RegAppend, RegNext, RegUnlock, Goto, PCs, RegPCs, AsidePCs
<1>2. /\ pc' \in [Threads -> PCs] /\ pc'[t] = to
      /\ \A u \in Threads : u # t => pc'[u] = pc[u]
  BY <1>1 DEF RegInv, RegTypes
<1>3. UNCHANGED <<inited, initialized, lives>> /\ initialized /\ cb[t] \in Callbacks
  BY <1>1 DEF RegStep, RegSpin, RegFound, RegAppend, RegNext, RegUnlock, RegInv, CallInv
<1>4. CASE RegSpin(t)
  <2>1. /\ UNCHANGED <<table, next_event_type, cb, ret, held>>
        /\ ~table_lock /\ table_lock' = TRUE /\ to = "reg_find"
    BY <1>2, <1>4 DEF RegSpin, SpinFree, Goto
  <2>2. RegTypes'
    BY <1>2, <1>3, <2>1 DEF RegInv, RegTypes
  <2>3. TableInv'
    BY <1>2, <1>3, <2>1 DEF RegInv, TableInv, CallInv, Inside
  <2>4. CallInv'
    BY <1>2, <1>3, <2>1 DEF RegInv, CallInv, Inside, Bound, RegPCs
  <2> QED
    BY <2>2, <2>3, <2>4 DEF RegInv
<1>5. CASE RegFound(t)
  <2>1. /\ UNCHANGED <<table, next_event_type, table_lock, cb, held>>
        /\ pc[t] = "reg_find" /\ to = "reg_unlock"
    BY <1>2, <1>5 DEF RegFound, Goto
  <2>2. PICK i \in 1 .. Len(table) : table[i].callback = cb[t] /\ ret' = [ret EXCEPT ![t] = table[i].type]
    BY <1>5 DEF RegFound, Known
  <2>3. table[i] \in [type : Nat, callback : AllCallbacks]
    BY ElementOfSeq DEF RegInv, RegTypes
  <2>4. ret' \in [Threads -> Nat] /\ ret'[t] = table[i].type /\ \A u \in Threads : u # t => ret'[u] = ret[u]
    BY <2>2, <2>3 DEF RegInv, RegTypes
  <2>5. RegTypes'
    BY <1>2, <1>3, <2>1, <2>4 DEF RegInv, RegTypes
  <2>6. TableInv'
    BY <1>2, <1>3, <2>1 DEF RegInv, TableInv
  <2>7. CallInv'
    BY <1>2, <1>3, <2>1, <2>2, <2>4 DEF RegInv, CallInv, Inside, Bound
  <2> QED
    BY <2>5, <2>6, <2>7 DEF RegInv
<1>6. CASE RegAppend(t)
  <2> DEFINE e == [type |-> next_event_type, callback |-> cb[t]]
  <2>1. /\ UNCHANGED <<next_event_type, table_lock, cb, ret, held>>
        /\ pc[t] = "reg_find" /\ to = "reg_next" /\ table' = Append(table, e)
        /\ \A i \in 1 .. Len(table) : table[i].callback # cb[t]
    BY <1>2, <1>6 DEF RegAppend, Goto, Known
  <2>2. /\ e \in [type : Nat, callback : AllCallbacks]
        /\ table \in Seq([type : Nat, callback : AllCallbacks])
    BY <1>3 DEF RegInv, RegTypes, AllCallbacks
  <2>3. /\ table' \in Seq([type : Nat, callback : AllCallbacks])
        /\ Len(table') = Len(table) + 1 /\ Len(table) \in Nat
        /\ \A i \in 1 .. Len(table) : table'[i] = table[i]
        /\ table'[Len(table) + 1] = e
    BY <2>1, <2>2, AppendProperties, LenProperties
  <2>4. next_event_type = NumberAt(Len(table) + 1)
    BY <1>3, <2>1 DEF RegInv, TableInv, CallInv, Inside
  <2>5. RegTypes'
    BY <1>2, <1>3, <2>1, <2>3 DEF RegInv, RegTypes
  <2>6. \A i \in 1 .. Len(table') : i \in 1 .. Len(table) \/ i = Len(table) + 1
    BY <2>3
  <2>7. Len(table) >= LAST /\ LAST \in Nat
    BY <1>3 DEF RegInv, TableInv, LAST, HEXDUMP
  <2>8. TableInv'
    <3>1. \A i \in 1 .. Len(table') : table'[i].type = NumberAt(i)
      BY <2>3, <2>4, <2>6, SMTT(60) DEF RegInv, TableInv
    <3>2. \A i, j \in 1 .. Len(table') : table'[i].callback = table'[j].callback => i = j
      BY <2>1, <2>3, <2>6 DEF RegInv, TableInv
    <3>3. table'[BT] = table[BT] /\ table'[HEXDUMP] = table[HEXDUMP]
      BY <2>3, <2>7 DEF BT, HEXDUMP, LAST
    <3>4. Len(table') >= LAST
      BY <2>3, <2>7
    <3>5. pc'[t] = "reg_next"
      BY <1>2, <2>1
    <3> QED
      BY <1>3, <3>1, <3>2, <3>3, <3>4, <3>5 DEF RegInv, TableInv
  <2>9. ASSUME NEW n, NEW c, Bound(n, c)
        PROVE  Bound(n, c)'
    BY <2>3, <2>9 DEF Bound
  <2>10. CallInv'
    <3>1. \A u \in Threads : pc'[u] = "reg_next" => u = t
      BY <1>2, <2>1 DEF RegInv, CallInv, Inside
    <3>2. \A u \in Threads : pc'[u] = "reg_unlock" => Bound(ret[u], cb[u])'
      BY <1>2, <2>1, <2>9 DEF RegInv, CallInv
    <3>3. \A u \in Threads : held'[u].life = lives' /\ lives' > 0 => Bound(held[u].type, held[u].callback)'
      BY <1>3, <2>1, <2>9 DEF RegInv, CallInv
    <3>4. Len(table') > LAST /\ next_event_type' = NumberAt(Len(table')) /\ table'[Len(table')].callback = cb'[t]
      BY <2>1, <2>3, <2>4, <2>7
    <3> QED
      BY <1>2, <1>3, <2>1, <3>1, <3>2, <3>3, <3>4 DEF RegInv, CallInv, Inside
  <2> QED
    BY <2>5, <2>8, <2>10 DEF RegInv
<1>7. CASE RegNext(t)
  <2>1. /\ UNCHANGED <<table, table_lock, cb, held>>
        /\ pc[t] = "reg_next" /\ to = "reg_unlock"
        /\ next_event_type' = next_event_type + 1 /\ ret' = [ret EXCEPT ![t] = next_event_type]
    BY <1>2, <1>7 DEF RegNext, Goto
  <2>2. /\ ret' \in [Threads -> Nat] /\ ret'[t] = next_event_type
        /\ \A u \in Threads : u # t => ret'[u] = ret[u]
    BY <2>1 DEF RegInv, RegTypes
  <2>3. /\ Len(table) \in Nat /\ Len(table) > LAST /\ next_event_type = NumberAt(Len(table))
        /\ table[Len(table)].callback = cb[t] /\ table[Len(table)].type = NumberAt(Len(table))
    BY <2>1, LenProperties DEF RegInv, RegTypes, CallInv, TableInv, LAST, HEXDUMP
  <2>4. next_event_type + 1 = NumberAt(Len(table) + 1)
    BY <2>3, ExtConstants DEF NumberAt, LAST, HEXDUMP
  <2>5. RegTypes'
    BY <1>2, <1>3, <2>1, <2>2 DEF RegInv, RegTypes
  <2>6. TableInv'
    BY <1>3, <2>1, <2>4 DEF RegInv, TableInv
  <2>7. Bound(ret[t], cb[t])'
    BY <2>1, <2>2, <2>3 DEF Bound, LAST, HEXDUMP
  <2>8. CallInv'
    <3>1. \A u \in Threads : Inside(u) => u = t
      BY <2>1 DEF RegInv, CallInv, Inside
    <3> QED
      BY <1>2, <1>3, <2>1, <2>2, <2>7, <3>1, SMTT(60) DEF RegInv, CallInv, Inside, Bound
  <2> QED
    BY <2>5, <2>6, <2>8 DEF RegInv
<1>8. CASE RegUnlock(t)
  <2>1. /\ UNCHANGED <<table, next_event_type>>
        /\ pc[t] = "reg_unlock" /\ to = "idle" /\ table_lock' = FALSE
        /\ held' = [held EXCEPT ![t] = [type |-> ret[t], callback |-> cb[t], life |-> lives]]
        /\ cb' = [cb EXCEPT ![t] = Null] /\ ret' = [ret EXCEPT ![t] = NONE]
    BY <1>2, <1>8 DEF RegUnlock, Goto
  <2>2. RegTypes'
    BY <1>2, <1>3, <2>1 DEF RegInv, RegTypes, Data, NONE
  <2>3. TableInv'
    BY <1>2, <1>3, <2>1 DEF RegInv, TableInv
  <2>4. /\ held'[t].type = ret[t] /\ held'[t].callback = cb[t] /\ held'[t].life = lives
        /\ \A u \in Threads : u # t => held'[u] = held[u] /\ cb'[u] = cb[u] /\ ret'[u] = ret[u]
    BY <2>1 DEF RegInv, RegTypes
  <2>5. Bound(ret[t], cb[t]) /\ cb[t] # Null
    BY <1>3, <2>1, ExtConstants DEF RegInv, CallInv, AllCallbacks
  <2>6. \A u \in Threads : ~Inside(u)'
    BY <1>2, <2>1 DEF RegInv, CallInv, Inside
  <2>7. CallInv'
    <3>1. \A u \in Threads : pc'[u] \in RegPCs => initialized /\ u # t /\ cb'[u] \in Callbacks
      BY <1>2, <1>3, <2>1, <2>4 DEF RegInv, CallInv, RegPCs
    <3>2. \A u \in Threads : pc'[u] \notin {"reg_next", "reg_unlock"}
      BY <2>6 DEF Inside
    <3>3. \A u \in Threads : held'[u].life <= lives
      <4>1. lives <= lives
        BY DEF RegInv, RegTypes
      <4> QED
        BY <2>4, <4>1 DEF RegInv, CallInv
    <3>4. \A u \in Threads : held'[u].life = lives /\ lives > 0 => Bound(held'[u].type, held'[u].callback)
      BY <2>4, <2>5 DEF RegInv, CallInv
    <3>5. \A u \in Threads : held'[u].type # NONE => held'[u].callback # Null
      BY <2>4, <2>5 DEF RegInv, CallInv
    <3>6. \A n, c : Bound(n, c)' <=> Bound(n, c)
      BY <2>1 DEF Bound
    <3> QED
      BY <1>3, <2>6, <3>1, <3>2, <3>3, <3>4, <3>5, <3>6 DEF CallInv
  <2> QED
    BY <2>2, <2>3, <2>7 DEF RegInv
<1> QED
  BY <1>4, <1>5, <1>6, <1>7, <1>8 DEF RegStep

\* qlog_init starts a table with the built-in entries, and no type given out
\* before counts as one of this life.
LEMMA RegNewLife == RegInv /\ LibInit => RegInv'
<1> SUFFICES ASSUME RegInv, LibInit PROVE RegInv'
  OBVIOUS
<1>1. /\ inited' = TRUE /\ initialized' = TRUE /\ table_lock' = FALSE
      /\ table' = BuiltInTable /\ next_event_type' = DynamicStart /\ lives' = lives + 1
      /\ UNCHANGED <<pc, cb, ret, held>> /\ \A t \in Threads : pc[t] = "idle"
  BY DEF LibInit, Idle, registering, FirstDynamic
<1>2. /\ table' \in Seq([type : Nat, callback : AllCallbacks])
      /\ Len(table') = LAST
      /\ table'[1].callback = BtCallback /\ table'[2].callback = HexCallback
      /\ table'[1].type = 1 /\ table'[2].type = 2
  BY <1>1 DEF BuiltInTable, AllCallbacks, LAST, HEXDUMP, BT
<1>3. RegTypes'
  <2>1. DynamicStart \in Nat /\ lives + 1 \in Nat
    BY ExtConstants DEF RegInv, RegTypes
  <2> QED
    BY <1>1, <1>2, <2>1 DEF RegInv, RegTypes
<1>4. TableInv'
  <2>1. NumberAt(1) = 1 /\ NumberAt(2) = 2 /\ NumberAt(3) = DynamicStart
    BY ExtConstants DEF NumberAt, LAST, HEXDUMP
  <2>2. \A i \in 1 .. Len(table') : i = 1 \/ i = 2
    BY <1>2 DEF LAST, HEXDUMP
  <2>3. lives' > 0
    BY <1>1 DEF RegInv, RegTypes
  <2> QED
    BY <1>1, <1>2, <2>1, <2>2, <2>3, ExtConstants DEF TableInv, LAST, HEXDUMP, BT
<1>5. CallInv'
  <2>1. \A t \in Threads : held[t].life <= lives + 1 /\ held[t].life # lives + 1
    BY DEF RegInv, RegTypes, CallInv
  <2> QED
    BY <1>1, <2>1 DEF RegInv, CallInv, Inside, RegPCs
<1> QED
  BY <1>3, <1>4, <1>5 DEF RegInv

LEMMA RegHolds == RegInv /\ [Next]_vars => RegInv'
<1> SUFFICES ASSUME RegInv, [Next]_vars PROVE RegInv'
  OBVIOUS
<1>1. CASE LibInit
  BY <1>1, RegNewLife
<1>2. CASE LibCleanup \/ UNCHANGED vars
  <2>1. /\ UNCHANGED <<table, next_event_type, initialized, table_lock, pc, cb, ret, held, lives>>
        /\ inited' = inited \/ inited' = FALSE
    BY <1>2 DEF LibCleanup, vars, registry, registering
  <2>2. RegTypes'
    BY <2>1 DEF RegInv, RegTypes
  <2>3. TableInv'
    BY <2>1 DEF RegInv, TableInv
  <2>4. CallInv'
    BY <2>1 DEF RegInv, CallInv, Inside, Bound
  <2> QED
    BY <2>2, <2>3, <2>4 DEF RegInv
<1>3. ASSUME NEW t \in Threads, RegRefused(t)
      PROVE  RegInv'
  <2>1. /\ UNCHANGED <<inited, table, next_event_type, initialized, table_lock, pc, cb, ret, lives>>
        /\ ~initialized /\ held' = [held EXCEPT ![t] = NoType]
    BY <1>3 DEF RegRefused, registry
  <2>2. /\ held' \in [Threads -> [type : Nat, callback : Data, life : Nat]]
        /\ held'[t] = NoType /\ \A u \in Threads : u # t => held'[u] = held[u]
    BY <2>1 DEF RegInv, RegTypes, NoType, NONE, Data
  <2>3. RegTypes' /\ TableInv'
    BY <2>1, <2>2 DEF RegInv, RegTypes, TableInv
  <2>4. ~(lives > 0) /\ NoType.life <= lives /\ NoType.type = NONE
    BY <2>1 DEF RegInv, RegTypes, TableInv, NoType
  <2>5. CallInv'
    BY <2>1, <2>2, <2>4 DEF RegInv, CallInv, Inside, Bound
  <2> QED
    BY <2>3, <2>5 DEF RegInv
<1>4. ASSUME NEW t \in Threads, NEW c \in Callbacks, RegTest(t, c)
      PROVE  RegInv'
  <2>1. cb' \in [Threads -> Data] /\ cb'[t] = c /\ \A u \in Threads : u # t => cb'[u] = cb[u]
    BY <1>4 DEF RegTest, RegInv, RegTypes, Data, AllCallbacks
  <2> QED
    BY <1>4, <2>1, RegAside DEF RegTest, Goto, RegInv, RegTypes, TableInv, AsidePCs
<1>5. ASSUME NEW t \in Threads, RegStep(t)
      PROVE  RegInv'
  BY <1>5, RegOwn
<1>6. ASSUME NEW t \in Threads, NEW m \in Messages(t), NEW s \in Slots, LogTake(t, m, s)
      PROVE  RegInv'
  BY <1>6, RegAside DEF LogTake, Goto, registering, RegInv, RegTypes, TableInv, AsidePCs, FillPCs
<1>7. ASSUME NEW t \in Threads, FillStep(t) \/ PrintStep(t)
      PROVE  RegInv'
  <2>1. PICK to \in AsidePCs : pc' = [pc EXCEPT ![t] = to] /\ pc[t] \in AsidePCs
    BY <1>7, FillFrame, PrintFrame DEF AsidePCs
  <2>2. UNCHANGED <<inited, registry, table_lock, registering, lives>>
    BY <1>7, FillFrame, PrintFrame
  <2>3. to # "reg_spin"
    BY <2>1 DEF AsidePCs, FillPCs, PrintPCs
  <2> QED
    BY <2>1, <2>2, <2>3, RegAside DEF registering, RegInv, RegTypes, TableInv
<1> QED
  BY <1>1, <1>2, <1>3, <1>4, <1>5, <1>6, <1>7 DEF Next

LEMMA Reg == Spec => []RegInv
  BY RegInit, RegHolds, PTL DEF Spec

-----------------------------------------------------------------------------
(***************************************************************************)
(* The table.                                                              *)
(***************************************************************************)
LEMMA FiniteCallbacks == IsFiniteSet(AllCallbacks)
<1>1. IsFiniteSet((Callbacks \cup {BtCallback}) \cup {HexCallback})
  BY ExtConstants, FS_AddElement
<1>2. AllCallbacks = (Callbacks \cup {BtCallback}) \cup {HexCallback}
  BY DEF AllCallbacks
<1> QED
  BY <1>1, <1>2

\* Callbacks have one entry each.
LEMMA FitsNow == RegInv => TableFits
<1> SUFFICES ASSUME RegInv PROVE TableFits
  OBVIOUS
<1> DEFINE f == [i \in 1 .. Len(table) |-> table[i].callback]
<1>1. Len(table) \in Nat /\ \A i \in 1 .. Len(table) : table[i].callback \in AllCallbacks
  <2>1. \A i \in 1 .. Len(table) : table[i] \in [type : Nat, callback : AllCallbacks]
    BY ElementOfSeq DEF RegInv, RegTypes
  <2> QED
    BY <2>1, LenProperties DEF RegInv, RegTypes
<1>2. f \in Injection(1 .. Len(table), AllCallbacks)
  <2>1. f \in [1 .. Len(table) -> AllCallbacks] /\ \A i, j \in 1 .. Len(table) : f[i] = f[j] => i = j
    BY <1>1 DEF RegInv, TableInv
  <2> QED
    BY <2>1, Fun_IsInj
<1>4. Cardinality(1 .. Len(table)) <= Cardinality(AllCallbacks)
  BY <1>2, FiniteCallbacks, FS_Injection
<1>5. Cardinality(1 .. Len(table)) = Len(table)
  <2>1. Cardinality(1 .. Len(table)) = IF 1 > Len(table) THEN 0 ELSE Len(table) - 1 + 1
    BY <1>1, FS_Interval
  <2> QED
    BY <1>1, <2>1
<1> QED
  BY <1>4, <1>5 DEF TableFits

\* The table is never longer than there are callbacks, however many threads
\* register them and in whatever order: it is not written past its end.
THEOREM RegistryFits == Spec => []TableFits
  BY Reg, FitsNow, PTL

-----------------------------------------------------------------------------
(***************************************************************************)
(* Registrations implement TypeRegistry.                                   *)
(***************************************************************************)
Bindings == {<<table[i].type, table[i].callback>> : i \in 1 .. Len(table)}
Grants == [t \in Threads |-> Granted(t)]

\* The type given out next is a new one, within the table's size.
LEMMA NextIsNew ==
  ASSUME RegInv, TableFits', NEW t \in Threads, RegAppend(t), initialized
  PROVE  /\ next_event_type \in DynamicStart .. DynamicStart + MaxEntries
         /\ \A i \in 1 .. Len(table) : table[i].type # next_event_type
<1>1. next_event_type = NumberAt(Len(table) + 1) /\ Len(table) >= LAST /\ Len(table) \in Nat
  BY LenProperties DEF RegAppend, Goto, RegInv, RegTypes, TableInv, CallInv, Inside
<1>2. Len(table') = Len(table) + 1
  <2>1. cb[t] \in AllCallbacks
    BY DEF RegAppend, Goto, RegInv, CallInv, RegPCs, AllCallbacks
  <2>2. [type |-> next_event_type, callback |-> cb[t]] \in [type : Nat, callback : AllCallbacks]
    BY <2>1 DEF RegInv, RegTypes
  <2> QED
    BY <2>2, AppendProperties DEF RegAppend, RegInv, RegTypes
<1>3. Len(table) + 1 <= MaxEntries
  <2>2. Cardinality(AllCallbacks) \in Nat
    BY FiniteCallbacks, FS_CardinalityType
  <2>3. Len(table) + 1 <= Cardinality(AllCallbacks)
    BY <1>2 DEF TableFits, AllCallbacks
  <2> QED
    BY <1>1, <2>2, <2>3, ExtConstants
<1>4. \A i \in 1 .. Len(table) : table[i].type = NumberAt(i)
  BY DEF RegInv, TableInv
<1> QED
  BY <1>1, <1>3, <1>4, ExtConstants DEF NumberAt, LAST, HEXDUMP

\* A step of one thread leaves what the others were granted.
LEMMA OthersKeep ==
  ASSUME NEW t \in Threads,
         \A u \in Threads : u # t => UNCHANGED <<pc[u], cb[u], ret[u], held[u]>>,
         UNCHANGED next_event_type \/ \A u \in Threads : pc[u] = "reg_next" => u = t
  PROVE  /\ Grants' = [Grants EXCEPT ![t] = Granted(t)']
         /\ Granted(t)' = Granted(t) => Grants' = Grants
<1>1. \A u \in Threads : u # t => Granted(u)' = Granted(u)
  BY DEF Granted
<1>2. Grants' = [u \in Threads |-> Granted(u)'] /\ Grants = [u \in Threads |-> Granted(u)]
  BY DEF Grants
<1>3. Grants' = [Grants EXCEPT ![t] = Granted(t)']
  BY <1>1, <1>2
<1>4. ASSUME Granted(t)' = Granted(t)
      PROVE  Grants' = Grants
  BY <1>1, <1>2, <1>4
<1> QED
  BY <1>3, <1>4

\* Calls that leave the table and the last grants alone.
LEMMA GrantsAside ==
  ASSUME RegInv, NEW t \in Threads, UNCHANGED <<registry, ret, held>>,
         NEW to \in {"reg_spin", "reg_find"} \cup AsidePCs,
         pc' = [pc EXCEPT ![t] = to],
         pc[t] \in {"reg_spin"} \cup AsidePCs, \A u \in Threads : u # t => cb'[u] = cb[u]
  PROVE  UNCHANGED <<Bindings, Grants>>
<1>1. pc'[t] = to /\ \A u \in Threads : u # t => pc'[u] = pc[u]
  BY DEF RegInv, RegTypes
<1>2. Granted(t)' = Granted(t)
  BY <1>1 DEF Granted, AsidePCs, FillPCs, PrintPCs
<1>3. Grants' = Grants
  BY <1>1, <1>2, OthersKeep DEF registry
<1> QED
  BY <1>3 DEF Bindings, registry

LEMMA RegImplements ==
  ASSUME RegInv, RegInv', Next
  PROVE  TheRegistry!Next \/ UNCHANGED <<Bindings, Grants>>
<1> USE DEF registry, registering, logging
<1> DEFINE Answers(t, b) == Grants' = [Grants EXCEPT ![t] = b]
<1>1. CASE LibInit
  <2>1. \A t \in Threads : pc[t] = "idle"
    BY <1>1 DEF LibInit, Idle
  <2>2. Grants' = Grants
    BY <1>1, <2>1 DEF LibInit, Grants, Granted
  <2>3. Bindings' = {<<BT, BtCallback>>, <<HEXDUMP, HexCallback>>}
    <3>1. Len(BuiltInTable) = 2 /\ BuiltInTable[1] = [type |-> BT, callback |-> BtCallback]
          /\ BuiltInTable[2] = [type |-> HEXDUMP, callback |-> HexCallback]
      BY DEF BuiltInTable
    <3>2. 1 .. 2 = {1, 2}
      OBVIOUS
    <3> QED
      BY <1>1, <3>1, <3>2 DEF LibInit, Bindings
  <2> QED
    BY <2>2, <2>3 DEF TheRegistry!Next, TheRegistry!NewLife, Bindings, Grants
<1>2. CASE LibCleanup
  BY <1>2 DEF LibCleanup, Grants, Granted, Bindings
<1>3. ASSUME NEW t \in Threads, RegRefused(t)
      PROVE  TheRegistry!Next
  <2>1. Bindings = {} /\ Bindings' = Bindings
    BY <1>3 DEF RegRefused, RegInv, TableInv, Bindings
  <2>2. held'[t] = NoType /\ \A u \in Threads : u # t => held'[u] = held[u]
    BY <1>3 DEF RegRefused, RegInv, RegTypes
  <2>3. Granted(t)' = <<NONE, Null>>
    BY <1>3, <2>2 DEF RegRefused, Granted, NoType
  <2>4. Answers(t, <<NONE, Null>>)
    BY <1>3, <2>2, <2>3, OthersKeep DEF RegRefused
  <2> QED
    BY <2>1, <2>4 DEF TheRegistry!Next, TheRegistry!Refuse, TheRegistry!Grant, Bindings, Grants
<1>4. ASSUME NEW t \in Threads, NEW c \in Callbacks, RegTest(t, c)
      PROVE  UNCHANGED <<Bindings, Grants>>
  BY <1>4, GrantsAside DEF RegTest, Goto, RegInv, RegTypes, AsidePCs
<1>5. ASSUME NEW t \in Threads, NEW m \in Messages(t), NEW s \in Slots, LogTake(t, m, s)
      PROVE  UNCHANGED <<Bindings, Grants>>
  BY <1>5, GrantsAside DEF LogTake, Goto, AsidePCs, FillPCs
<1>6. ASSUME NEW t \in Threads, FillStep(t) \/ PrintStep(t)
      PROVE  UNCHANGED <<Bindings, Grants>>
  <2>1. PICK to \in AsidePCs : pc' = [pc EXCEPT ![t] = to] /\ pc[t] \in AsidePCs
    BY <1>6, FillFrame, PrintFrame DEF AsidePCs
  <2>2. UNCHANGED <<inited, registry, table_lock, registering, lives>>
    BY <1>6, FillFrame, PrintFrame
  <2> QED
    BY <2>1, <2>2, GrantsAside
<1>7. ASSUME NEW t \in Threads, RegSpin(t)
      PROVE  UNCHANGED <<Bindings, Grants>>
  BY <1>7, GrantsAside DEF RegSpin, Goto
<1>8. ASSUME NEW t \in Threads, RegFound(t)
      PROVE  TheRegistry!Next
  <2>1. PICK i \in 1 .. Len(table) : table[i].callback = cb[t] /\ ret' = [ret EXCEPT ![t] = table[i].type]
    BY <1>8 DEF RegFound, Known
  <2>2. /\ pc[t] = "reg_find" /\ pc'[t] = "reg_unlock" /\ ret'[t] = table[i].type
        /\ \A u \in Threads : u # t => pc'[u] = pc[u] /\ ret'[u] = ret[u]
    BY <1>8, <2>1 DEF RegFound, Goto, RegInv, RegTypes
  <2>3. Granted(t)' = <<table[i].type, table[i].callback>>
    BY <1>8, <2>1, <2>2 DEF RegFound, Granted
  <2>4. Answers(t, <<table[i].type, table[i].callback>>)
    BY <1>8, <2>2, <2>3, OthersKeep DEF RegFound
  <2>5. <<table[i].type, table[i].callback>> \in Bindings /\ table[i].callback \in Callbacks
    BY <2>1, <2>2 DEF Bindings, RegInv, CallInv, RegPCs
  <2>6. Bindings' = Bindings
    BY <1>8 DEF RegFound, Bindings
  <2> QED
    BY <2>4, <2>5, <2>6 DEF TheRegistry!Next, TheRegistry!Again, TheRegistry!Grant, Bindings, Grants
<1>9. ASSUME NEW t \in Threads, RegAppend(t)
      PROVE  TheRegistry!Next
  <2> DEFINE b == <<next_event_type, cb[t]>>
  <2>1. /\ pc[t] = "reg_find" /\ pc'[t] = "reg_next"
        /\ \A u \in Threads : u # t => pc'[u] = pc[u]
        /\ UNCHANGED <<next_event_type, cb, ret, held>>
    BY <1>9 DEF RegAppend, Goto, RegInv, RegTypes
  <2>2. initialized /\ cb[t] \in Callbacks
    BY <2>1 DEF RegInv, CallInv, RegPCs
  <2>3. Granted(t)' = b
    BY <2>1 DEF Granted
  <2>4. Answers(t, b)
    BY <2>1, <2>3, OthersKeep
  <2>5. /\ next_event_type \in DynamicStart .. DynamicStart + MaxEntries
        /\ \A i \in 1 .. Len(table) : table[i].type # next_event_type
    <3>1. TableFits'
      BY FitsNow, PTL
    <3> QED
      BY <1>9, <2>2, <3>1, NextIsNew
  <2>6. /\ \A c \in Bindings : c[1] # next_event_type
        /\ \A c \in Bindings : c[2] # cb[t]
    BY <1>9, <2>5 DEF Bindings, RegAppend, Known
  <2>7. Bindings' = Bindings \cup {b}
    <3>1. [type |-> next_event_type, callback |-> cb[t]] \in [type : Nat, callback : AllCallbacks]
      BY <2>2 DEF RegInv, RegTypes, AllCallbacks
    <3>2. /\ Len(table') = Len(table) + 1 /\ Len(table) \in Nat
          /\ \A i \in 1 .. Len(table) : table'[i] = table[i]
          /\ table'[Len(table) + 1] = [type |-> next_event_type, callback |-> cb[t]]
      BY <1>9, <3>1, AppendProperties, LenProperties DEF RegAppend, RegInv, RegTypes
    <3>3. 1 .. Len(table') = 1 .. Len(table) \cup {Len(table) + 1}
      BY <3>2
    <3> QED
      BY <3>2, <3>3 DEF Bindings
  <2>8. \E f \in Callbacks : TheRegistry!Bind(t, f)
    BY <2>2, <2>4, <2>5, <2>6, <2>7 DEF TheRegistry!Bind, TheRegistry!Grant, Bindings, Grants
  <2> QED
    BY <2>8 DEF TheRegistry!Next
<1>10. ASSUME NEW t \in Threads, RegNext(t)
       PROVE  UNCHANGED <<Bindings, Grants>>
  <2>1. /\ pc[t] = "reg_next" /\ pc'[t] = "reg_unlock" /\ ret'[t] = next_event_type
        /\ \A u \in Threads : u # t => pc'[u] = pc[u] /\ ret'[u] = ret[u]
        /\ UNCHANGED <<table, cb, held>>
    BY <1>10 DEF RegNext, Goto, RegInv, RegTypes
  <2>2. \A u \in Threads : pc[u] = "reg_next" => u = t
    BY <2>1 DEF RegInv, CallInv, Inside
  <2>3. Granted(t)' = Granted(t)
    BY <2>1 DEF Granted
  <2>4. Grants' = Grants
    BY <2>1, <2>2, <2>3, OthersKeep
  <2> QED
    BY <2>1, <2>4 DEF Bindings
<1>11. ASSUME NEW t \in Threads, RegUnlock(t)
       PROVE  UNCHANGED <<Bindings, Grants>>
  <2>1. /\ pc[t] = "reg_unlock" /\ pc'[t] = "idle"
        /\ held'[t].type = ret[t] /\ held'[t].callback = cb[t]
        /\ \A u \in Threads : u # t => UNCHANGED <<pc[u], cb[u], ret[u], held[u]>>
        /\ UNCHANGED <<table, next_event_type>>
    BY <1>11 DEF RegUnlock, Goto, RegInv, RegTypes
  <2>2. Granted(t)' = Granted(t)
    BY <2>1 DEF Granted
  <2>3. Grants' = Grants
    BY <2>1, <2>2, OthersKeep
  <2> QED
    BY <2>1, <2>3 DEF Bindings
<1> QED
  BY <1>1, <1>2, <1>3, <1>4, <1>5, <1>6, <1>7, <1>8, <1>9, <1>10, <1>11 DEF Next, RegStep

\* Registrations by any number of threads are atomic: each returns the one
\* type its callback has, and bindings last until the next qlog_init.
THEOREM RegistryRefined == Spec => ImplementsTypeRegistry
<1>1. Init => TheRegistry!Init
  <2> SUFFICES ASSUME Init PROVE TheRegistry!Init
    OBVIOUS
  <2>1. \A t \in Threads : Granted(t) = <<NONE, Null>>
    BY DEF Init, Granted, NoType
  <2> QED
    BY <2>1 DEF Init, TheRegistry!Init
<1>2. RegInv /\ RegInv' /\ [Next]_vars => [TheRegistry!Next]_<<Bindings, Grants>>
  <2> SUFFICES ASSUME RegInv, RegInv', [Next]_vars
               PROVE  [TheRegistry!Next]_<<Bindings, Grants>>
    OBVIOUS
  <2>1. CASE UNCHANGED vars
    BY <2>1 DEF vars, registry, registering, Bindings, Grants, Granted
  <2> QED
    BY <2>1, RegImplements
<1> QED
  BY Reg, <1>1, <1>2, PTL DEF Spec, ImplementsTypeRegistry, TheRegistry!Spec, Bindings, Grants

-----------------------------------------------------------------------------
(***************************************************************************)
(* The extended data of events.                                            *)
(***************************************************************************)
EventTypes == [lock : BOOLEAN, ext_data : Data, ext_data_size : Data,
               ext_event_type : Nat, ext_print_cb : Data, fresh : BOOLEAN]

\* A type with an entry, which is that of the data unless the type is stale.
Meant(m) ==
  \E i \in 1 .. Len(table) :
    table[i].type = m.type /\ (m.fresh => table[i].callback = m.data)

FillAtCb == {"fill_data", "fill_type", "fill_cb", "fill_size"}
Emptied == {"fill_drop_size", "fill_drop_type", "fill_data"}

\* An event without data has no size either; with data it can be printed.
Ready(e) == IF e.ext_data = Null THEN e.ext_data_size = Null ELSE Printable(e)

\* The size is stored last: who finds data and size finds the rest.
SizeLast(e) == e.ext_data # Null /\ e.ext_data_size # Null => Printable(e)

\* How much of message m event e holds when a log call is at place p.
Filled(p, m, e) ==
  /\ m.type # NONE => m.data # Null /\ Meant(m)
  /\ p \in FillAtCb => m.type # NONE
  /\ p \in {"fill_clear", "fill_done"} => Ready(e)
  /\ p \in Emptied => e.ext_data = Null
  /\ p \in Emptied /\ p # "fill_drop_size" => e.ext_data_size = Null
  /\ p \in {"fill_type", "fill_cb", "fill_size"} =>
       e.ext_data = m.data /\ e.fresh = m.fresh /\ e.ext_data_size = Null
  /\ p \in {"fill_cb", "fill_size"} => e.ext_event_type = m.type
  /\ p = "fill_size" => e.ext_print_cb # Null /\ (m.fresh => e.ext_print_cb = m.data)

Fits(e) == Printable(e) /\ e.fresh => e.ext_print_cb = e.ext_data /\ e.ext_data_size = e.ext_data

FillInv ==
  /\ events \in [Slots -> EventTypes]
  /\ slot \in [Threads -> Slots \cup {Null}]
  /\ msg \in [Threads -> [type : Nat, data : Data, fresh : BOOLEAN]]
  /\ \A t \in Threads : pc[t] \in FillPCs =>
       slot[t] \in Slots /\ events[slot[t]].lock /\ Filled(pc[t], msg[t], events[slot[t]])
  /\ \A t, u \in Threads : pc[t] \in FillPCs /\ pc[u] \in FillPCs /\ slot[t] = slot[u] => t = u
  /\ \A s \in Slots : Fits(events[s]) /\ SizeLast(events[s])
  /\ \A s \in Slots : ~events[s].lock => Ready(events[s])

LEMMA FillInit == Init => FillInv
<1> SUFFICES ASSUME Init PROVE FillInv
  OBVIOUS
<1>1. EmptyEvent \in EventTypes /\ EmptyEvent.ext_data = Null /\ EmptyEvent.ext_data_size = Null
  BY DEF EmptyEvent, EventTypes, Data, NONE
<1>2. Plain \in [type : Nat, data : Data, fresh : BOOLEAN]
  BY DEF Plain, NONE, Data
<1> QED
  BY <1>1, <1>2 DEF Init, FillInv, FillPCs, Fits, SizeLast, Ready, Printable

\* The lookup of a type that has an entry finds the callback of that entry.
LEMMA LookupFinds ==
  ASSUME RegInv, NEW m, Meant(m)
  PROVE  PrintCb(m.type) \in AllCallbacks /\ (m.fresh => PrintCb(m.type) = m.data)
<1>1. PICK i \in 1 .. Len(table) : table[i].type = m.type /\ (m.fresh => table[i].callback = m.data)
  BY DEF Meant
<1>2. Len(table) \in Nat /\ table[i].callback \in AllCallbacks
  <2>1. table[i] \in [type : Nat, callback : AllCallbacks]
    BY ElementOfSeq DEF RegInv, RegTypes
  <2> QED
    BY <2>1, LenProperties DEF RegInv, RegTypes
<1>3. {j \in 1 .. Len(table) : table[j].type = m.type} = {i}
  <2>1. ASSUME NEW j \in 1 .. Len(table), table[j].type = m.type
        PROVE  j = i
    <3>1. NumberAt(i) = NumberAt(j)
      BY <1>1, <2>1 DEF RegInv, TableInv
    <3> QED
      <4>1. DynamicStart \in Nat /\ DynamicStart > 2
        BY ExtConstants DEF LAST, HEXDUMP
      <4>2. i \in Nat /\ j \in Nat
        BY <1>1, <1>2, <2>1
      <4> QED
        BY <3>1, <4>1, <4>2 DEF NumberAt, LAST, HEXDUMP
  <2> QED
    BY <1>1, <2>1
<1>4. (CHOOSE j \in {i} : \A k \in {i} : j <= k) = i
  BY <1>2
<1> QED
  BY <1>1, <1>2, <1>3, <1>4 DEF PrintCb

\* A message whose type passes the test has data and an entry.
LEMMA ValidIsMeant ==
  ASSUME RegInv, NEW t \in Threads, NEW m \in Messages(t), m.type # NONE,
         initialized, IsValid(m.type)
  PROVE  m.data # Null /\ Meant(m)
<1>0. Len(table) \in Nat
  BY LenProperties DEF RegInv, RegTypes
<1>1. /\ Len(table) \in Nat /\ Len(table) >= LAST
      /\ \A i \in 1 .. Len(table) : table[i].type = NumberAt(i)
      /\ table[BT].callback = BtCallback /\ table[HEXDUMP].callback = HexCallback
  BY LenProperties DEF RegInv, RegTypes, TableInv
<1>2. \E i \in 1 .. Len(table) : table[i].type = m.type
  <2>1. next_event_type <= DynamicStart + Len(table) - LAST
    BY <1>1, ExtConstants DEF RegInv, TableInv, CallInv, NumberAt, LAST, HEXDUMP
  <2>2. m.type \in Nat
    BY DEF Messages, Plain, BuiltIn, Held, RegInv, RegTypes, NONE, BT, HEXDUMP
  <2>3. CASE m.type > NONE /\ m.type <= LAST
    BY <1>1, <2>2, <2>3 DEF NumberAt, NONE, LAST, HEXDUMP
  <2>4. CASE m.type >= DynamicStart /\ m.type < next_event_type
    <3> DEFINE i == m.type - DynamicStart + LAST + 1
    <3>1. i \in 1 .. Len(table) /\ i > LAST
      <4>1. DynamicStart \in Nat /\ DynamicStart > LAST /\ next_event_type \in Nat
        BY ExtConstants DEF RegInv, RegTypes
      <4> QED
        BY <1>0, <2>1, <2>2, <2>4, <4>1 DEF LAST, HEXDUMP
    <3>2. NumberAt(i) = m.type
      BY <2>2, <3>1, ExtConstants DEF NumberAt, LAST, HEXDUMP
    <3> QED
      BY <1>1, <3>1, <3>2
  <2> QED
    BY <2>3, <2>4 DEF IsValid
<1>3. CASE m = BuiltIn(BT, BtCallback) \/ m = BuiltIn(HEXDUMP, HexCallback)
  BY <1>1, <1>3, ExtConstants DEF BuiltIn, Meant, AllCallbacks, NumberAt, LAST, HEXDUMP, BT
<1>4. CASE m = Held(t)
  <2>1. m.type = held[t].type /\ m.data = held[t].callback /\ (m.fresh => held[t].life = lives)
    BY <1>4 DEF Held
  <2>2. m.fresh => Bound(m.type, m.data)
    BY <2>1 DEF RegInv, TableInv, CallInv
  <2> QED
    BY <1>2, <2>1, <2>2 DEF Meant, Bound, RegInv, CallInv
<1> QED
  BY <1>3, <1>4 DEF Messages, Plain

\* A log call goes from a place to another and stores e in the event that it
\* has, or that nobody has.
LEMMA FillOne ==
  ASSUME RegInv, FillInv, NEW t \in Threads, NEW s \in Slots, NEW e \in EventTypes,
         \/ pc[t] \in FillPCs /\ s = slot[t]
         \/ pc[t] = "idle" /\ ~events[s].lock,
         NEW to \in {"idle"} \cup FillPCs, pc' = [pc EXCEPT ![t] = to],
         events' = [events EXCEPT ![s] = e], UNCHANGED table,
         slot' \in [Threads -> Slots \cup {Null}],
         msg' \in [Threads -> [type : Nat, data : Data, fresh : BOOLEAN]],
         \A u \in Threads : u # t => msg'[u] = msg[u] /\ slot'[u] = slot[u],
         to # "idle" => slot'[t] = s /\ e.lock /\ Filled(to, msg'[t], e),
         Fits(e), SizeLast(e), ~e.lock => Ready(e)
  PROVE  FillInv'
<1>1. /\ pc'[t] = to /\ \A u \in Threads : u # t => pc'[u] = pc[u]
      /\ events' \in [Slots -> EventTypes] /\ events'[s] = e
      /\ \A r \in Slots : r # s => events'[r] = events[r]
  BY DEF RegInv, RegTypes, FillInv
<1>2. \A u \in Threads : u # t /\ pc[u] \in FillPCs => slot[u] # s
  BY DEF FillInv
<1>3. ASSUME NEW u \in Threads, pc'[u] \in FillPCs
      PROVE  /\ slot'[u] \in Slots /\ events'[slot'[u]].lock
             /\ Filled(pc'[u], msg'[u], events'[slot'[u]])
  <2>1. CASE u = t
    BY <1>1, <1>3, <2>1 DEF FillPCs
  <2>2. CASE u # t
    BY <1>1, <1>2, <1>3, <2>2 DEF FillInv
  <2> QED
    BY <2>1, <2>2
<1>4. \A p, m, d : Filled(p, m, d) => Filled(p, m, d)'
  BY DEF Filled, Meant, Printable, Ready
<1>5. \A u, v \in Threads : pc'[u] \in FillPCs /\ pc'[v] \in FillPCs /\ slot'[u] = slot'[v] => u = v
  BY <1>1, <1>2 DEF FillInv, FillPCs
<1>6. \A r \in Slots : Fits(events'[r]) /\ SizeLast(events'[r])
  BY <1>1 DEF FillInv
<1>7. \A r \in Slots : ~events'[r].lock => Ready(events'[r])
  BY <1>1 DEF FillInv
<1> QED
  BY <1>1, <1>3, <1>4, <1>5, <1>6, <1>7
  DEF FillInv, Fits, SizeLast, Ready, Printable, Filled, Meant

LEMMA FillHolds == RegInv /\ FillInv /\ [Next]_vars => FillInv'
<1> SUFFICES ASSUME RegInv, FillInv, [Next]_vars PROVE FillInv'
  OBVIOUS
<1> USE DEF registry, registering, logging
<1>1. ASSUME UNCHANGED <<events, msg>>, slot' \in [Threads -> Slots \cup {Null}],
             \A t \in Threads : pc'[t] \in FillPCs => pc'[t] = pc[t] /\ slot'[t] = slot[t],
             \A m : (\E t \in Threads : pc[t] \in FillPCs) /\ Meant(m) => Meant(m)'
      PROVE  FillInv'
  <2>1. ASSUME NEW t \in Threads, pc'[t] \in FillPCs
        PROVE  Filled(pc[t], msg[t], events[slot[t]])'
    BY <1>1, <2>1 DEF FillInv, Filled, Ready, Printable
  <2> QED
    BY <1>1, <2>1 DEF FillInv, Fits, SizeLast, Ready, Printable
<1>2. CASE LibInit \/ LibCleanup
  <2>1. /\ events' = [s \in Slots |-> EmptyEvent] /\ UNCHANGED <<pc, msg, slot>>
        /\ \A t \in Threads : pc[t] = "idle"
    BY <1>2 DEF LibInit, LibCleanup, Idle
  <2>2. /\ EmptyEvent \in EventTypes
        /\ EmptyEvent.ext_data = Null /\ EmptyEvent.ext_data_size = Null
    BY DEF EmptyEvent, EventTypes, Data, NONE
  <2> QED
    BY <2>1, <2>2 DEF FillInv, FillPCs, Fits, SizeLast, Ready, Printable
<1>3. ASSUME NEW t \in Threads,
             RegRefused(t) \/ (\E c \in Callbacks : RegTest(t, c)) \/ RegStep(t)
      PROVE  FillInv'
  <2>1. UNCHANGED <<events, msg, slot>>
    BY <1>3 DEF RegRefused, RegTest, RegStep, RegSpin, RegFound, RegAppend, RegNext, RegUnlock
  <2>2. \A u \in Threads : pc'[u] \in FillPCs => pc'[u] = pc[u]
    BY <1>3 DEF RegRefused, RegTest, RegStep, RegSpin, RegFound, RegAppend, RegNext, RegUnlock,
                Goto, FillPCs, RegInv, RegTypes
  <2>3. \A m : Meant(m) => Meant(m)'
    <3>1. CASE RegAppend(t)
      <4>1. cb[t] \in AllCallbacks
        BY <3>1 DEF RegAppend, Goto, RegInv, CallInv, RegPCs, AllCallbacks
      <4>2. [type |-> next_event_type, callback |-> cb[t]] \in [type : Nat, callback : AllCallbacks]
        BY <4>1 DEF RegInv, RegTypes
      <4>3. /\ Len(table') = Len(table) + 1 /\ Len(table) \in Nat
            /\ \A i \in 1 .. Len(table) : table'[i] = table[i]
        BY <3>1, <4>2, AppendProperties, LenProperties DEF RegAppend, RegInv, RegTypes
      <4> QED
        BY <4>3 DEF Meant
    <3>2. CASE UNCHANGED table
      BY <3>2 DEF Meant
    <3> QED
      BY <1>3, <3>1, <3>2 DEF RegRefused, RegTest, RegStep, RegSpin, RegFound, RegNext, RegUnlock
  <2>4. slot' \in [Threads -> Slots \cup {Null}]
    BY <2>1 DEF FillInv
  <2> QED
    BY <1>1, <2>1, <2>2, <2>3, <2>4
<1>4. ASSUME NEW t \in Threads, NEW m \in Messages(t), NEW s \in Slots, LogTake(t, m, s)
      PROVE  FillInv'
  <2>1. /\ pc[t] = "idle" /\ pc'[t] = "fill_clear" /\ \A u \in Threads : u # t => pc'[u] = pc[u]
        /\ ~events[s].lock /\ UNCHANGED table
    BY <1>4 DEF LogTake, Goto, RegInv, RegTypes
  <2>2. m.type # NONE => m.data # Null /\ Meant(m)
    BY <1>4, ValidIsMeant DEF LogTake
  <2>3. m \in [type : Nat, data : Data, fresh : BOOLEAN]
    <3>1. CASE m = Plain
      BY <3>1 DEF Plain, NONE, Data
    <3>3. CASE m = BuiltIn(BT, BtCallback) \/ m = BuiltIn(HEXDUMP, HexCallback)
      <4>1. \A n \in Nat, d \in Data : BuiltIn(n, d) \in [type : Nat, data : Data, fresh : BOOLEAN]
        BY DEF BuiltIn
      <4>2. BT \in Nat /\ HEXDUMP \in Nat /\ BtCallback \in Data /\ HexCallback \in Data
        BY DEF BT, HEXDUMP, Data, AllCallbacks
      <4> QED
        BY <3>3, <4>1, <4>2
    <3>2. CASE m = Held(t)
      <4>1. held[t].type \in Nat /\ held[t].callback \in Data /\ (held[t].life = lives) \in BOOLEAN
        BY DEF RegInv, RegTypes
      <4> QED
        BY <3>2, <4>1 DEF Held
    <3> QED
      BY <3>1, <3>2, <3>3 DEF Messages
  <2>4. /\ msg' \in [Threads -> [type : Nat, data : Data, fresh : BOOLEAN]]
        /\ msg'[t] = m /\ \A u \in Threads : u # t => msg'[u] = msg[u]
    BY <1>4, <2>3 DEF LogTake, FillInv
  <2>5. /\ slot' \in [Threads -> Slots \cup {Null}]
        /\ slot'[t] = s /\ \A u \in Threads : u # t => slot'[u] = slot[u]
    BY <1>4 DEF LogTake, FillInv
  <2> DEFINE e == [events[s] EXCEPT !.lock = TRUE]
  <2>6. /\ events[s] \in EventTypes /\ Fits(events[s]) /\ SizeLast(events[s])
        /\ Ready(events[s])
    BY <2>1 DEF FillInv
  <2>7. /\ e \in EventTypes /\ e.lock
        /\ e.ext_data = events[s].ext_data /\ e.ext_data_size = events[s].ext_data_size
        /\ e.ext_event_type = events[s].ext_event_type
        /\ e.ext_print_cb = events[s].ext_print_cb /\ e.fresh = events[s].fresh
    BY <2>6 DEF EventTypes
  <2>8. Filled("fill_clear", m, e) /\ Fits(e) /\ SizeLast(e)
    BY <2>2, <2>6, <2>7 DEF Filled, FillAtCb, Emptied, Fits, SizeLast, Ready, Printable
  <2>9. pc' = [pc EXCEPT ![t] = "fill_clear"] /\ events' = [events EXCEPT ![s] = e]
    BY <1>4 DEF LogTake, Goto
  <2> HIDE DEF e
  <2> QED
    BY <2>1, <2>4, <2>5, <2>6, <2>7, <2>8, <2>9, FillOne, ZenonT(60) DEF FillPCs
<1>5. ASSUME NEW t \in Threads, FillStep(t)
      PROVE  FillInv'
  <2> DEFINE s == slot[t]
             d == events[s]
             m == msg[t]
             Becomes(from, to, e) ==
               /\ pc[t] = from /\ pc' = [pc EXCEPT ![t] = to]
               /\ events' = [events EXCEPT ![s] = e]
  <2>1. /\ pc[t] \in FillPCs /\ s \in Slots /\ d \in EventTypes /\ d.lock
        /\ Filled(pc[t], m, d) /\ Fits(d) /\ SizeLast(d)
        /\ m \in [type : Nat, data : Data, fresh : BOOLEAN]
    <3>1. pc[t] \in FillPCs
      BY <1>5, FillFrame
    <3> QED
      BY <3>1 DEF FillInv
  <2>2. UNCHANGED table
    BY <1>5, FillFrame
  <2>3. ASSUME NEW from, NEW to \in FillPCs, NEW e, Becomes(from, to, e),
               UNCHANGED <<msg, slot>>,
               e \in EventTypes, e.lock, Filled(to, m, e), Fits(e), SizeLast(e)
        PROVE  FillInv'
    <3>1. /\ slot' \in [Threads -> Slots \cup {Null}]
          /\ msg' \in [Threads -> [type : Nat, data : Data, fresh : BOOLEAN]]
          /\ \A u \in Threads : u # t => msg'[u] = msg[u] /\ slot'[u] = slot[u]
      BY <2>3 DEF FillInv
    <3>2. slot'[t] = s /\ Filled(to, msg'[t], e)
      BY <2>3
    <3>3. pc' = [pc EXCEPT ![t] = to] /\ events' = [events EXCEPT ![s] = e]
      BY <2>3
    <3>4. pc[t] \in FillPCs /\ s = slot[t] /\ s \in Slots
      BY <2>1
    <3> HIDE DEF s, m, d, Becomes
    <3> QED
      BY <2>2, <2>3, <3>1, <3>2, <3>3, <3>4, FillOne
  <2>4. CASE FillEmpty(t)
    <3> DEFINE to == AfterClear(t)
    <3>1. /\ pc[t] = "fill_clear" /\ d.ext_data = Null
          /\ Becomes("fill_clear", to, d) /\ UNCHANGED <<msg, slot>>
      BY <2>4 DEF FillEmpty, Fill, Goto
    <3>2. Filled(to, m, d)
      BY <2>1, <3>1 DEF Filled, FillAtCb, Emptied, Ready, AfterClear
    <3>3. to \in FillPCs
      BY DEF AfterClear, FillPCs
    <3> HIDE DEF s, m, d, to, Becomes
    <3> QED
      BY <2>1, <2>3, <3>1, <3>2, <3>3
  <2>10. CASE FillDrop(t)
    <3> DEFINE e == [d EXCEPT !.ext_data = Null]
    <3>1. /\ pc[t] = "fill_clear" /\ UNCHANGED <<msg, slot>>
          /\ Becomes("fill_clear", "fill_drop_size", e)
      BY <2>10 DEF FillDrop, Goto
    <3>2. e \in EventTypes /\ e.lock /\ e.ext_data = Null
      BY <2>1 DEF EventTypes, Data
    <3>3. Fits(e) /\ SizeLast(e) /\ Filled("fill_drop_size", m, e)
      BY <2>1, <3>1, <3>2 DEF Fits, SizeLast, Printable, Filled, FillAtCb, Emptied
    <3> HIDE DEF s, m, d, e, Becomes
    <3> QED
      BY <2>3, <3>1, <3>2, <3>3 DEF FillPCs
  <2>11. CASE FillDropSize(t)
    <3> DEFINE e == WithoutSize(d)
    <3>1. /\ pc[t] = "fill_drop_size" /\ UNCHANGED <<msg, slot>>
          /\ Becomes("fill_drop_size", "fill_drop_type", e)
      BY <2>11 DEF FillDropSize, Fill, Goto
    <3>2. e \in EventTypes /\ e.lock /\ e.ext_data = Null /\ e.ext_data_size = Null
      BY <2>1, <3>1 DEF EventTypes, Data, WithoutSize, Filled, Emptied
    <3>3. Fits(e) /\ SizeLast(e) /\ Filled("fill_drop_type", m, e)
      BY <2>1, <3>1, <3>2 DEF Fits, SizeLast, Printable, Filled, FillAtCb, Emptied
    <3> HIDE DEF s, m, d, e, Becomes
    <3> QED
      BY <2>3, <3>1, <3>2, <3>3 DEF FillPCs
  <2>12. CASE FillDropType(t)
    <3> DEFINE e == [d EXCEPT !.ext_event_type = NONE]
               to == AfterClear(t)
    <3>1. /\ pc[t] = "fill_drop_type" /\ UNCHANGED <<msg, slot>>
          /\ Becomes("fill_drop_type", to, e)
      BY <2>12 DEF FillDropType, Fill, Goto
    <3>2. e \in EventTypes /\ e.lock /\ e.ext_data = Null /\ e.ext_data_size = Null
      BY <2>1, <3>1 DEF EventTypes, NONE, Filled, Emptied
    <3>3. Fits(e) /\ SizeLast(e) /\ Filled(to, m, e)
      BY <2>1, <3>1, <3>2 DEF Fits, SizeLast, Printable, Filled, FillAtCb, Emptied, Ready, AfterClear
    <3>4. to \in FillPCs
      BY DEF AfterClear, FillPCs
    <3> HIDE DEF s, m, d, e, to, Becomes
    <3> QED
      BY <2>3, <3>1, <3>2, <3>3, <3>4
  <2>5. CASE FillData(t)
    <3> DEFINE e == [d EXCEPT !.ext_data = m.data, !.fresh = m.fresh]
    <3>1. /\ pc[t] = "fill_data" /\ UNCHANGED <<msg, slot>>
          /\ Becomes("fill_data", "fill_type", e)
      BY <2>5 DEF FillData, Fill, Goto
    <3>2. /\ d.ext_data = Null /\ d.ext_data_size = Null
          /\ m.type # NONE /\ m.data # Null /\ Meant(m)
      BY <2>1, <3>1 DEF Filled, FillAtCb, Emptied
    <3>3. /\ e \in EventTypes /\ e.lock /\ e.ext_data = m.data /\ e.fresh = m.fresh
          /\ e.ext_data_size = Null
      BY <2>1, <3>2 DEF EventTypes
    <3>4. Fits(e) /\ SizeLast(e) /\ Filled("fill_type", m, e)
      BY <3>2, <3>3 DEF Fits, SizeLast, Printable, Filled, FillAtCb, Emptied, Ready
    <3> HIDE DEF s, m, d, e, Becomes
    <3> QED
      BY <2>3, <3>1, <3>2, <3>3, <3>4 DEF FillPCs
  <2>6. CASE FillType(t)
    <3> DEFINE e == [d EXCEPT !.ext_event_type = m.type]
    <3>1. /\ pc[t] = "fill_type" /\ UNCHANGED <<msg, slot>>
          /\ Becomes("fill_type", "fill_cb", e)
      BY <2>6 DEF FillType, Fill, Goto
    <3>2. /\ d.ext_data = m.data /\ d.fresh = m.fresh /\ d.ext_data_size = Null
          /\ m.type # NONE /\ m.data # Null /\ Meant(m)
      BY <2>1, <3>1 DEF Filled, FillAtCb, Emptied
    <3>3. /\ e \in EventTypes /\ e.lock /\ e.ext_data = m.data /\ e.fresh = m.fresh
          /\ e.ext_data_size = Null /\ e.ext_event_type = m.type
      BY <2>1, <3>2 DEF EventTypes
    <3>4. Fits(e) /\ SizeLast(e) /\ Filled("fill_cb", m, e)
      BY <3>2, <3>3 DEF Fits, SizeLast, Printable, Filled, FillAtCb, Emptied, Ready
    <3> HIDE DEF s, m, d, e, Becomes
    <3> QED
      BY <2>3, <3>1, <3>2, <3>3, <3>4 DEF FillPCs
  <2>7. CASE FillCallback(t)
    <3> DEFINE e == [d EXCEPT !.ext_print_cb = PrintCb(m.type)]
    <3>1. /\ pc[t] = "fill_cb" /\ UNCHANGED <<msg, slot>>
          /\ Becomes("fill_cb", "fill_size", e)
      BY <2>7 DEF FillCallback, Fill, Goto
    <3>2. /\ d.ext_data = m.data /\ d.fresh = m.fresh /\ d.ext_data_size = Null
          /\ d.ext_event_type = m.type /\ m.type # NONE /\ m.data # Null /\ Meant(m)
      BY <2>1, <3>1 DEF Filled, FillAtCb, Emptied
    <3>3. PrintCb(m.type) \in AllCallbacks /\ (m.fresh => PrintCb(m.type) = m.data)
      BY <3>2, LookupFinds
    <3>4. PrintCb(m.type) \in Data /\ PrintCb(m.type) # Null
      BY <3>3, ExtConstants DEF Data
    <3>5. /\ e \in EventTypes /\ e.lock /\ e.ext_data = m.data /\ e.fresh = m.fresh
          /\ e.ext_data_size = Null /\ e.ext_event_type = m.type /\ e.ext_print_cb = PrintCb(m.type)
      BY <2>1, <3>2, <3>4 DEF EventTypes
    <3>6. Fits(e) /\ SizeLast(e) /\ Filled("fill_size", m, e)
      BY <3>2, <3>3, <3>4, <3>5 DEF Fits, SizeLast, Printable, Filled, FillAtCb, Emptied, Ready
    <3> HIDE DEF s, m, d, e, Becomes
    <3> QED
      BY <2>3, <3>1, <3>2, <3>5, <3>6 DEF FillPCs
  <2>8. CASE FillSize(t)
    <3> DEFINE e == [d EXCEPT !.ext_data_size = m.data]
    <3>1. /\ pc[t] = "fill_size" /\ UNCHANGED <<msg, slot>>
          /\ Becomes("fill_size", "fill_done", e)
      BY <2>8 DEF FillSize, Fill, Goto
    <3>2. /\ d.ext_data = m.data /\ d.fresh = m.fresh /\ d.ext_event_type = m.type
          /\ d.ext_print_cb # Null /\ (m.fresh => d.ext_print_cb = m.data)
          /\ m.type # NONE /\ m.data # Null /\ Meant(m)
      BY <2>1, <3>1 DEF Filled, FillAtCb, Emptied
    <3>3. /\ e \in EventTypes /\ e.lock /\ e.ext_data = m.data /\ e.fresh = m.fresh
          /\ e.ext_data_size = m.data /\ e.ext_event_type = m.type
          /\ e.ext_print_cb = d.ext_print_cb
      BY <2>1, <3>2 DEF EventTypes
    <3>4. Fits(e) /\ SizeLast(e) /\ Filled("fill_done", m, e)
      BY <3>2, <3>3 DEF Fits, SizeLast, Printable, Filled, FillAtCb, Emptied, Ready
    <3> HIDE DEF s, m, d, e, Becomes
    <3> QED
      BY <2>3, <3>1, <3>2, <3>3, <3>4 DEF FillPCs
  <2>9. CASE FillDone(t)
    <3> DEFINE e == [d EXCEPT !.lock = FALSE]
    <3>1. /\ Becomes("fill_done", "idle", e)
          /\ msg' = [msg EXCEPT ![t] = Plain] /\ slot' = [slot EXCEPT ![t] = Null]
      BY <2>9 DEF FillDone, Goto
    <3>2. Ready(d)
      BY <2>1, <3>1 DEF Filled
    <3>3. /\ e \in EventTypes /\ e.ext_data = d.ext_data /\ e.ext_data_size = d.ext_data_size
          /\ e.ext_event_type = d.ext_event_type
          /\ e.ext_print_cb = d.ext_print_cb /\ e.fresh = d.fresh
      BY <2>1 DEF EventTypes
    <3>4. Fits(e) /\ SizeLast(e) /\ Ready(e)
      BY <2>1, <3>2, <3>3 DEF Fits, SizeLast, Ready, Printable
    <3>5. /\ slot' \in [Threads -> Slots \cup {Null}]
          /\ msg' \in [Threads -> [type : Nat, data : Data, fresh : BOOLEAN]]
          /\ \A u \in Threads : u # t => msg'[u] = msg[u] /\ slot'[u] = slot[u]
      <4>1. Plain \in [type : Nat, data : Data, fresh : BOOLEAN]
        BY DEF Plain, NONE, Data
      <4> QED
        BY <3>1, <4>1 DEF FillInv
    <3> HIDE DEF s, m, d, e
    <3> QED
      BY <2>1, <2>2, <3>1, <3>3, <3>4, <3>5, FillOne, ZenonT(60) DEF s
  <2> QED
    BY <1>5, <2>4, <2>5, <2>6, <2>7, <2>8, <2>9, <2>10, <2>11, <2>12 DEF FillStep
<1>6. ASSUME NEW t \in Threads, PrintStep(t)
      PROVE  FillInv'
  <2>1. UNCHANGED <<events, msg, table>> /\ slot' \in [Threads -> Slots \cup {Null}]
    BY <1>6, PrintFrame DEF FillInv
  <2>2. PICK to \in {"idle"} \cup PrintPCs : pc' = [pc EXCEPT ![t] = to]
    BY <1>6, PrintFrame
  <2>3. \A u \in Threads : u # t => slot'[u] = slot[u]
    BY <1>6, PrintFrame DEF FillInv
  <2>4. \A u \in Threads : pc'[u] \in FillPCs => u # t /\ pc'[u] = pc[u]
    BY <2>2 DEF RegInv, RegTypes, FillPCs, PrintPCs
  <2> QED
    BY <1>1, <2>1, <2>3, <2>4 DEF Meant
<1>7. CASE UNCHANGED vars
  <2>1. slot' \in [Threads -> Slots \cup {Null}]
    BY <1>7 DEF vars, FillInv
  <2> QED
    BY <1>1, <1>7, <2>1 DEF vars, Meant
<1> QED
  BY <1>2, <1>3, <1>4, <1>5, <1>6, <1>7 DEF Next

(***************************************************************************)
(* Prints.                                                                 *)
(***************************************************************************)
\* What a print has found in its event is still there, unless a fill has
\* dropped the event's data meanwhile; the callback stays in any case.
PrintInv ==
  /\ dropped \in [Threads -> BOOLEAN]
  /\ \A t \in Threads : pc[t] \in PrintPCs => slot[t] \in Slots
  /\ \A t \in Threads : pc[t] \in {"print_size", "print_cb", "print_call"} /\ ~dropped[t] =>
       events[slot[t]].ext_data # Null
  /\ \A t \in Threads : pc[t] \in {"print_cb", "print_call"} /\ ~dropped[t] =>
       events[slot[t]].ext_data_size # Null
  /\ \A t \in Threads : pc[t] = "print_call" => events[slot[t]].ext_print_cb # Null

LEMMA PrintInit == Init => PrintInv
BY DEF Init, PrintInv, PrintPCs

\* A step that is not a print's puts e in place of d, and drops no data but
\* that of prints it takes down.
LEMMA PrintOne ==
  ASSUME FillInv, PrintInv, NEW s \in Slots, NEW e,
         events' = [events EXCEPT ![s] = e],
         \A u \in Threads : pc'[u] \in PrintPCs => pc'[u] = pc[u] /\ slot'[u] = slot[u],
         dropped' \in [Threads -> BOOLEAN], \A u \in Threads : dropped[u] => dropped'[u],
         \A u \in Threads : pc[u] \in PrintPCs /\ slot[u] = s /\ ~dropped'[u] =>
           /\ events[s].ext_data # Null => e.ext_data # Null
           /\ events[s].ext_data # Null /\ events[s].ext_data_size # Null =>
                e.ext_data_size # Null,
         events[s].ext_print_cb # Null => e.ext_print_cb # Null
  PROVE  PrintInv'
<1>1. events'[s] = e /\ \A r \in Slots : r # s => events'[r] = events[r]
  BY DEF FillInv
<1>2. ASSUME NEW u \in Threads, pc'[u] \in PrintPCs
      PROVE  /\ slot'[u] \in Slots
             /\ pc'[u] \in {"print_size", "print_cb", "print_call"} /\ ~dropped'[u] =>
                  events'[slot'[u]].ext_data # Null
             /\ pc'[u] \in {"print_cb", "print_call"} /\ ~dropped'[u] =>
                  events'[slot'[u]].ext_data_size # Null
             /\ pc'[u] = "print_call" => events'[slot'[u]].ext_print_cb # Null
  <2>1. pc'[u] = pc[u] /\ slot'[u] = slot[u] /\ slot[u] \in Slots
    BY <1>2 DEF PrintInv
  <2>2. CASE slot[u] = s
    BY <1>1, <1>2, <2>1, <2>2 DEF PrintInv
  <2>3. CASE slot[u] # s
    BY <1>1, <1>2, <2>1, <2>3 DEF PrintInv
  <2> QED
    BY <2>2, <2>3
<1> QED
  BY <1>2 DEF PrintInv, PrintPCs

LEMMA PrintHolds == RegInv /\ FillInv /\ PrintInv /\ [Next]_vars => PrintInv'
<1> SUFFICES ASSUME RegInv, FillInv, PrintInv, [Next]_vars PROVE PrintInv'
  OBVIOUS
<1> USE DEF registry, registering, logging
<1>1. ASSUME UNCHANGED <<events, slot, dropped>>,
             \A t \in Threads : pc'[t] \in PrintPCs => pc'[t] = pc[t]
      PROVE  PrintInv'
  BY <1>1 DEF PrintInv, PrintPCs
<1>2. CASE LibInit \/ LibCleanup
  <2>1. UNCHANGED <<pc, slot, dropped>> /\ \A t \in Threads : pc[t] = "idle"
    BY <1>2 DEF LibInit, LibCleanup, Idle
  <2> QED
    BY <2>1 DEF PrintInv, PrintPCs
<1>3. ASSUME NEW t \in Threads,
             RegRefused(t) \/ (\E c \in Callbacks : RegTest(t, c)) \/ RegStep(t)
      PROVE  PrintInv'
  <2>1. UNCHANGED <<events, slot, dropped>>
    BY <1>3 DEF RegRefused, RegTest, RegStep, RegSpin, RegFound, RegAppend, RegNext, RegUnlock
  <2>2. \A u \in Threads : pc'[u] \in PrintPCs => pc'[u] = pc[u]
    BY <1>3 DEF RegRefused, RegTest, RegStep, RegSpin, RegFound, RegAppend, RegNext, RegUnlock,
                Goto, PrintPCs, RegInv, RegTypes
  <2> QED
    BY <1>1, <2>1, <2>2
<1>4. ASSUME NEW t \in Threads, NEW m \in Messages(t), NEW s \in Slots, LogTake(t, m, s)
      PROVE  PrintInv'
  <2> DEFINE e == [events[s] EXCEPT !.lock = TRUE]
  <2>1. /\ events' = [events EXCEPT ![s] = e] /\ dropped' = dropped
        /\ pc' = [pc EXCEPT ![t] = "fill_clear"] /\ slot' = [slot EXCEPT ![t] = s]
    BY <1>4 DEF LogTake, Goto
  <2>2. /\ e.ext_data = events[s].ext_data /\ e.ext_data_size = events[s].ext_data_size
        /\ e.ext_print_cb = events[s].ext_print_cb
    BY DEF FillInv, EventTypes
  <2>3. \A u \in Threads : pc'[u] \in PrintPCs => pc'[u] = pc[u] /\ slot'[u] = slot[u]
    BY <2>1 DEF PrintPCs, RegInv, RegTypes, FillInv
  <2> HIDE DEF e
  <2>4. dropped' \in [Threads -> BOOLEAN] /\ \A u \in Threads : dropped[u] => dropped'[u]
    BY <2>1 DEF PrintInv
  <2>5. \A u \in Threads : pc[u] \in PrintPCs /\ slot[u] = s /\ ~dropped'[u] =>
          /\ events[s].ext_data # Null => e.ext_data # Null
          /\ events[s].ext_data # Null /\ events[s].ext_data_size # Null =>
               e.ext_data_size # Null
    BY <2>2
  <2>6. events[s].ext_print_cb # Null => e.ext_print_cb # Null
    BY <2>2
  <2>7. events' = [events EXCEPT ![s] = e]
    BY <2>1
  <2> QED
    BY <2>3, <2>4, <2>5, <2>6, <2>7, PrintOne
<1>5. ASSUME NEW t \in Threads, FillStep(t)
      PROVE  PrintInv'
  <2> DEFINE s == slot[t]
             d == events[s]
             m == msg[t]
  <2>1. /\ pc[t] \in FillPCs /\ s \in Slots /\ d \in EventTypes /\ Filled(pc[t], m, d)
        /\ m \in [type : Nat, data : Data, fresh : BOOLEAN]
    <3>1. pc[t] \in FillPCs
      BY <1>5, FillFrame
    <3> QED
      BY <3>1 DEF FillInv
  <2>2. \A u \in Threads : pc'[u] \in PrintPCs => u # t /\ pc'[u] = pc[u]
    <3>1. PICK to \in {"idle"} \cup FillPCs : pc' = [pc EXCEPT ![t] = to]
      BY <1>5, FillFrame
    <3> QED
      BY <3>1 DEF RegInv, RegTypes, FillPCs, PrintPCs
  <2>3. \A u \in Threads : u # t => slot'[u] = slot[u]
    BY <1>5 DEF FillStep, FillEmpty, FillDrop, FillDropSize, FillDropType, FillData, FillType,
                FillCallback, FillSize, FillDone, Fill, FillInv
  <2>4. ASSUME NEW e, events' = [events EXCEPT ![s] = e], dropped' = dropped,
               d.ext_data # Null => e.ext_data # Null,
               d.ext_data # Null /\ d.ext_data_size # Null => e.ext_data_size # Null,
               d.ext_print_cb # Null => e.ext_print_cb # Null
        PROVE  PrintInv'
    <3>1. dropped' \in [Threads -> BOOLEAN] /\ \A u \in Threads : dropped[u] => dropped'[u]
      BY <2>4 DEF PrintInv
    <3>2. \A u \in Threads : pc'[u] \in PrintPCs => pc'[u] = pc[u] /\ slot'[u] = slot[u]
      BY <2>2, <2>3
    <3> HIDE DEF s
    <3> QED
      BY <2>1, <2>4, <3>1, <3>2, PrintOne
  <2>5. CASE FillEmpty(t)
    <3>1. events' = [events EXCEPT ![s] = d] /\ dropped' = dropped
      BY <2>5 DEF FillEmpty, Fill
    <3> HIDE DEF s, d
    <3> QED
      BY <2>4, <3>1
  <2>6. CASE FillDrop(t)
    <3> DEFINE e == [d EXCEPT !.ext_data = Null]
    <3>1. /\ events' = [events EXCEPT ![s] = e]
          /\ dropped' = [u \in Threads |-> dropped[u] \/ (pc[u] \in PrintPCs /\ slot[u] = s)]
      BY <2>1, <2>6 DEF FillDrop, EventTypes, FillInv
    <3>2. e.ext_print_cb = d.ext_print_cb
      BY <2>1 DEF EventTypes
    <3>3. /\ dropped' \in [Threads -> BOOLEAN] /\ \A u \in Threads : dropped[u] => dropped'[u]
          /\ \A u \in Threads : pc[u] \in PrintPCs /\ slot[u] = s => dropped'[u]
      BY <3>1 DEF PrintInv
    <3>4. \A u \in Threads : pc'[u] \in PrintPCs => pc'[u] = pc[u] /\ slot'[u] = slot[u]
      BY <2>2, <2>3
    <3> HIDE DEF s, e
    <3> QED
      BY <2>1, <3>1, <3>2, <3>3, <3>4, PrintOne
  <2>7. CASE FillDropSize(t)
    <3> DEFINE e == WithoutSize(d)
    <3>1. /\ events' = [events EXCEPT ![s] = e] /\ dropped' = dropped
          /\ pc[t] = "fill_drop_size"
      BY <2>7 DEF FillDropSize, Fill, Goto
    <3>2. d.ext_data = Null /\ e.ext_print_cb = d.ext_print_cb
      BY <2>1, <3>1 DEF Filled, Emptied, EventTypes, WithoutSize
    <3> HIDE DEF s, d, e
    <3> QED
      BY <2>4, <3>1, <3>2
  <2>8. CASE FillDropType(t)
    <3> DEFINE e == [d EXCEPT !.ext_event_type = NONE]
    <3>1. events' = [events EXCEPT ![s] = e] /\ dropped' = dropped
      BY <2>8 DEF FillDropType, Fill
    <3>2. /\ e.ext_data = d.ext_data /\ e.ext_data_size = d.ext_data_size
          /\ e.ext_print_cb = d.ext_print_cb
      BY <2>1 DEF EventTypes
    <3> HIDE DEF s, d, e
    <3> QED
      BY <2>4, <3>1, <3>2
  <2>9. CASE FillData(t)
    <3> DEFINE e == [d EXCEPT !.ext_data = m.data, !.fresh = m.fresh]
    <3>1. events' = [events EXCEPT ![s] = e] /\ dropped' = dropped /\ pc[t] = "fill_data"
      BY <2>9 DEF FillData, Fill, Goto
    <3>2. /\ d.ext_data = Null /\ e.ext_print_cb = d.ext_print_cb
      BY <2>1, <3>1 DEF Filled, Emptied, EventTypes
    <3> HIDE DEF s, d, e
    <3> QED
      BY <2>4, <3>1, <3>2
  <2>10. CASE FillType(t)
    <3> DEFINE e == [d EXCEPT !.ext_event_type = m.type]
    <3>1. events' = [events EXCEPT ![s] = e] /\ dropped' = dropped
      BY <2>10 DEF FillType, Fill
    <3>2. /\ e.ext_data = d.ext_data /\ e.ext_data_size = d.ext_data_size
          /\ e.ext_print_cb = d.ext_print_cb
      BY <2>1 DEF EventTypes
    <3> HIDE DEF s, d, e
    <3> QED
      BY <2>4, <3>1, <3>2
  <2>11. CASE FillCallback(t)
    <3> DEFINE e == [d EXCEPT !.ext_print_cb = PrintCb(m.type)]
    <3>1. events' = [events EXCEPT ![s] = e] /\ dropped' = dropped /\ pc[t] = "fill_cb"
      BY <2>11 DEF FillCallback, Fill, Goto
    <3>2. PrintCb(m.type) # Null
      <4>1. Meant(m)
        BY <2>1, <3>1 DEF Filled, FillAtCb
      <4>2. PrintCb(m.type) \in AllCallbacks
        BY <4>1, LookupFinds
      <4> QED
        BY <4>2, ExtConstants
    <3>3. /\ e.ext_data = d.ext_data /\ e.ext_data_size = d.ext_data_size
          /\ e.ext_print_cb = PrintCb(m.type)
      BY <2>1 DEF EventTypes
    <3> HIDE DEF s, d, e, m
    <3> QED
      BY <2>4, <3>1, <3>2, <3>3
  <2>12. CASE FillSize(t)
    <3> DEFINE e == [d EXCEPT !.ext_data_size = m.data]
    <3>1. events' = [events EXCEPT ![s] = e] /\ dropped' = dropped /\ pc[t] = "fill_size"
      BY <2>12 DEF FillSize, Fill, Goto
    <3>2. /\ e.ext_data = d.ext_data /\ e.ext_data_size = m.data /\ m.data # Null
          /\ e.ext_print_cb = d.ext_print_cb
      BY <2>1, <3>1 DEF Filled, FillAtCb, EventTypes
    <3> HIDE DEF s, d, e, m
    <3> QED
      BY <2>4, <3>1, <3>2
  <2>13. CASE FillDone(t)
    <3> DEFINE e == [d EXCEPT !.lock = FALSE]
    <3>1. events' = [events EXCEPT ![s] = e] /\ dropped' = dropped
      BY <2>13 DEF FillDone
    <3>2. /\ e.ext_data = d.ext_data /\ e.ext_data_size = d.ext_data_size
          /\ e.ext_print_cb = d.ext_print_cb
      BY <2>1 DEF EventTypes
    <3> HIDE DEF s, d, e
    <3> QED
      BY <2>4, <3>1, <3>2
  <2> QED
    BY <1>5, <2>5, <2>6, <2>7, <2>8, <2>9, <2>10, <2>11, <2>12, <2>13 DEF FillStep
<1>6. ASSUME NEW t \in Threads, NEW s \in Slots, PrintType(t, s)
      PROVE  PrintInv'
  <2>1. /\ pc'[t] = "print_data" /\ slot'[t] = s /\ UNCHANGED <<events, dropped>>
        /\ \A u \in Threads : u # t => pc'[u] = pc[u] /\ slot'[u] = slot[u]
    BY <1>6 DEF PrintType, Goto, RegInv, RegTypes, FillInv
  <2> QED
    BY <2>1 DEF PrintInv, PrintPCs
<1>7. ASSUME NEW t \in Threads, PrintTest(t)
      PROVE  PrintInv'
  <2> DEFINE e == events[slot[t]]
  <2>1. /\ UNCHANGED <<events, slot, dropped>>
        /\ \A u \in Threads : u # t => pc'[u] = pc[u]
        /\ \/ pc[t] = "print_data" /\ pc'[t] = "print_size" /\ e.ext_data # Null
           \/ pc[t] = "print_size" /\ pc'[t] = "print_cb" /\ e.ext_data_size # Null
           \/ pc[t] = "print_cb" /\ pc'[t] = "print_call" /\ e.ext_print_cb # Null
    BY <1>7 DEF PrintTest, Tested, Goto, RegInv, RegTypes
  <2> QED
    BY <2>1 DEF PrintInv, PrintPCs
<1>8. ASSUME NEW t \in Threads, PrintEnd(t)
      PROVE  PrintInv'
  <2>1. /\ pc'[t] = "idle" /\ UNCHANGED events /\ dropped' = [dropped EXCEPT ![t] = FALSE]
        /\ \A u \in Threads : u # t => pc'[u] = pc[u] /\ slot'[u] = slot[u]
    BY <1>8 DEF PrintEnd, Goto, RegInv, RegTypes, FillInv
  <2>2. dropped' \in [Threads -> BOOLEAN] /\ \A u \in Threads : u # t => dropped'[u] = dropped[u]
    BY <2>1 DEF PrintInv
  <2> QED
    BY <2>1, <2>2 DEF PrintInv, PrintPCs
<1>9. CASE UNCHANGED vars
  BY <1>1, <1>9 DEF vars
<1> QED
  BY <1>2, <1>3, <1>4, <1>5, <1>6, <1>7, <1>8, <1>9 DEF Next, PrintStep

LEMMA Fills == Spec => [](RegInv /\ FillInv /\ PrintInv)
<1>1. Init => RegInv /\ FillInv /\ PrintInv
  BY RegInit, FillInit, PrintInit
<1>2. RegInv /\ FillInv /\ PrintInv /\ [Next]_vars => (RegInv /\ FillInv /\ PrintInv)'
  BY RegHolds, FillHolds, PrintHolds
<1> QED
  BY <1>1, <1>2, PTL DEF Spec

\* A print that has made its four tests finds a callback when it calls it; and
\* if no fill has dropped the event's data since the print began and the type
\* is of this life, it is the one that data and size are meant for.
THEOREM PrintsFit == Spec => []PrintCallFits
<1>1. FillInv /\ PrintInv => PrintCallFits
  <2> SUFFICES ASSUME FillInv, PrintInv, NEW t \in Threads, pc[t] = "print_call"
               PROVE  LET e == events[slot[t]] IN
                      /\ e.ext_print_cb # Null
                      /\ ~dropped[t] => Printable(e)
                      /\ ~dropped[t] /\ e.fresh =>
                           e.ext_print_cb = e.ext_data /\ e.ext_data_size = e.ext_data
    BY DEF PrintCallFits
  <2>1. /\ slot[t] \in Slots /\ events[slot[t]].ext_print_cb # Null
        /\ ~dropped[t] => events[slot[t]].ext_data # Null /\ events[slot[t]].ext_data_size # Null
    BY DEF PrintInv, PrintPCs
  <2>2. Fits(events[slot[t]]) /\ SizeLast(events[slot[t]])
    BY <2>1 DEF FillInv
  <2> QED
    BY <2>1, <2>2 DEF Fits, SizeLast
<1> QED
  BY Fills, <1>1, PTL

\* A log call that passed the test of its type finds a callback for it: no
\* complete event has data that cannot be printed.
THEOREM StoresPrint == Spec => []StoredPrintable
<1>1. FillInv => StoredPrintable
  BY DEF FillInv, StoredPrintable, Ready
<1> QED
  BY Fills, <1>1, PTL

-----------------------------------------------------------------------------
(***************************************************************************)
(* The types.                                                              *)
(***************************************************************************)
\* The numbers that go around: returned, kept, logged with and stored.
GivenOut ==
  /\ ~initialized => next_event_type = 0
  /\ lives <= MaxLives
  /\ \A t \in Threads : ret[t] \in Types /\ held[t].type \in Types /\ msg[t].type \in Types
  /\ \A s \in Slots : events[s].ext_event_type \in Types

\* The table fits, so the number of an entry is a type, and the next one is
\* below the limit while there is room for an entry of its own.
LEMMA NumbersAreTypes ==
  ASSUME RegInv
  PROVE  /\ \A i \in 1 .. Len(table) : table[i].type \in Types
         /\ \A t \in Threads : pc[t] = "reg_next" => next_event_type \in Types
         /\ initialized =>
              next_event_type \in DynamicStart .. DynamicStart + MaxEntries - 2
<1>1. /\ Len(table) \in Nat /\ Len(table) <= Cardinality(AllCallbacks)
      /\ Cardinality(AllCallbacks) \in Nat
  BY FitsNow, FiniteCallbacks, FS_CardinalityType, LenProperties
  DEF RegInv, RegTypes, TableFits
<1>2. Len(table) <= MaxEntries /\ MaxEntries \in Nat /\ DynamicStart \in Nat
  BY <1>1, ExtConstants
<1>3. \A i \in 1 .. Len(table) : NumberAt(i) \in Types
  BY <1>1, <1>2 DEF NumberAt, Types, LAST, HEXDUMP, BT
<1>4. \A i \in 1 .. Len(table) : table[i].type \in Types
  BY <1>3 DEF RegInv, TableInv
<1>5. ASSUME NEW t \in Threads, pc[t] = "reg_next" PROVE next_event_type \in Types
  <2>1. Len(table) > LAST /\ next_event_type = NumberAt(Len(table))
    BY <1>5 DEF RegInv, CallInv
  <2>2. Len(table) \in 1 .. Len(table)  BY <1>1, <2>1 DEF LAST, HEXDUMP
  <2> QED
    BY <1>3, <2>1, <2>2
<1>6. ASSUME initialized
      PROVE  next_event_type \in DynamicStart .. DynamicStart + MaxEntries - 2
  <2>1. Len(table) >= LAST
    BY <1>6 DEF RegInv, TableInv
  <2>2. \/ next_event_type = NumberAt(Len(table) + 1)
        \/ Len(table) > LAST /\ next_event_type = NumberAt(Len(table))
    BY <1>6 DEF RegInv, TableInv, CallInv
  <2> QED
    BY <1>1, <1>2, <2>1, <2>2 DEF NumberAt, LAST, HEXDUMP
<1> QED
  BY <1>4, <1>5, <1>6

LEMMA GivenOutInit == Init => GivenOut
<1> SUFFICES ASSUME Init PROVE GivenOut
  OBVIOUS
<1>1. NONE \in Types /\ NoType.type = NONE /\ Plain.type = NONE
      /\ EmptyEvent.ext_event_type = NONE
  BY DEF Types, NoType, Plain, EmptyEvent
<1>2. lives <= MaxLives
  BY ExtConstants DEF Init
<1> QED
  BY <1>1, <1>2 DEF Init, GivenOut

\* What the application can log with.
LEMMA MessageTypes ==
  ASSUME GivenOut, NEW t \in Threads, NEW m \in Messages(t)
  PROVE  m.type \in Types
BY DEF GivenOut, Messages, Plain, BuiltIn, Held, Types

LEMMA GivenOutHolds == RegInv /\ FillInv /\ GivenOut /\ [Next]_vars => GivenOut'
<1> SUFFICES ASSUME RegInv, FillInv, GivenOut, [Next]_vars PROVE GivenOut'
  OBVIOUS
<1> USE DEF registry, registering, logging
<1>n. NONE \in Types /\ NoType.type = NONE /\ Plain.type = NONE
      /\ EmptyEvent.ext_event_type = NONE
  BY DEF Types, NoType, Plain, EmptyEvent
<1>t. /\ ret \in [Threads -> Nat]
      /\ held \in [Threads -> [type : Nat, callback : Data, life : Nat]]
      /\ msg \in [Threads -> [type : Nat, data : Data, fresh : BOOLEAN]]
      /\ events \in [Slots -> EventTypes]
  BY DEF RegInv, RegTypes, FillInv
<1>1. CASE LibInit
  <2>1. /\ initialized' = TRUE /\ lives' = lives + 1 /\ lives < MaxLives
        /\ ret' = ret /\ held' = held /\ msg' = msg
        /\ \A s \in Slots : events'[s] = EmptyEvent
    BY <1>1 DEF LibInit
  <2>2. lives + 1 <= MaxLives
    BY <2>1, ExtConstants DEF RegInv, RegTypes
  <2> QED
    BY <1>n, <2>1, <2>2 DEF GivenOut
<1>2. CASE LibCleanup
  BY <1>n, <1>2 DEF LibCleanup, GivenOut
<1>3. ASSUME NEW t \in Threads, RegRefused(t) \/ RegStep(t) PROVE GivenOut'
  <2>1. UNCHANGED <<initialized, lives, events, msg>>
    BY <1>3 DEF RegRefused, RegStep, RegSpin, RegFound, RegAppend, RegNext, RegUnlock
  <2>2. ~initialized => next_event_type' = next_event_type
    BY <1>3 DEF RegRefused, RegStep, RegSpin, RegFound, RegAppend, RegNext, RegUnlock,
       Goto, RegInv, CallInv, RegPCs
  <2>3. ASSUME NEW u \in Threads PROVE ret'[u] \in Types /\ held'[u].type \in Types
    <3>0. ret[u] \in Types /\ held[u].type \in Types /\ ret[t] \in Types
      BY DEF GivenOut
    <3>1. CASE RegRefused(t)
      BY <1>n, <1>t, <3>0, <3>1 DEF RegRefused
    <3>2. CASE RegSpin(t) \/ RegAppend(t)
      BY <3>0, <3>2 DEF RegSpin, RegAppend
    <3>3. CASE RegFound(t)
      <4>1. PICK i \in 1 .. Len(table) : ret' = [ret EXCEPT ![t] = table[i].type]
        BY <3>3 DEF RegFound, Known
      <4>2. held' = held /\ table[i].type \in Types
        BY <3>3, NumbersAreTypes DEF RegFound
      <4> QED
        BY <1>t, <3>0, <4>1, <4>2
    <3>4. CASE RegNext(t)
      <4>1. held' = held /\ ret' = [ret EXCEPT ![t] = next_event_type] /\ pc[t] = "reg_next"
        BY <3>4 DEF RegNext, Goto
      <4>2. next_event_type \in Types
        BY <4>1, NumbersAreTypes
      <4> QED
        BY <1>t, <3>0, <4>1, <4>2
    <3>5. CASE RegUnlock(t)
      <4>1. /\ held' = [held EXCEPT ![t] =
                          [type |-> ret[t], callback |-> cb[t], life |-> lives]]
            /\ ret' = [ret EXCEPT ![t] = NONE]
        BY <3>5 DEF RegUnlock
      <4> QED
        BY <1>n, <1>t, <3>0, <4>1
    <3> QED
      BY <1>3, <3>1, <3>2, <3>3, <3>4, <3>5 DEF RegStep
  <2> QED
    BY <2>1, <2>2, <2>3 DEF GivenOut
<1>4. ASSUME NEW t \in Threads, NEW c \in Callbacks, RegTest(t, c) PROVE GivenOut'
  BY <1>4 DEF RegTest, GivenOut
<1>5. ASSUME NEW t \in Threads, NEW m \in Messages(t), NEW s \in Slots, LogTake(t, m, s)
      PROVE  GivenOut'
  <2>1. /\ UNCHANGED <<initialized, next_event_type, lives, ret, held>>
        /\ events' = [events EXCEPT ![s].lock = TRUE] /\ msg' = [msg EXCEPT ![t] = m]
    BY <1>5 DEF LogTake
  <2>2. \A u \in Threads : msg'[u].type \in Types
    BY <1>t, <2>1, MessageTypes DEF GivenOut
  <2>3. \A r \in Slots : events'[r].ext_event_type = events[r].ext_event_type
    BY <1>t, <2>1 DEF EventTypes
  <2> QED
    BY <2>1, <2>2, <2>3 DEF GivenOut
<1>6. ASSUME NEW t \in Threads, FillStep(t) PROVE GivenOut'
  <2>1. UNCHANGED <<initialized, next_event_type, lives, ret, held>>
    BY <1>6, FillFrame
  <2>2. \A u \in Threads : msg'[u].type \in Types
    <3>1. msg' \in {msg, [msg EXCEPT ![t] = Plain]}
      BY <1>6, FillFrame
    <3> QED
      BY <1>n, <1>t, <3>1 DEF GivenOut
  <2>3. slot[t] \in Slots
    BY <1>6, FillFrame DEF FillInv
  <2>4. ASSUME NEW e, events' = [events EXCEPT ![slot[t]] = e], e.ext_event_type \in Types
        PROVE  \A r \in Slots : events'[r].ext_event_type \in Types
    BY <1>t, <2>3, <2>4 DEF GivenOut
  <2> DEFINE e == events[slot[t]]
  <2>5. e \in EventTypes /\ e.ext_event_type \in Types /\ msg[t].type \in Types
    BY <1>t, <2>3 DEF GivenOut
  <2>6. \A r \in Slots : events'[r].ext_event_type \in Types
    <3>1. CASE FillEmpty(t)
      <4>1. events' = [events EXCEPT ![slot[t]] = e]
        BY <3>1 DEF FillEmpty, Fill
      <4> HIDE DEF e
      <4> QED
        BY <2>4, <2>5, <4>1
    <3>7. CASE FillDrop(t)
      <4>1. events' = [events EXCEPT ![slot[t]] = [e EXCEPT !.ext_data = Null]]
        BY <2>3, <3>7 DEF FillDrop, FillInv, EventTypes
      <4>2. [e EXCEPT !.ext_data = Null].ext_event_type \in Types
        BY <2>5 DEF EventTypes
      <4> HIDE DEF e
      <4> QED
        BY <2>4, <4>1, <4>2
    <3>8. CASE FillDropSize(t)
      <4>1. events' = [events EXCEPT ![slot[t]] = WithoutSize(e)]
        BY <3>8 DEF FillDropSize, Fill
      <4>2. WithoutSize(e).ext_event_type \in Types
        BY <2>5 DEF EventTypes, WithoutSize
      <4> HIDE DEF e
      <4> QED
        BY <2>4, <4>1, <4>2
    <3>9. CASE FillDropType(t)
      <4>1. events' = [events EXCEPT ![slot[t]] = [e EXCEPT !.ext_event_type = NONE]]
        BY <3>9 DEF FillDropType, Fill
      <4>2. [e EXCEPT !.ext_event_type = NONE].ext_event_type \in Types
        BY <1>n, <2>5 DEF EventTypes
      <4> HIDE DEF e
      <4> QED
        BY <2>4, <4>1, <4>2
    <3>2. CASE FillData(t)
      <4>1. events' = [events EXCEPT ![slot[t]] =
                         [e EXCEPT !.ext_data = msg[t].data, !.fresh = msg[t].fresh]]
        BY <3>2 DEF FillData, Fill
      <4>2. [e EXCEPT !.ext_data = msg[t].data, !.fresh = msg[t].fresh].ext_event_type
              \in Types
        BY <2>5 DEF EventTypes
      <4> HIDE DEF e
      <4> QED
        BY <2>4, <4>1, <4>2
    <3>3. CASE FillType(t)
      <4>1. events' = [events EXCEPT ![slot[t]] = [e EXCEPT !.ext_event_type = msg[t].type]]
        BY <3>3 DEF FillType, Fill
      <4>2. [e EXCEPT !.ext_event_type = msg[t].type].ext_event_type \in Types
        BY <2>5 DEF EventTypes
      <4> HIDE DEF e
      <4> QED
        BY <2>4, <4>1, <4>2
    <3>4. CASE FillCallback(t)
      <4>1. PICK d : events' = [events EXCEPT ![slot[t]] = [e EXCEPT !.ext_print_cb = d]]
        BY <3>4 DEF FillCallback, Fill
      <4>2. [e EXCEPT !.ext_print_cb = d].ext_event_type \in Types
        BY <2>5 DEF EventTypes
      <4> HIDE DEF e
      <4> QED
        BY <2>4, <4>1, <4>2
    <3>5. CASE FillSize(t)
      <4>1. events' = [events EXCEPT ![slot[t]] = [e EXCEPT !.ext_data_size = msg[t].data]]
        BY <3>5 DEF FillSize, Fill
      <4>2. [e EXCEPT !.ext_data_size = msg[t].data].ext_event_type \in Types
        BY <2>5 DEF EventTypes
      <4> HIDE DEF e
      <4> QED
        BY <2>4, <4>1, <4>2
    <3>6. CASE FillDone(t)
      <4>1. events' = [events EXCEPT ![slot[t]] = [e EXCEPT !.lock = FALSE]]
        BY <3>6 DEF FillDone
      <4>2. [e EXCEPT !.lock = FALSE].ext_event_type \in Types
        BY <2>5 DEF EventTypes
      <4> HIDE DEF e
      <4> QED
        BY <2>4, <4>1, <4>2
    <3> QED
      BY <1>6, <3>1, <3>2, <3>3, <3>4, <3>5, <3>6, <3>7, <3>8, <3>9 DEF FillStep
  <2> QED
    BY <2>1, <2>2, <2>6 DEF GivenOut
<1>7. ASSUME NEW t \in Threads, PrintStep(t) PROVE GivenOut'
  BY <1>7, PrintFrame DEF GivenOut
<1>8. CASE UNCHANGED vars
  BY <1>8 DEF vars, GivenOut
<1> QED
  BY <1>1, <1>2, <1>3, <1>4, <1>5, <1>6, <1>7, <1>8 DEF Next

\* All variables keep their types.  Above all, no type is ever given out, kept,
\* stored or counted beyond the size of the table, which the code never
\* compares anything with.
THEOREM ExtTypeCorrect == Spec => []ExtTypeOK
<1>1. Init => RegInv /\ FillInv /\ PrintInv /\ GivenOut
  BY RegInit, FillInit, PrintInit, GivenOutInit
<1>2. RegInv /\ FillInv /\ PrintInv /\ GivenOut /\ [Next]_vars => (RegInv /\ FillInv /\ PrintInv /\ GivenOut)'
  BY RegHolds, FillHolds, PrintHolds, GivenOutHolds
<1>3. RegInv /\ FillInv /\ PrintInv /\ GivenOut => ExtTypeOK
  <2> SUFFICES ASSUME RegInv, FillInv, PrintInv, GivenOut PROVE ExtTypeOK
    OBVIOUS
  <2>1. table \in Seq(Entry)
    <3>1. /\ table \in Seq([type : Nat, callback : AllCallbacks])
          /\ \A i \in 1 .. Len(table) : table[i].type \in Types
      BY NumbersAreTypes DEF RegInv, RegTypes
    <3>2. \A i \in 1 .. Len(table) : table[i] \in Entry
      <4>1. \A i \in 1 .. Len(table) : table[i] \in [type : Nat, callback : AllCallbacks]
        BY <3>1, ElementOfSeq
      <4> QED
        BY <3>1, <4>1 DEF Entry
    <3>3. Len(table) \in Nat /\ table = [i \in 1 .. Len(table) |-> table[i]]
      BY <3>1, LenProperties
    <3> QED
      BY <3>2, <3>3, IsASeq
  <2>2. next_event_type \in {0} \cup (DynamicStart .. DynamicStart + MaxEntries - 2)
    BY NumbersAreTypes DEF GivenOut
  <2>3. events \in [Slots -> [lock : BOOLEAN, ext_data : Data, ext_data_size : Data,
                              ext_event_type : Types, ext_print_cb : Data,
                              fresh : BOOLEAN]]
    BY DEF FillInv, EventTypes, GivenOut
  <2>4. lives \in 0 .. MaxLives
    BY ExtConstants DEF RegInv, RegTypes, GivenOut
  <2>5. held \in [Threads -> [type : Types, callback : Data, life : 0 .. MaxLives]]
    <3>1. ASSUME NEW t \in Threads PROVE held[t].life \in 0 .. MaxLives
      <4>1. held[t].life \in Nat /\ held[t].life <= lives
        BY DEF RegInv, RegTypes, CallInv
      <4> QED
        BY <2>4, <4>1, ExtConstants
    <3> QED
      BY <3>1 DEF RegInv, RegTypes, GivenOut
  <2>6. ret \in [Threads -> Types] /\ msg \in [Threads -> [type : Types, data : Data, fresh : BOOLEAN]]
    BY DEF RegInv, RegTypes, FillInv, GivenOut
  <2>7. /\ inited \in BOOLEAN /\ initialized \in BOOLEAN /\ table_lock \in BOOLEAN
        /\ pc \in [Threads -> {"idle"} \cup RegPCs \cup FillPCs \cup PrintPCs]
        /\ dropped \in [Threads -> BOOLEAN]
        /\ cb \in [Threads -> Data] /\ slot \in [Threads -> Slots \cup {Null}]
    BY DEF RegInv, RegTypes, FillInv, PrintInv, PCs, AsidePCs
  <2> QED
    BY <2>1, <2>2, <2>3, <2>4, <2>5, <2>6, <2>7 DEF ExtTypeOK
<1> QED
  BY <1>1, <1>2, <1>3, PTL DEF Spec

=============================================================================
