-------------------------- MODULE QlogServer_proofs --------------------------
(***************************************************************************)
(* Theorems about QlogServer, for any inputs, array length, number of      *)
(* buffers and number of starts.                                           *)
(***************************************************************************)
EXTENDS QlogServer, FiniteSetTheorems, SequenceTheorems, WellFoundedInduction, TLAPS

Waiting == {"welcome", "dup", "fdopen", "close"}

\* The places of a handler that has the port.
Bound == InSession \cup Waiting \cup {"listen", "accept"}

\* The descriptors a handler has at each place before its end.
Descriptors(place) ==
  IF place \in {"off", "socket"} THEN {}
  ELSE IF place \in {"bind", "listen", "accept"} THEN {"server_sock"}
  ELSE IF place \in {"welcome", "dup", "close"} THEN {"server_sock", "conn_sock"}
  ELSE {"server_sock", "conn_sock", "fd"}

Alive(h) == pc[h] \notin {"off", "done"}

\* At most one handler ever gets past binding, so the session's variables and
\* the static active_buffer have one user at a time.
OneSession == \A g, h \in Handlers : pc[g] \in Bound /\ pc[h] \in Bound => g = h

-----------------------------------------------------------------------------
(***************************************************************************)
(* What every step of a handler does to the application's variables.       *)
(***************************************************************************)
Moves(h, to) ==
  /\ Alive(h)
  /\ pc' = [pc EXCEPT ![h] = to]
  /\ UNCHANGED <<inited, created, appvars, abandoned>>
  /\ to = "touch" => inited /\ idx \in created /\ idx' = idx

\* It reads a character, or the program is ended.
Rests ==
  /\ app' \in {app, "killed"}
  /\ UNCHANGED <<inited, created, handle, starts, pc, abandoned, idx>>

\* The places a handler's step may lead to.
LEMMA HandlerStep ==
  ASSUME NEW h \in Handlers, SetUp(h) \/ Accept(h) \/ SessionStep(h) \/ SigPipe(h)
  PROVE  (\E to \in PCs : Moves(h, to)) \/ Rests
<1> USE DEF Goto, Moves, Alive, appvars, library, session, history, InSession, PCs
<1>1. CASE SetUp(h)
  BY <1>1 DEF SetUp, Socket, Bind, Listen
<1>2. CASE Accept(h)
  BY <1>2 DEF Accept
<1>3. CASE SigPipe(h)
  BY <1>3 DEF SigPipe, Rests
<1>4. CASE SessionStep(h)
  <2>1. CASE Welcome(h) \/ Dup(h) \/ Fdopen(h) \/ Fclose(h) \/ Close(h)
    BY <2>1 DEF Welcome, Dup, Fdopen, NoStream, Fclose, Close
  <2>2. CASE Menu(h) \/ ReadCommand(h) \/ ReadAnswer(h) \/ ReadStops(h)
    BY <2>2 DEF Menu, ReadCommand, ReadAnswer, ReadStops
  <2>3. CASE ReadChar(h)
    BY <2>3 DEF ReadChar, Rests
  <2>4. CASE Select(h) \/ BeginVisits(h) \/ Toggle(h) \/ Quit(h) \/ Other(h)
    BY <2>4 DEF Select, BeginVisits, Toggle, Quit, Other
  <2>5. CASE Visit(h)
    BY <2>5 DEF Visit, Exists
  <2>6. CASE Touch(h) \/ Skip(h)
    BY <2>6 DEF Touch, Skip, NextVisit
  <2>7. CASE TouchFreed(h)
    BY <2>7 DEF TouchFreed, Rests
  <2> QED
    BY <1>4, <2>1, <2>2, <2>3, <2>4, <2>5, <2>6, <2>7 DEF SessionStep
<1> QED
  BY <1>1, <1>2, <1>3, <1>4

-----------------------------------------------------------------------------
(***************************************************************************)
(* Buffers in use are live.                                                *)
(***************************************************************************)
\* While no server was abandoned, only the handler the application has the
\* handle of is alive, and none is once the library is cleaned up.
LiveInv ==
  /\ pc \in [Handlers -> PCs]
  /\ starts \in 0 .. MaxStarts /\ handle \in 0 .. starts
  /\ app \in {"run", "waiting"} => inited
  /\ ~abandoned => \A h \in Handlers : Alive(h) => h = handle /\ inited
  /\ ~abandoned => \A h \in Handlers : pc[h] = "touch" => idx \in created

LEMMA LiveInit == Init => LiveInv
<1> SUFFICES ASSUME Init PROVE LiveInv
  OBVIOUS
<1> QED
  BY ServerConstants DEF Init, LiveInv, Alive, PCs, Handlers

LEMMA LiveHandler ==
  ASSUME LiveInv, NEW h \in Handlers, SetUp(h) \/ Accept(h) \/ SessionStep(h) \/ SigPipe(h)
  PROVE  LiveInv'
<1>1. CASE Rests
  BY <1>1 DEF LiveInv, Rests, Alive
<1>2. ASSUME NEW to \in PCs, Moves(h, to)
      PROVE  LiveInv'
  <2>1. pc' \in [Handlers -> PCs] /\ \A g \in Handlers : g # h => pc'[g] = pc[g]
    BY <1>2 DEF Moves, LiveInv
  <2>2. ASSUME ~abandoned
        PROVE  h = handle /\ inited /\ \A g \in Handlers : Alive(g) => g = h
    BY <1>2, <2>2 DEF Moves, LiveInv
  <2>3. ~abandoned' => \A g \in Handlers : Alive(g)' => g = handle' /\ inited'
    BY <1>2, <2>1, <2>2 DEF Moves, LiveInv, Alive, appvars
  <2>4. ~abandoned' => \A g \in Handlers : pc'[g] = "touch" => (idx \in created)'
    <3> SUFFICES ASSUME ~abandoned, NEW g \in Handlers, pc'[g] = "touch"
                 PROVE  idx' \in created'
      BY <1>2 DEF Moves
    <3>1. g = h
      BY <2>1, <2>2 DEF Alive
    <3> QED
      BY <1>2, <3>1 DEF Moves, LiveInv
  <2> QED
    BY <1>2, <2>1, <2>3, <2>4 DEF Moves, LiveInv, appvars
<1> QED
  BY <1>1, <1>2, HandlerStep

LEMMA LiveApp ==
  ASSUME LiveInv, App \/ AppJoined
  PROVE  LiveInv'
<1> USE DEF LiveInv, Alive, appvars, library, history
<1>1. CASE AppCreate
  BY <1>1 DEF AppCreate, session
<1>2. ASSUME NEW b \in Slots, AppLog(b)
      PROVE  LiveInv'
  BY <1>2 DEF AppLog, session
<1>3. CASE AppStart
  <2>1. starts' = starts + 1 /\ starts' \in Handlers /\ handle' = starts'
    BY <1>3, ServerConstants DEF AppStart, Handlers
  <2>2. /\ pc' \in [Handlers -> PCs] /\ pc'[handle'] = "socket"
        /\ \A g \in Handlers : g # handle' => pc'[g] = pc[g]
    BY <1>3, <2>1 DEF AppStart, PCs
  <2>3. ~abandoned' => ~abandoned /\ \A g \in Handlers : ~Alive(g)
    <3>1. ~abandoned' => ~abandoned /\ (handle = 0 \/ pc[handle] = "done")
      BY <1>3, Zenon DEF AppStart, Unjoined
    <3>2. 0 \notin Handlers
      BY DEF Handlers
    <3> QED
      BY <3>1, <3>2
  <2>4. app' = app /\ inited' = inited /\ app = "run"
    BY <1>3 DEF AppStart
  <2>5. starts' \in 0 .. MaxStarts /\ handle' \in 0 .. starts'
    BY <2>1 DEF Handlers
  <2>6. ~abandoned' => \A g \in Handlers : Alive(g)' => g = handle' /\ inited'
    BY <2>2, <2>3, <2>4
  <2>7. ~abandoned' => \A g \in Handlers : pc'[g] = "touch" => (idx \in created)'
    BY <2>2, <2>3
  <2> QED
    BY <2>2, <2>4, <2>5, <2>6, <2>7
<1>4. CASE AppWait
  BY <1>4 DEF AppWait, session
<1>5. CASE AppJoined
  BY <1>5 DEF AppJoined, Joined, session
<1>6. CASE AppCleanup
  <2>1. ~abandoned' => ~abandoned /\ (handle = 0 \/ pc[handle] = "done")
    BY <1>6, Zenon DEF AppCleanup, Unjoined
  <2>2. 0 \notin Handlers
    BY DEF Handlers
  <2> QED
    BY <1>6, <2>1, <2>2 DEF AppCleanup, session
<1> QED
  BY <1>1, <1>2, <1>3, <1>4, <1>5, <1>6 DEF App

\* A server is never at work in a buffer that is freed, if the application
\* waits for it before it starts another one or cleans up.
THEOREM LiveBuffers == Spec => []ServerTouchesLive
<1>1. LiveInv /\ [Next]_vars => LiveInv'
  <2> SUFFICES ASSUME LiveInv, [Next]_vars PROVE LiveInv'
    OBVIOUS
  <2>1. CASE UNCHANGED vars
    BY <2>1 DEF vars, library, appvars, session, history, LiveInv, Alive
  <2> QED
    BY <2>1, LiveHandler, LiveApp DEF Next
<1>2. LiveInv => ServerTouchesLive
  BY DEF LiveInv, ServerTouchesLive, Alive
<1> QED
  BY LiveInit, <1>1, <1>2, PTL DEF Spec

-----------------------------------------------------------------------------
(***************************************************************************)
(* The port and the descriptors.                                           *)
(***************************************************************************)
\* A handler beyond binding has the port, and each one has the descriptors of
\* its place; those not started have none.
HoldInv ==
  /\ pc \in [Handlers -> PCs]
  /\ starts \in Nat
  /\ open \in [Handlers -> SUBSET {"server_sock", "conn_sock", "fd"}]
  /\ \A h \in Handlers : h > starts => pc[h] = "off"
  /\ \A h \in Handlers : pc[h] \in Bound => port = h
  /\ \A h \in Handlers : IF pc[h] = "done" THEN open[h] \subseteq {"server_sock"}
                         ELSE open[h] = Descriptors(pc[h])

LEMMA HoldInit == Init => HoldInv
<1> SUFFICES ASSUME Init PROVE HoldInv
  OBVIOUS
<1> QED
  BY DEF Init, HoldInv, Descriptors, PCs, Bound, InSession, Waiting

\* One handler goes from a place to another; its descriptors go with it.
Holds(h, to) ==
  /\ Alive(h) /\ to # "off"
  /\ pc' = [pc EXCEPT ![h] = to]
  /\ starts' = starts
  /\ \/ port' = port /\ (to \in Bound => pc[h] \in Bound)
     \/ pc[h] = "bind" /\ port = 0 /\ port' = h
  /\ open' \in [Handlers -> SUBSET {"server_sock", "conn_sock", "fd"}]
  /\ \A g \in Handlers : g # h => open'[g] = open[g]
  /\ IF to = "done" THEN open'[h] \subseteq {"server_sock"} ELSE open'[h] = Descriptors(to)

LEMMA HoldHandler ==
  ASSUME HoldInv, NEW h \in Handlers, SetUp(h) \/ Accept(h) \/ SessionStep(h) \/ SigPipe(h)
  PROVE  (\E to \in PCs : Holds(h, to)) \/ UNCHANGED <<pc, open, port, starts>>
<1> USE DEF HoldInv, Goto, Holds, Alive, appvars, InSession, PCs, Bound, Waiting,
            Descriptors, Opened, Closed
<1>1. CASE Socket(h) \/ Listen(h)
  BY <1>1 DEF Socket, Listen
<1>2. CASE Bind(h)
  BY <1>2 DEF Bind
<1>3. CASE Accept(h)
  BY <1>3 DEF Accept
<1>4. CASE Welcome(h)
  BY <1>4 DEF Welcome
<1>5. CASE Dup(h)
  BY <1>5 DEF Dup
<1>6. CASE Fdopen(h)
  BY <1>6 DEF Fdopen, NoStream
<1>7. CASE Fclose(h) \/ Close(h)
  BY <1>7 DEF Fclose, Close
<1>8. CASE Menu(h) \/ ReadCommand(h) \/ ReadAnswer(h) \/ ReadStops(h)
  BY <1>8 DEF Menu, ReadCommand, ReadAnswer, ReadStops
<1>9. CASE ReadChar(h) \/ TouchFreed(h) \/ SigPipe(h)
  BY <1>9 DEF ReadChar, TouchFreed, SigPipe
<1>10. CASE Select(h) \/ BeginVisits(h) \/ Toggle(h) \/ Quit(h) \/ Other(h)
  BY <1>10 DEF Select, BeginVisits, Toggle, Quit, Other
<1>11. CASE Visit(h) \/ Touch(h) \/ Skip(h)
  BY <1>11 DEF Visit, Touch, Skip, NextVisit
<1> QED
  BY <1>1, <1>2, <1>3, <1>4, <1>5, <1>6, <1>7, <1>8, <1>9, <1>10, <1>11
  DEF SetUp, SessionStep

LEMMA HoldStep == HoldInv /\ [Next]_vars => HoldInv'
<1> SUFFICES ASSUME HoldInv, [Next]_vars PROVE HoldInv'
  OBVIOUS
<1>1. CASE UNCHANGED <<pc, open, port, starts>>
  BY <1>1 DEF HoldInv
<1>2. ASSUME NEW h \in Handlers, NEW to \in PCs, Holds(h, to)
      PROVE  HoldInv'
  <2>1. /\ pc' \in [Handlers -> PCs] /\ pc'[h] = to
        /\ \A g \in Handlers : g # h => pc'[g] = pc[g]
    BY <1>2 DEF Holds, HoldInv
  <2>2. ~(h > starts)
    BY <1>2 DEF Holds, HoldInv, Alive
  <2>3. \A g \in Handlers : pc'[g] \in Bound => port' = g
    BY <1>2, <2>1 DEF Holds, HoldInv, Handlers
  <2> QED
    BY <1>2, <2>1, <2>2, <2>3 DEF Holds, HoldInv
<1>3. CASE AppStart
  <2>1. /\ starts' = starts + 1 /\ starts' \in Handlers
        /\ pc' = [pc EXCEPT ![starts'] = "socket"]
    BY <1>3, ServerConstants DEF AppStart, Handlers, HoldInv
  <2>2. /\ pc' \in [Handlers -> PCs] /\ pc'[starts'] = "socket" /\ pc[starts'] = "off"
        /\ \A g \in Handlers : g # starts' => pc'[g] = pc[g]
    BY <2>1 DEF HoldInv, PCs
  <2>3. \A g \in Handlers : g > starts' => pc'[g] = "off"
    BY <2>1, <2>2 DEF HoldInv, Handlers
  <2>4. open' = open /\ port' = port
    BY <1>3 DEF AppStart
  <2> QED
    BY <2>1, <2>2, <2>3, <2>4 DEF HoldInv, Descriptors, Bound, InSession, Waiting
<1>4. CASE App \/ AppJoined
  BY <1>1, <1>3, <1>4
  DEF App, AppCreate, AppLog, AppWait, AppCleanup, AppJoined, appvars
<1> QED
  BY <1>1, <1>2, <1>4, HoldHandler DEF Next, vars, appvars

LEMMA Hold == Spec => []HoldInv
  BY HoldInit, HoldStep, PTL DEF Spec

\* The session keeps its descriptors to its end, and on every way out of the
\* handler the connection and its duplicate are closed again.
THEOREM DescriptorsGivenBack == Spec => []DescriptorsReturned
<1>1. HoldInv => DescriptorsReturned
  BY DEF HoldInv, DescriptorsReturned, Descriptors, InSession
<1> QED
  BY Hold, <1>1, PTL

\* However often the server is started, the static active_buffer and all that
\* belongs to the session have one user.
THEOREM SessionsExclusive == Spec => []OneSession
<1>1. HoldInv => OneSession
  BY DEF HoldInv, OneSession
<1> QED
  BY Hold, <1>1, PTL

-----------------------------------------------------------------------------
(***************************************************************************)
(* Resets from the console.                                                *)
(***************************************************************************)
BeforeSession == {"listen", "accept", "welcome", "dup", "fdopen"}

\* A message is in one buffer at most, and only in one that exists.
ContentsInv ==
  /\ created \subseteq Slots
  /\ ~inited => created = {}
  /\ messages \in Nat
  /\ contents \in [Slots -> SUBSET (1 .. messages)]
  /\ \A b \in Slots : b \notin created => contents[b] = {}
  /\ \A b, c \in Slots : b # c => contents[b] \cap contents[c] = {}
  /\ doomed \subseteq 1 .. messages

\* Whatever the command, there is nothing left to clear in the buffers the
\* walk has left behind or does not come to.
Passed(b) == IF cmd = "6" THEN b < idx ELSE b # idx
WalkAt(h) ==
  /\ pc[h] \in BeforeSession => cmd = "none"
  /\ pc[h] = "read_ans" => cmd = "2"
  /\ pc[h] \in {"visit", "touch"} /\ cmd \in Resets =>
       /\ cmd = "5" => idx = active_buffer
       /\ cmd = "6" => idx \in Slots
       /\ \A b \in Slots : Passed(b) => contents[b] \cap doomed = {}
  /\ pc[h] = "menu" /\ cmd \in Resets => \A b \in Slots : contents[b] \cap doomed = {}

WalkInv == \A h \in Handlers : WalkAt(h)

ResetInv == LiveInv /\ HoldInv /\ ContentsInv /\ WalkInv /\ (port = 0 => cmd = "none")

LEMMA ResetInit == Init => ResetInv
<1> SUFFICES ASSUME Init PROVE ResetInv
  OBVIOUS
<1>1. LiveInv /\ HoldInv
  BY LiveInit, HoldInit
<1>2. ContentsInv
  BY ServerConstants DEF Init, ContentsInv, Slots
<1>3. WalkInv /\ (port = 0 => cmd = "none")
  BY DEF Init, WalkInv, WalkAt, BeforeSession, Resets, Handlers
<1> QED
  BY <1>1, <1>2, <1>3 DEF ResetInv

LEMMA ContentsStep == LiveInv /\ ContentsInv /\ [Next]_vars => ContentsInv'
<1> SUFFICES ASSUME LiveInv, ContentsInv, [Next]_vars PROVE ContentsInv'
  OBVIOUS
<1>1. CASE UNCHANGED <<inited, created, contents, messages, doomed>>
  BY <1>1 DEF ContentsInv
<1>2. CASE AppCreate
  <2>1. inited /\ created' \subseteq Slots /\ created \subseteq created'
    BY <1>2 DEF AppCreate, ContentsInv, LiveInv
  <2> QED
    BY <1>2, <2>1 DEF AppCreate, ContentsInv, history
<1>3. ASSUME NEW b \in Slots, AppLog(b)
      PROVE  ContentsInv'
  <2>1. /\ contents' = [contents EXCEPT ![b] = @ \cup {messages'}]
        /\ messages' = messages + 1 /\ messages \in Nat /\ b \in created
        /\ UNCHANGED <<inited, created, doomed>>
    BY <1>3 DEF AppLog, ContentsInv
  <2>2. contents' \in [Slots -> SUBSET (1 .. messages')] /\ doomed \subseteq 1 .. messages'
    BY <2>1 DEF ContentsInv
  <2>3. \A c, d \in Slots : c # d => contents'[c] \cap contents'[d] = {}
    BY <2>1 DEF ContentsInv
  <2> QED
    BY <2>1, <2>2, <2>3 DEF ContentsInv
<1>4. CASE AppCleanup
  BY <1>4 DEF AppCleanup, ContentsInv
<1>5. ASSUME NEW h \in Handlers, BeginVisits(h)
      PROVE  ContentsInv'
  BY <1>5 DEF BeginVisits, ToBeCleared, ContentsInv, library
<1>6. ASSUME NEW h \in Handlers, Touch(h)
      PROVE  ContentsInv'
  BY <1>6 DEF Touch, ContentsInv, history
<1>7. ASSUME NEW h \in Handlers, Toggle(h)
      PROVE  ContentsInv'
  BY <1>1, <1>7 DEF Toggle, history
<1> USE DEF library, history
<1>8. CASE AppStart \/ AppWait \/ AppJoined \/ UNCHANGED vars
  BY <1>1, <1>8 DEF AppStart, AppWait, AppJoined, vars
<1>9. ASSUME NEW h \in Handlers,
             SetUp(h) \/ Accept(h) \/ SigPipe(h) \/ Welcome(h) \/ Dup(h) \/ Fdopen(h)
      PROVE  ContentsInv'
  BY <1>1, <1>9 DEF SetUp, Socket, Bind, Listen, Accept, SigPipe, Welcome, Dup, Fdopen
<1>10. ASSUME NEW h \in Handlers,
              \/ Fclose(h) \/ Close(h) \/ Menu(h) \/ ReadChar(h) \/ ReadCommand(h)
              \/ ReadAnswer(h) \/ ReadStops(h)
       PROVE  ContentsInv'
  BY <1>1, <1>10 DEF Fclose, Close, Menu, ReadChar, ReadCommand, ReadAnswer, ReadStops
<1>11. ASSUME NEW h \in Handlers,
              Select(h) \/ Visit(h) \/ Skip(h) \/ TouchFreed(h) \/ Quit(h) \/ Other(h)
       PROVE  ContentsInv'
  BY <1>1, <1>11 DEF Select, Visit, Skip, TouchFreed, Quit, Other
<1> QED
  BY <1>2, <1>3, <1>4, <1>5, <1>6, <1>7, <1>8, <1>9, <1>10, <1>11
  DEF Next, App, SessionStep

\* The steps of a handler that has the port, up to the end of its session.
LEMMA WalkHandler ==
  ASSUME ResetInv, NEW h \in Handlers,
         \/ Fdopen(h) \/ Menu(h) \/ ReadCommand(h) \/ ReadAnswer(h) \/ ReadStops(h) \/ Select(h)
         \/ BeginVisits(h) \/ Visit(h) \/ Touch(h) \/ Skip(h) \/ Toggle(h) \/ Other(h)
  PROVE  WalkInv' /\ port' = port /\ port = h
<1> USE DEF Goto, library, session, history, appvars
<1>1. pc[h] \in Bound /\ port' = port
  BY DEF Fdopen, NoStream, Menu, ReadCommand, ReadAnswer, ReadStops, Select, BeginVisits, Visit,
         Touch, Skip, NextVisit, Toggle, Other, Bound, InSession, Waiting
<1>2. port = h /\ \A g \in Handlers : g # h => pc[g] \notin Bound
  BY <1>1 DEF ResetInv, HoldInv
<1>3. \E to \in PCs : pc' = [pc EXCEPT ![h] = to]
  BY DEF Fdopen, NoStream, Menu, ReadCommand, ReadAnswer, ReadStops, Select, BeginVisits, Visit,
         Touch, Skip, NextVisit, Toggle, Other, PCs, InSession
<1>4. pc \in [Handlers -> PCs] /\ WalkAt(h)
  BY DEF ResetInv, LiveInv, WalkInv
<1>5. ASSUME NEW g \in Handlers, g # h
      PROVE  WalkAt(g)'
  <2>1. pc'[g] \notin Bound
    BY <1>2, <1>3, <1>4, <1>5
  <2> QED
    BY <2>1 DEF WalkAt, Bound, InSession, Waiting, BeforeSession
<1>6. WalkAt(h)'
  <2>1. CASE Fdopen(h)
    BY <2>1, <1>4 DEF Fdopen, NoStream, WalkAt, BeforeSession, Resets
  <2>2. CASE Menu(h) \/ ReadCommand(h)
    BY <2>2, <1>4 DEF Menu, ReadCommand, WalkAt, BeforeSession
  <2>3. CASE ReadAnswer(h) \/ ReadStops(h)
    BY <2>3, <1>4 DEF ReadAnswer, ReadStops, WalkAt, BeforeSession, Resets
  <2>4. CASE Select(h) \/ Toggle(h) \/ Other(h)
    BY <2>4, <1>4 DEF Select, Toggle, Other, WalkAt, BeforeSession, Resets
  <2>5. CASE BeginVisits(h)
    <3>1. pc'[h] = "visit" /\ idx' = FirstVisited /\ UNCHANGED <<cmd, active_buffer, contents>>
      BY <2>5, <1>4 DEF BeginVisits
    <3>2. cmd = "5" => idx' = active_buffer /\ \A b \in Slots : b # active_buffer => contents[b] \cap doomed' = {}
      BY <2>5, <3>1 DEF BeginVisits, FirstVisited, ToBeCleared, ResetInv, ContentsInv, Resets
    <3>3. cmd = "6" => idx' = 0 /\ 0 \in Slots /\ \A b \in Slots : ~(b < 0)
      BY <3>1, ServerConstants DEF FirstVisited, Slots
    <3> QED
      BY <3>1, <3>2, <3>3 DEF WalkAt, BeforeSession, Passed, Resets
  <2>6. CASE Visit(h)
    BY <2>6, <1>4 DEF Visit, WalkAt, BeforeSession, Passed
  <2>7. CASE Touch(h) \/ Skip(h)
    <3> SUFFICES ASSUME cmd \in Resets PROVE WalkAt(h)'
      <4>1. cmd' = cmd /\ pc'[h] \in {"menu", "visit"}
        BY <2>7, <1>4 DEF Touch, Skip, NextVisit
      <4> QED
        BY <4>1 DEF WalkAt, BeforeSession
    <3>1. /\ UNCHANGED <<cmd, active_buffer, doomed>>
          /\ idx \in Slots => contents'[idx] = {}
          /\ \A b \in Slots : b # idx => contents'[b] = contents[b]
      <4>1. CASE Touch(h)
        BY <4>1 DEF Touch, ResetInv, ContentsInv
      <4>2. CASE Skip(h)
        <5>1. idx \in Slots => idx \notin created
          BY <4>2, ServerConstants DEF Skip, Exists, Slots, ResetInv, ContentsInv
        <5> QED
          BY <4>2, <5>1 DEF Skip, ResetInv, ContentsInv
      <4> QED
        BY <2>7, <4>1, <4>2
    <3>2. /\ pc[h] \in {"visit", "touch"}
          /\ pc'[h] = IF idx = LastVisited THEN "menu" ELSE "visit"
          /\ idx' = IF idx = LastVisited THEN 0 ELSE idx + 1
      BY <2>7, <1>4 DEF Touch, Skip, NextVisit
    <3>3. \A b \in Slots : Passed(b) \/ b = idx => contents'[b] \cap doomed = {}
      BY <1>4, <3>1, <3>2 DEF WalkAt
    <3>4. CASE cmd = "5"
      BY <1>4, <3>1, <3>2, <3>3, <3>4 DEF WalkAt, LastVisited, Passed, BeforeSession
    <3>5. CASE cmd = "6"
      <4>1. idx \in Slots /\ LastVisited = MaxBufs - 1
        BY <1>4, <3>2, <3>5 DEF WalkAt, LastVisited, LastSlot, Resets
      <4>2. CASE idx = LastVisited
        <5>1. \A b \in Slots : b < idx \/ b = idx
          BY <4>1, <4>2, ServerConstants DEF Slots
        <5> QED
          BY <3>1, <3>2, <3>3, <3>5, <4>2, <5>1 DEF WalkAt, Passed, BeforeSession
      <4>3. CASE idx # LastVisited
        <5>1. idx + 1 \in Slots /\ \A b \in Slots : b < idx + 1 => b < idx \/ b = idx
          BY <4>1, <4>3, ServerConstants DEF Slots
        <5> QED
          BY <3>1, <3>2, <3>3, <3>5, <4>3, <5>1 DEF WalkAt, Passed, BeforeSession
      <4> QED
        BY <4>2, <4>3
    <3> QED
      BY <3>4, <3>5 DEF Resets
  <2> QED
    BY <2>1, <2>2, <2>3, <2>4, <2>5, <2>6, <2>7
<1> QED
  BY <1>1, <1>2, <1>5, <1>6 DEF WalkInv

\* Steps that only lead to places without a walk, or to none.
LEMMA WalkQuiet ==
  ASSUME ResetInv, NEW h \in Handlers,
         \/ SetUp(h) \/ Accept(h) \/ SigPipe(h) \/ Welcome(h) \/ Dup(h) \/ Fclose(h)
         \/ Close(h) \/ ReadChar(h) \/ TouchFreed(h) \/ Quit(h)
  PROVE  WalkInv' /\ (port' = 0 => cmd' = "none")
<1> USE DEF Goto, library, session, history, appvars
<1> DEFINE Quiet == UNCHANGED <<contents, doomed, cmd, idx, active_buffer>>
           Goes(to) == /\ pc' = [pc EXCEPT ![h] = to]
                       /\ to \notin {"read_ans", "visit", "touch", "menu"}
                       /\ to \in BeforeSession => pc[h] \in BeforeSession \/ port = 0
<1>1. Quiet /\ (port' = port \/ port' = h)
  BY DEF SetUp, Socket, Bind, Listen, Accept, SigPipe, Welcome, Dup, Fclose, Close, ReadChar,
         TouchFreed, Quit
<1>2. (\E to \in PCs : Goes(to)) \/ pc' = pc
  <2> USE DEF PCs, InSession, BeforeSession
  <2>1. CASE SetUp(h)
    BY <2>1 DEF SetUp, Socket, Bind, Listen
  <2>2. CASE Accept(h) \/ Welcome(h) \/ Dup(h)
    BY <2>2 DEF Accept, Welcome, Dup
  <2>3. CASE Fclose(h) \/ Close(h) \/ Quit(h)
    BY <2>3 DEF Fclose, Close, Quit
  <2>4. CASE SigPipe(h) \/ ReadChar(h) \/ TouchFreed(h)
    BY <2>4 DEF SigPipe, ReadChar, TouchFreed
  <2> QED
    BY <2>1, <2>2, <2>3, <2>4
<1>3. pc \in [Handlers -> PCs] /\ WalkInv /\ (port = 0 => cmd = "none")
  BY DEF ResetInv, LiveInv
<1>4. port' = 0 => cmd' = "none"
  BY <1>1, <1>3 DEF Handlers
<1>5. CASE pc' = pc
  BY <1>1, <1>3, <1>4, <1>5 DEF WalkInv, WalkAt, Passed
<1>6. ASSUME NEW to \in PCs, Goes(to), NEW g \in Handlers
      PROVE  WalkAt(g)'
  <2>1. CASE g = h
    <3>1. pc'[g] = to
      BY <1>3, <1>6, <2>1
    <3> QED
      BY <1>1, <1>3, <1>6, <2>1, <3>1 DEF WalkInv, WalkAt
  <2>2. CASE g # h
    <3>1. pc'[g] = pc[g]
      BY <1>3, <1>6, <2>2
    <3> QED
      BY <1>1, <1>3, <3>1 DEF WalkInv, WalkAt, Passed
  <2> QED
    BY <2>1, <2>2
<1> QED
  BY <1>2, <1>4, <1>5, <1>6 DEF WalkInv

\* The application logs behind the walk, but nothing that was there before it.
LEMMA WalkApp ==
  ASSUME ResetInv, App \/ AppJoined
  PROVE  WalkInv' /\ (port' = 0 => cmd' = "none")
<1> USE DEF library, session, history, appvars
<1>1. WalkInv /\ (port = 0 => cmd = "none") /\ ContentsInv /\ pc \in [Handlers -> PCs]
  BY DEF ResetInv, LiveInv
<1>2. UNCHANGED <<port, doomed, cmd, idx, active_buffer>>
  BY DEF App, AppCreate, AppLog, AppStart, AppWait, AppCleanup, AppJoined
<1>3. \A b \in Slots : contents'[b] \cap doomed \subseteq contents[b]
  <2>1. ASSUME NEW b \in Slots, AppLog(b)
        PROVE  \A c \in Slots : contents'[c] \cap doomed \subseteq contents[c]
    BY <1>1, <2>1 DEF AppLog, ContentsInv
  <2>2. CASE AppCleanup
    BY <2>2 DEF AppCleanup
  <2>3. CASE AppCreate \/ AppStart \/ AppWait \/ AppJoined
    BY <2>3 DEF AppCreate, AppStart, AppWait, AppJoined
  <2> QED
    BY <2>1, <2>2, <2>3 DEF App
<1>4. \A g \in Handlers : pc'[g] = pc[g] \/ pc'[g] = "socket"
  BY <1>1 DEF App, AppCreate, AppLog, AppStart, AppWait, AppCleanup, AppJoined
<1>5. ASSUME NEW g \in Handlers
      PROVE  WalkAt(g)'
  <2>1. CASE pc'[g] = "socket"
    BY <2>1 DEF WalkAt, BeforeSession
  <2>2. CASE pc'[g] = pc[g]
    BY <1>1, <1>2, <1>3, <2>2 DEF WalkInv, WalkAt, Passed
  <2> QED
    BY <1>4, <2>1, <2>2
<1> QED
  BY <1>1, <1>2, <1>5 DEF WalkInv

\* When a reset from the console is done, nothing is left of what was in the
\* buffers to be reset when it began, for any number of buffers and whatever
\* the application creates and logs meanwhile.
THEOREM ResetsComplete == Spec => []ResetComplete
<1>1. ResetInv /\ [Next]_vars => ResetInv'
  <2> SUFFICES ASSUME ResetInv, [Next]_vars PROVE ResetInv'
    OBVIOUS
  <2>1. LiveInv' /\ HoldInv' /\ ContentsInv'
    <3>1. CASE UNCHANGED vars
      BY <3>1, HoldStep, ContentsStep
      DEF ResetInv, vars, library, appvars, session, history, LiveInv, Alive
    <3> QED
      BY <3>1, LiveHandler, LiveApp, HoldStep, ContentsStep DEF ResetInv, Next
  <2>2. WalkInv' /\ (port' = 0 => cmd' = "none")
    <3>1. CASE UNCHANGED vars
      BY <3>1 DEF ResetInv, vars, library, appvars, session, history, WalkInv, WalkAt, Passed
    <3>2. CASE App \/ AppJoined
      BY <3>2, WalkApp
    <3>3. ASSUME NEW h \in Handlers, SetUp(h) \/ Accept(h) \/ SessionStep(h) \/ SigPipe(h)
          PROVE  WalkInv' /\ (port' = 0 => cmd' = "none")
      BY <3>3, WalkQuiet, WalkHandler DEF SessionStep, Handlers
    <3> QED
      BY <3>1, <3>2, <3>3 DEF Next
  <2> QED
    BY <2>1, <2>2 DEF ResetInv
<1>2. ResetInv => ResetComplete
  BY DEF ResetInv, WalkInv, WalkAt, ResetComplete
<1> QED
  BY ResetInit, <1>1, <1>2, PTL DEF Spec

-----------------------------------------------------------------------------
(***************************************************************************)
(* Numbers.  What the recursive Value computes is found by looking at the  *)
(* first place where it would go wrong: every set of naturals has a least  *)
(* element.                                                                *)
(***************************************************************************)
Less == {p \in Nat \X Nat : p[1] < p[2]}

LEMMA Least ==
  ASSUME NEW T, T \subseteq Nat, T # {}
  PROVE  \E n \in T : \A m \in T : n <= m
<1>1. OpToRel(<, Nat) = Less
  BY DEF OpToRel, Less
<1>2. IsWellFoundedOn(Less, Nat)
  BY <1>1, NatLessThanWellFounded
<1>3. PICK n \in T : \A m \in T : <<m, n>> \notin Less
  BY <1>2, WFMin
<1>4. ASSUME NEW m \in T, m < n
      PROVE  FALSE
  <2>1. <<m, n>> \in Nat \X Nat /\ <<m, n>>[1] < <<m, n>>[2]
    BY <1>4
  <2> QED
    BY <1>3, <2>1 DEF Less
<1> QED
  BY <1>3, <1>4

LEMMA Greatest ==
  ASSUME NEW n \in Nat, NEW T, T \subseteq 0 .. n, T # {}
  PROVE  \E k \in T : \A m \in T : m <= k
<1> DEFINE R == {n - m : m \in T}
<1>1. R \subseteq Nat /\ R # {}
  <2>1. \A m \in T : m \in 0 .. n /\ n - m \in Nat
    OBVIOUS
  <2>2. PICK m : m \in T
    OBVIOUS
  <2>3. n - m \in R
    BY <2>2
  <2> QED
    BY <2>1, <2>3
<1>2. PICK r \in R : \A m \in R : r <= m
  BY <1>1, Least
<1>3. PICK k \in T : r = n - k
  OBVIOUS
<1>4. ASSUME NEW m \in T
      PROVE  m <= k
  <2>1. n - m \in R
    OBVIOUS
  <2> QED
    BY <1>2, <1>3, <2>1
<1> QED
  BY <1>3, <1>4

\* The digits at the beginning of s have a value, whatever follows them.
LEMMA ValueType ==
  ASSUME NEW s, Len(s) \in Nat, NEW base \in 0 .. 16
  PROVE  Value(s, base) \in Nat
<1> DEFINE
      isDigit(c) == \E d \in 1 .. base : c \in Digits[d]
      Step(g, i) ==
        IF i = 0 THEN 0
        ELSE IF \A j \in 1 .. i : isDigit(s[j]) THEN g[i - 1] * base + Digit(s[i])
        ELSE g[i - 1]
      Dom == 0 .. Len(s)
      Upto(n) == \E g \in [Dom -> Nat] : \A i \in 0 .. n : g[i] = Step(g, i)
<1>1. ASSUME NEW i \in Dom, i # 0, \A j \in 1 .. i : isDigit(s[j])
      PROVE  Digit(s[i]) \in Nat
  <2>1. PICK d \in 1 .. base : s[i] \in Digits[d]
    BY <1>1
  <2>2. d - 1 \in 0 .. 15 /\ s[i] \in Digits[(d - 1) + 1]
    BY <2>1
  <2> HIDE DEF isDigit
  <2>3. PICK e \in 0 .. 15 : s[i] \in Digits[e + 1]
    BY <2>2
  <2>4. Digit(s[i]) \in 0 .. 15
    BY <2>3, Zenon DEF Digit
  <2> QED
    BY <2>4
<1>2. ASSUME NEW g \in [Dom -> Nat], NEW i \in Dom
      PROVE  Step(g, i) \in Nat
  <2>1. i # 0 => g[i - 1] \in Nat
    BY <1>2
  <2> HIDE DEF isDigit
  <2>2. CASE i # 0 /\ \A j \in 1 .. i : isDigit(s[j])
    <3>1. g[i - 1] * base \in Nat /\ Digit(s[i]) \in Nat
      BY <1>1, <2>1, <2>2
    <3> QED
      BY <2>2, <3>1
  <2>3. CASE ~(i # 0 /\ \A j \in 1 .. i : isDigit(s[j]))
    BY <2>1, <2>3
  <2> QED
    BY <2>2, <2>3
<1>3. ASSUME NEW g, NEW f, NEW i \in Dom, i # 0 => g[i - 1] = f[i - 1]
      PROVE  Step(g, i) = Step(f, i)
  BY <1>3
<1> HIDE DEF Step
<1>4. ASSUME NEW n \in Dom, \A m \in Dom : m < n => Upto(m)
      PROVE  Upto(n)
  <2>1. PICK g \in [Dom -> Nat] : \A i \in Dom : i < n => g[i] = Step(g, i)
    <3>1. CASE n = 0
      <4>1. [i \in Dom |-> 0] \in [Dom -> Nat] /\ \A i \in Dom : ~(i < n)
        BY <3>1
      <4> QED
        BY <4>1, Zenon
    <3>2. CASE n # 0
      <4>1. n - 1 \in Dom /\ n - 1 < n
        BY <3>2
      <4>2. Upto(n - 1)
        BY <1>4, <4>1
      <4>3. \A i \in Dom : i < n => i \in 0 .. n - 1
        OBVIOUS
      <4> QED
        BY <4>2, <4>3
    <3> QED
      BY <3>1, <3>2
  <2> DEFINE f == [g EXCEPT ![n] = Step(g, n)]
  <2>2. f \in [Dom -> Nat] /\ f[n] = Step(g, n) /\ \A i \in Dom : i # n => f[i] = g[i]
    BY <1>2
  <2> HIDE DEF f
  <2>3. \A i \in 0 .. n : f[i] = Step(f, i)
    <3> SUFFICES ASSUME NEW i \in 0 .. n PROVE f[i] = Step(f, i)
      OBVIOUS
    <3>1. i \in Dom /\ (i # 0 => i - 1 \in Dom /\ i - 1 # n)
      OBVIOUS
    <3>2. Step(f, i) = Step(g, i)
      BY <1>3, <2>2, <3>1
    <3> QED
      BY <2>1, <2>2, <3>1, <3>2
  <2> QED
    BY <2>2, <2>3
<1>5. \A n \in Dom : Upto(n)
  <2> SUFFICES ASSUME \E n \in Dom : ~Upto(n) PROVE FALSE
    OBVIOUS
  <2> DEFINE Bad == {n \in Dom : ~Upto(n)}
  <2>1. PICK n \in Bad : \A m \in Bad : n <= m
    <3>1. Bad \subseteq Nat /\ Bad # {}
      OBVIOUS
    <3> QED
      BY <3>1, Least
  <2>2. \A m \in Dom : m < n => Upto(m)
    BY <2>1
  <2> HIDE DEF Upto
  <2> QED
    BY <1>4, <2>1, <2>2
<1>6. PICK g \in [Dom -> Nat] : g = [i \in Dom |-> Step(g, i)]
  <2>0. Len(s) \in Dom
    OBVIOUS
  <2>1. PICK g \in [Dom -> Nat] : \A i \in Dom : g[i] = Step(g, i)
    BY <1>5, <2>0, Zenon
  <2>2. g = [i \in Dom |-> g[i]]
    OBVIOUS
  <2>3. [i \in Dom |-> g[i]] = [i \in Dom |-> Step(g, i)]
    BY <2>1, Zenon
  <2> QED
    BY <2>2, <2>3, Zenon
<1> DEFINE upTo == CHOOSE f : f = [i \in Dom |-> Step(f, i)]
<1>7. upTo = [i \in Dom |-> Step(upTo, i)]
  BY <1>6
<1>8. Value(s, base) = upTo[Len(s)]
  BY DEF Value, Step
<1> HIDE DEF upTo
<1>9. \A i \in Dom : upTo[i] = g[i]
  <2> SUFFICES ASSUME \E i \in Dom : upTo[i] # g[i] PROVE FALSE
    OBVIOUS
  <2> DEFINE Bad == {i \in Dom : upTo[i] # g[i]}
  <2>1. PICK n \in Bad : \A m \in Bad : n <= m
    <3>1. Bad \subseteq Nat /\ Bad # {}
      OBVIOUS
    <3> QED
      BY <3>1, Least
  <2>2. n # 0 => n - 1 \in Dom /\ upTo[n - 1] = g[n - 1]
    BY <2>1
  <2>3. Step(upTo, n) = Step(g, n)
    BY <1>3, <2>1, <2>2
  <2> QED
    BY <1>6, <1>7, <2>1, <2>3
<1> QED
  BY <1>8, <1>9

LEMMA NumberType ==
  ASSUME NEW s \in Seq(STRING)
  PROVE  Number(s) \in Int
<1>1. ASSUME NEW u \in Seq(STRING)
      PROVE  Unsigned(u) \in Nat
  <2>1. Value(u, 8) \in Nat /\ Value(u, 10) \in Nat
    BY ValueType
  <2>2. Len(u) > 1 => Value(SubSeq(u, 3, Len(u)), 16) \in Nat
    <3>1. SubSeq(u, 3, Len(u)) \in Seq(STRING)
      OBVIOUS
    <3> QED
      BY <3>1, ValueType
  <2> QED
    BY <2>1, <2>2 DEF Unsigned
<1>2. ASSUME NEW u \in Seq(STRING)
      PROVE  Signed(u) \in Int
  <2>1. CASE u = <<>> \/ u[1] \notin {"-", "+"}
    <3>1. Unsigned(u) \in Int
      BY <1>1
    <3> QED
      BY <2>1, <3>1, Zenon DEF Signed
  <2>2. CASE ~(u = <<>> \/ u[1] \notin {"-", "+"})
    <3>0. u # <<>>
      BY <2>2, Zenon
    <3>1. Tail(u) \in Seq(STRING)
      BY <3>0
    <3>2. \A n \in Nat : n \in Int /\ -n \in Int
      OBVIOUS
    <3>3. Unsigned(Tail(u)) \in Int /\ -Unsigned(Tail(u)) \in Int
      BY <1>1, <3>1, <3>2, Zenon
    <3> QED
      BY <2>2, <3>3, Zenon DEF Signed
  <2> QED
    BY <2>1, <2>2
<1> DEFINE blanks == {i \in 1 .. Len(s) : \A j \in 1 .. i : s[j] \in Blanks}
<1>3. Cardinality(blanks) \in Nat
  <2>1. IsFiniteSet(1 .. Len(s))
    BY FS_Interval
  <2>2. IsFiniteSet(blanks)
    BY <2>1, FS_Subset, Zenon
  <2> QED
    BY <2>2, FS_CardinalityType
<1> HIDE DEF blanks
<1>4. SubSeq(s, Cardinality(blanks) + 1, Len(s)) \in Seq(STRING)
  BY <1>3
<1> QED
  BY <1>2, <1>4, Zenon DEF Number, blanks

\* A chosen buffer is a byte, also where the answer was negative.
LEMMA ChosenType ==
  ASSUME NEW s \in Seq(STRING)
  PROVE  Chosen(s) \in 0 .. 255
<1>1. \A z \in Int : z % 256 \in 0 .. 255
  OBVIOUS
<1>2. Number(s) % 256 \in 0 .. 255
  BY <1>1, NumberType
<1>3. 0 \in 0 .. 255
  OBVIOUS
<1> QED
  BY <1>2, <1>3, Zenon DEF Chosen

-----------------------------------------------------------------------------
(***************************************************************************)
(* Types.                                                                  *)
(***************************************************************************)
\* Nothing is read, and nothing selected, before the session.
Fresh == pos = 0 /\ active_buffer = 0
FreshInv ==
  /\ port = 0 => Fresh
  /\ \A h \in Handlers : pc[h] \in BeforeSession => Fresh

\* A walk over all buffers stays in the table, one over the active buffer at
\* it; the loop's variable is zero when none is under way.
VisitAt(h) ==
  pc[h] \in {"visit", "touch"} =>
    /\ cmd \in Prints \cup Resets
    /\ IF cmd \in {"4", "6"} THEN idx \in Slots ELSE idx = active_buffer
VisitInv ==
  /\ idx = 0 \/ \E h \in Handlers : pc[h] \in {"visit", "touch"}
  /\ \A h \in Handlers : VisitAt(h)

LibTypes ==
  /\ inited \in BOOLEAN /\ enabled \in BOOLEAN
  /\ created \subseteq Slots
  /\ contents \in [Slots -> SUBSET Messages]
  /\ messages \in 0 .. MaxMessages
  /\ logged \in [Slots -> SUBSET Messages]
  /\ doomed \subseteq Messages
  /\ abandoned \in BOOLEAN

\* That characters are strings plays no part in the proofs.
Chars == STRING

InputType == input \in Inputs \cup {<<>>}
ReadTypes ==
  /\ InputType /\ input \in Seq(Chars) /\ pos \in 0 .. Len(input)
  /\ active_buffer \in 0 .. 255
  /\ line \in Seq(Chars) /\ Len(line) < LineLen
  /\ cmd \in {"none"} \cup Chars

PartyTypes ==
  /\ app \in {"run", "waiting", "over", "killed"}
  /\ port \in 0 .. MaxStarts

TypesInv ==
  /\ LiveInv /\ HoldInv
  /\ LibTypes /\ ReadTypes /\ PartyTypes /\ FreshInv /\ VisitInv

LEMMA TypesAreTypes == TypesInv => ServerTypeOK
<1> SUFFICES ASSUME TypesInv PROVE ServerTypeOK
  OBVIOUS
<1>1. handle \in 0 .. MaxStarts /\ starts \in 0 .. MaxStarts /\ pc \in [Handlers -> PCs]
  BY ServerConstants DEF TypesInv, LiveInv
<1>2. idx \in Slots \cup {active_buffer}
  BY ServerConstants DEF TypesInv, VisitInv, VisitAt, Slots
<1>3. LibTypes /\ ReadTypes /\ PartyTypes /\ open \in [Handlers -> SUBSET {"server_sock", "conn_sock", "fd"}]
  BY DEF TypesInv, HoldInv
<1> QED
  BY <1>1, <1>2, <1>3, Zenon DEF LibTypes, ReadTypes, PartyTypes, InputType, Chars, ServerTypeOK

LEMMA NoChars == <<>> \in Seq(Chars) /\ Len(<<>>) = 0
OBVIOUS

LEMMA TypesInit == Init => TypesInv
<1> SUFFICES ASSUME Init PROVE TypesInv
  OBVIOUS
<1>1. LibTypes /\ PartyTypes
  <2>1. contents \in [Slots -> SUBSET Messages] /\ logged \in [Slots -> SUBSET Messages]
    BY DEF Init
  <2>2. created \subseteq Slots /\ messages \in 0 .. MaxMessages
    BY ServerConstants DEF Init, Slots
  <2>3. inited \in BOOLEAN /\ enabled \in BOOLEAN /\ abandoned \in BOOLEAN /\ doomed \subseteq Messages
    BY DEF Init
  <2>4. PartyTypes
    BY ServerConstants DEF Init, PartyTypes
  <2> QED
    BY <2>1, <2>2, <2>3, <2>4 DEF LibTypes
<1>2. ReadTypes
  <2>1. InputType
    BY Zenon DEF Init, InputType
  <2>2. input \in Seq(Chars) /\ line \in Seq(Chars) /\ Len(line) = 0 /\ Len(input) = 0
    BY NoChars DEF Init
  <2>3. pos = 0 /\ active_buffer = 0 /\ cmd \in {"none"} \cup Chars
    BY DEF Init
  <2> QED
    BY <2>1, <2>2, <2>3, ServerConstants DEF ReadTypes
<1>3. FreshInv /\ VisitInv
  BY DEF Init, FreshInv, Fresh, VisitInv, VisitAt
<1> QED
  BY <1>1, <1>2, <1>3, LiveInit, HoldInit DEF TypesInv

\* The steps by what they change.
LEMMA LibTypesStep == TypesInv /\ [Next]_vars => LibTypes'
<1> SUFFICES ASSUME TypesInv, [Next]_vars PROVE LibTypes'
  OBVIOUS
<1> USE DEF TypesInv, LibTypes, library, history
<1>1. CASE AppCreate
  BY <1>1 DEF AppCreate
<1>2. ASSUME NEW b \in Slots, AppLog(b)
      PROVE  LibTypes'
  <2>1. messages' \in Messages /\ messages' \in 0 .. MaxMessages
    BY <1>2, ServerConstants DEF AppLog, Messages
  <2> QED
    BY <1>2, <2>1 DEF AppLog
<1>3. CASE AppStart
  <2>1. abandoned' \in BOOLEAN
    BY <1>3, Zenon DEF AppStart, Unjoined
  <2> QED
    BY <1>3, <2>1 DEF AppStart
<1>4. CASE AppCleanup
  BY <1>4 DEF AppCleanup
<1>5. CASE AppWait \/ AppJoined \/ UNCHANGED vars
  BY <1>5 DEF AppWait, AppJoined, vars
<1>6. ASSUME NEW h \in Handlers, BeginVisits(h)
      PROVE  LibTypes'
  BY <1>6 DEF BeginVisits, ToBeCleared
<1>7. ASSUME NEW h \in Handlers, Touch(h)
      PROVE  LibTypes'
  BY <1>7 DEF Touch
<1>8. ASSUME NEW h \in Handlers, Toggle(h)
      PROVE  LibTypes'
  BY <1>8 DEF Toggle
<1>9. ASSUME NEW h \in Handlers,
             SetUp(h) \/ Accept(h) \/ SigPipe(h) \/ Welcome(h) \/ Dup(h) \/ Fdopen(h)
      PROVE  LibTypes'
  BY <1>9 DEF SetUp, Socket, Bind, Listen, Accept, SigPipe, Welcome, Dup, Fdopen
<1>10. ASSUME NEW h \in Handlers,
              \/ Fclose(h) \/ Close(h) \/ Menu(h) \/ ReadChar(h) \/ ReadCommand(h)
              \/ ReadAnswer(h) \/ ReadStops(h)
       PROVE  LibTypes'
  BY <1>10 DEF Fclose, Close, Menu, ReadChar, ReadCommand, ReadAnswer, ReadStops
<1>11. ASSUME NEW h \in Handlers,
              Select(h) \/ Visit(h) \/ Skip(h) \/ TouchFreed(h) \/ Quit(h) \/ Other(h)
       PROVE  LibTypes'
  BY <1>11 DEF Select, Visit, Skip, TouchFreed, Quit, Other
<1> QED
  BY <1>1, <1>2, <1>3, <1>4, <1>5, <1>6, <1>7, <1>8, <1>9, <1>10, <1>11
  DEF Next, App, SessionStep

LEMMA PartyTypesStep == TypesInv /\ [Next]_vars => PartyTypes'
<1> SUFFICES ASSUME TypesInv, [Next]_vars PROVE PartyTypes'
  OBVIOUS
<1> USE DEF TypesInv, PartyTypes, appvars
<1>1. CASE App \/ AppJoined
  BY <1>1 DEF App, AppCreate, AppLog, AppStart, AppWait, AppCleanup, AppJoined
<1>2. ASSUME NEW h \in Handlers, SetUp(h) \/ Accept(h) \/ SigPipe(h)
      PROVE  PartyTypes'
  BY <1>2 DEF SetUp, Socket, Bind, Listen, Accept, SigPipe, Handlers
<1>3. ASSUME NEW h \in Handlers, SessionStep(h)
      PROVE  PartyTypes'
  BY <1>3 DEF SessionStep, Welcome, Dup, Fdopen, Fclose, Close, Menu, ReadChar, ReadCommand,
     ReadAnswer, ReadStops, Select, BeginVisits, Visit, Touch, Skip, TouchFreed, Toggle, Quit,
     Other
<1>4. CASE UNCHANGED vars
  BY <1>4 DEF vars
<1> QED
  BY <1>1, <1>2, <1>3, <1>4 DEF Next

\* Reading: an answer selects a byte, and the array is never too short.
LEMMA ReadTypesStep == TypesInv /\ [Next]_vars => ReadTypes'
<1> SUFFICES ASSUME TypesInv, [Next]_vars PROVE ReadTypes'
  OBVIOUS
<1> USE DEF TypesInv, ReadTypes, session
<1>0. input' = input => InputType'
  BY DEF InputType
<1>1. CASE App \/ AppJoined \/ UNCHANGED vars
  BY <1>0, <1>1 DEF App, AppCreate, AppLog, AppStart, AppWait, AppCleanup, AppJoined, vars
<1>2. ASSUME NEW h \in Handlers, SetUp(h) \/ SigPipe(h)
      PROVE  ReadTypes'
  BY <1>0, <1>2 DEF SetUp, Socket, Bind, Listen, SigPipe
<1>3. ASSUME NEW h \in Handlers, Accept(h)
      PROVE  ReadTypes'
  <2>1. pos = 0
    BY <1>0, <1>3 DEF Accept, Goto, FreshInv, Fresh, BeforeSession
  <2>2. input' \in Seq(Chars) /\ InputType'
    <3>1. CASE input' \in Inputs
      BY <3>1, ServerConstants DEF InputType, Chars
    <3>2. CASE input' = input
      BY <1>0, <3>2
    <3> QED
      BY <1>0, <1>3, <3>1, <3>2 DEF Accept
  <2> QED
    BY <1>0, <1>3, <2>1, <2>2 DEF Accept
<1>4. ASSUME NEW h \in Handlers, ReadChar(h)
      PROVE  ReadTypes'
  <2>1. pos' = pos + 1 /\ pos' \in 1 .. Len(input) /\ input[pos'] \in Chars
    BY <1>0, <1>4 DEF ReadChar, AtEnd
  <2>2. line' \in Seq(Chars) /\ Len(line') < LineLen
    <3>1. Char \in Chars /\ Len(Append(line, Char)) = Len(line) + 1
      BY <2>1 DEF Char
    <3>2. CASE Len(line) < LineLen - 1
      <4>1. line' = Append(line, Char)
        BY <1>0, <1>4, <3>2 DEF ReadChar
      <4> QED
        BY <3>1, <3>2, <4>1, ServerConstants
    <3>3. CASE ~(Len(line) < LineLen - 1)
      BY <1>0, <1>4, <3>3 DEF ReadChar
    <3> QED
      BY <3>2, <3>3
  <2>3. input' = input /\ active_buffer' = active_buffer /\ cmd' = cmd
    BY <1>0, <1>4 DEF ReadChar
  <2> QED
    BY <1>0, <2>1, <2>2, <2>3
<1>5. ASSUME NEW h \in Handlers, ReadCommand(h) \/ ReadAnswer(h) \/ ReadStops(h)
      PROVE  ReadTypes'
  <2>1. pos' \in 0 .. Len(input) /\ input' = input /\ line' = line
    BY <1>0, <1>5 DEF ReadCommand, ReadAnswer, ReadStops, AtEnd
  <2>2. cmd' \in {"none"} \cup Chars
    BY <1>0, <1>5 DEF ReadCommand, ReadAnswer, ReadStops
  <2>3. active_buffer' \in 0 .. 255
    BY <1>0, <1>5, ChosenType DEF Chars, ReadCommand, ReadAnswer, ReadStops
  <2> QED
    BY <1>0, <2>1, <2>2, <2>3
<1>6. ASSUME NEW h \in Handlers, Menu(h) \/ Select(h)
      PROVE  ReadTypes'
  <2>1. line' = <<>> /\ UNCHANGED <<input, pos, active_buffer>> /\ cmd' \in {"none"} \cup Chars
    BY <1>0, <1>6 DEF Menu, Select
  <2>2. line' \in Seq(Chars) /\ Len(line') < LineLen
    BY <2>1, NoChars, ServerConstants
  <2> QED
    BY <1>0, <2>1, <2>2
<1>7. ASSUME NEW h \in Handlers, Welcome(h) \/ Dup(h) \/ Fdopen(h) \/ Fclose(h) \/ Close(h)
      PROVE  ReadTypes'
  <2>1. UNCHANGED <<input, pos, active_buffer, line, cmd>>
    BY <1>7 DEF Welcome, Dup, Fdopen, Fclose, Close
  <2> QED
    BY <1>0, <2>1
<1>8. ASSUME NEW h \in Handlers,
             \/ BeginVisits(h) \/ Visit(h) \/ Touch(h) \/ Skip(h) \/ TouchFreed(h)
             \/ Toggle(h) \/ Quit(h) \/ Other(h)
      PROVE  ReadTypes'
  <2>1. UNCHANGED <<input, pos, active_buffer, line, cmd>>
    BY <1>8 DEF BeginVisits, Visit, Touch, Skip, TouchFreed, Toggle, Quit, Other
  <2> QED
    BY <1>0, <2>1
<1> QED
  BY <1>1, <1>2, <1>3, <1>4, <1>5, <1>6, <1>7, <1>8 DEF Next, SessionStep

\* Whoever is past binding has the session to itself.
LEMMA Alone ==
  ASSUME HoldInv, NEW h \in Handlers, pc[h] \in Bound
  PROVE  port = h /\ port # 0 /\ \A g \in Handlers : g # h => pc[g] \notin Bound
BY DEF HoldInv, Handlers

\* The steps before the session, and those that end it, by what they leave.
LEMMA OutsideStep ==
  ASSUME NEW h \in Handlers,
         SetUp(h) \/ Accept(h) \/ Welcome(h) \/ Dup(h) \/ Fdopen(h) \/ Fclose(h) \/ Close(h)
  PROVE  /\ UNCHANGED <<pos, session>>
         /\ port' = port \/ (pc[h] = "bind" /\ port = 0 /\ port' = h)
         /\ \E to \in PCs :
              /\ pc' = [pc EXCEPT ![h] = to]
              /\ pc[h] \notin {"visit", "touch"} /\ to \notin {"visit", "touch"}
              /\ to \in BeforeSession => pc[h] \in BeforeSession \/ port = 0
<1> USE DEF Goto, PCs, InSession, BeforeSession
<1>1. CASE SetUp(h)
  BY <1>1 DEF SetUp, Socket, Bind, Listen
<1>2. CASE Accept(h) \/ Welcome(h) \/ Dup(h)
  BY <1>2 DEF Accept, Welcome, Dup
<1>3. CASE Fdopen(h) \/ Fclose(h) \/ Close(h)
  BY <1>3 DEF Fdopen, NoStream, Fclose, Close
<1> QED
  BY <1>1, <1>2, <1>3

\* The steps of the session itself: h has the port, and stays in the session.
LEMMA InsideStep ==
  ASSUME TypesInv, NEW h \in Handlers,
         \/ Menu(h) \/ ReadChar(h) \/ ReadCommand(h) \/ ReadAnswer(h) \/ ReadStops(h)
         \/ Select(h) \/ BeginVisits(h) \/ Visit(h) \/ Touch(h) \/ Skip(h) \/ Toggle(h)
         \/ Quit(h) \/ Other(h)
  PROVE  /\ pc[h] \in InSession /\ pc'[h] \in InSession
         /\ port = h /\ port # 0 /\ UNCHANGED <<port, input>>
         /\ \A g \in Handlers : g # h => pc[g] \notin Bound /\ pc'[g] = pc[g]
<1>1. pc \in [Handlers -> PCs]
  BY DEF TypesInv, HoldInv
<1>2. /\ pc[h] \in InSession /\ UNCHANGED <<port, input>>
      /\ pc' = pc \/ \E to \in InSession : pc' = [pc EXCEPT ![h] = to]
  <2> USE DEF Goto, InSession
  <2>1. CASE Menu(h) \/ ReadChar(h) \/ ReadCommand(h) \/ ReadAnswer(h) \/ ReadStops(h)
    BY <2>1 DEF Menu, ReadChar, Reading, ReadCommand, ReadAnswer, ReadStops
  <2>2. CASE Select(h) \/ BeginVisits(h) \/ Toggle(h) \/ Quit(h) \/ Other(h)
    BY <2>2 DEF Select, BeginVisits, Toggle, Quit, Other
  <2>3. CASE Visit(h) \/ Touch(h) \/ Skip(h)
    BY <2>3 DEF Visit, Touch, Skip, NextVisit
  <2> QED
    BY <2>1, <2>2, <2>3
<1>3. port = h /\ port # 0 /\ \A g \in Handlers : g # h => pc[g] \notin Bound
  BY <1>2, Alone DEF TypesInv, Bound
<1> QED
  BY <1>1, <1>2, <1>3

\* The application and the end of the program move no handler but a new one.
LEMMA OtherStep ==
  ASSUME TypesInv,
         \/ App \/ AppJoined \/ UNCHANGED vars
         \/ \E h \in Handlers : SigPipe(h) \/ TouchFreed(h)
  PROVE  /\ UNCHANGED <<port, input, pos, session>>
         /\ \A g \in Handlers : pc'[g] = pc[g] \/ (pc[g] = "off" /\ pc'[g] = "socket")
<1> USE DEF session
<1>1. CASE AppStart
  <2>1. starts' \in Handlers /\ starts' = starts + 1 /\ pc' = [pc EXCEPT ![starts'] = "socket"]
    BY <1>1, ServerConstants DEF AppStart, TypesInv, LiveInv, Handlers
  <2>2. pc[starts'] = "off" /\ pc \in [Handlers -> PCs]
    BY <2>1 DEF TypesInv, HoldInv
  <2> QED
    BY <1>1, <2>1, <2>2 DEF AppStart
<1>2. CASE AppCreate \/ (\E b \in Slots : AppLog(b)) \/ AppWait \/ AppCleanup \/ AppJoined
  BY <1>2 DEF AppCreate, AppLog, AppWait, AppCleanup, AppJoined
<1>3. CASE UNCHANGED vars \/ \E h \in Handlers : SigPipe(h) \/ TouchFreed(h)
  BY <1>3 DEF vars, SigPipe, TouchFreed
<1> QED
  BY <1>1, <1>2, <1>3 DEF App

\* Every step is one of the three.
LEMMA StepKinds ==
  ASSUME [Next]_vars
  PROVE  \/ App \/ AppJoined \/ UNCHANGED vars
         \/ \E h \in Handlers : SigPipe(h) \/ TouchFreed(h)
         \/ \E h \in Handlers :
              SetUp(h) \/ Accept(h) \/ Welcome(h) \/ Dup(h) \/ Fdopen(h) \/ Fclose(h) \/ Close(h)
         \/ \E h \in Handlers :
              \/ Menu(h) \/ ReadChar(h) \/ ReadCommand(h) \/ ReadAnswer(h) \/ ReadStops(h)
              \/ Select(h) \/ BeginVisits(h) \/ Visit(h) \/ Touch(h) \/ Skip(h) \/ Toggle(h)
              \/ Quit(h) \/ Other(h)
BY DEF Next, SessionStep

LEMMA FreshStep == TypesInv /\ [Next]_vars => FreshInv'
<1> SUFFICES ASSUME TypesInv, [Next]_vars PROVE FreshInv'
  OBVIOUS
<1>1. FreshInv /\ pc \in [Handlers -> PCs]
  BY DEF TypesInv, HoldInv
<1>2. CASE \/ App \/ AppJoined \/ UNCHANGED vars
           \/ \E h \in Handlers : SigPipe(h) \/ TouchFreed(h)
  BY <1>1, <1>2, OtherStep DEF FreshInv, Fresh, session, BeforeSession
<1>3. ASSUME NEW h \in Handlers,
             SetUp(h) \/ Accept(h) \/ Welcome(h) \/ Dup(h) \/ Fdopen(h) \/ Fclose(h) \/ Close(h)
      PROVE  FreshInv'
  BY <1>1, <1>3, OutsideStep DEF FreshInv, Fresh, session, Handlers
<1>4. ASSUME NEW h \in Handlers,
             \/ Menu(h) \/ ReadChar(h) \/ ReadCommand(h) \/ ReadAnswer(h) \/ ReadStops(h)
             \/ Select(h) \/ BeginVisits(h) \/ Visit(h) \/ Touch(h) \/ Skip(h) \/ Toggle(h)
             \/ Quit(h) \/ Other(h)
      PROVE  FreshInv'
  BY <1>4, InsideStep DEF FreshInv, InSession, BeforeSession, Bound, Waiting
<1> QED
  BY <1>2, <1>3, <1>4, StepKinds

LEMMA VisitStep == TypesInv /\ [Next]_vars => VisitInv'
<1> SUFFICES ASSUME TypesInv, [Next]_vars PROVE VisitInv'
  OBVIOUS
<1>1. VisitInv /\ pc \in [Handlers -> PCs]
  BY DEF TypesInv, HoldInv
<1>2. CASE \/ App \/ AppJoined \/ UNCHANGED vars
           \/ \E h \in Handlers : SigPipe(h) \/ TouchFreed(h)
  BY <1>1, <1>2, OtherStep DEF VisitInv, VisitAt, session
<1>3. ASSUME NEW h \in Handlers,
             SetUp(h) \/ Accept(h) \/ Welcome(h) \/ Dup(h) \/ Fdopen(h) \/ Fclose(h) \/ Close(h)
      PROVE  VisitInv'
  BY <1>1, <1>3, OutsideStep DEF VisitInv, VisitAt, session
<1>4. ASSUME NEW h \in Handlers,
             \/ Menu(h) \/ ReadChar(h) \/ ReadCommand(h) \/ ReadAnswer(h) \/ ReadStops(h)
             \/ Select(h) \/ BeginVisits(h) \/ Visit(h) \/ Touch(h) \/ Skip(h) \/ Toggle(h)
             \/ Quit(h) \/ Other(h)
      PROVE  VisitInv'
  <2>1. /\ pc[h] \in InSession
        /\ \A g \in Handlers : g # h => pc[g] \notin Bound /\ pc'[g] = pc[g]
    BY <1>4, InsideStep
  <2>2. pc[h] \notin {"visit", "touch"} => idx = 0
    BY <1>1, <2>1 DEF VisitInv, Bound, InSession
  <2>3. ASSUME idx' = 0 \/ pc'[h] \in {"visit", "touch"}, VisitAt(h)'
        PROVE  VisitInv'
    BY <2>1, <2>3 DEF VisitInv, VisitAt, Bound, InSession
  <2>4. CASE Menu(h) \/ ReadChar(h) \/ ReadCommand(h) \/ ReadAnswer(h) \/ ReadStops(h)
    <3>1. pc'[h] \notin {"visit", "touch"} /\ pc[h] \notin {"visit", "touch"} /\ idx' = idx
      BY <1>1, <2>4 DEF Menu, ReadChar, Reading, ReadCommand, ReadAnswer, ReadStops, Goto, session
    <3> QED
      BY <2>2, <2>3, <3>1 DEF VisitAt
  <2>5. CASE Select(h) \/ Toggle(h) \/ Quit(h) \/ Other(h)
    <3>1. pc'[h] \notin {"visit", "touch"} /\ pc[h] \notin {"visit", "touch"} /\ idx' = idx
      BY <1>1, <2>5 DEF Select, Toggle, Quit, Other, Goto, session
    <3> QED
      BY <2>2, <2>3, <3>1 DEF VisitAt
  <2>6. CASE BeginVisits(h)
    <3>1. /\ pc'[h] = "visit" /\ cmd' = cmd /\ active_buffer' = active_buffer
          /\ cmd \in Prints \cup Resets /\ idx' = FirstVisited
      BY <1>1, <2>6 DEF BeginVisits, Goto
    <3>2. 0 \in Slots
      BY ServerConstants DEF Slots
    <3> QED
      BY <2>3, <3>1, <3>2 DEF VisitAt, FirstVisited
  <2>7. CASE Visit(h)
    BY <1>1, <2>3, <2>7 DEF Visit, Goto, session, VisitInv, VisitAt
  <2>8. CASE Touch(h) \/ Skip(h)
    <3>1. /\ cmd' = cmd /\ active_buffer' = active_buffer
          /\ pc[h] \in {"visit", "touch"}
          /\ pc'[h] = IF idx = LastVisited THEN "menu" ELSE "visit"
          /\ idx' = IF idx = LastVisited THEN 0 ELSE idx + 1
      BY <1>1, <2>8 DEF Touch, Skip, NextVisit, Goto
    <3>2. VisitAt(h)
      BY <1>1 DEF VisitInv
    <3>3. CASE idx = LastVisited
      BY <2>3, <3>1, <3>3 DEF VisitAt
    <3>4. CASE idx # LastVisited
      <4>1. cmd \in {"4", "6"} /\ idx \in Slots /\ idx # MaxBufs - 1
        BY <3>1, <3>2, <3>4 DEF VisitAt, LastVisited, LastSlot
      <4>2. idx + 1 \in Slots
        BY <4>1, ServerConstants DEF Slots
      <4> QED
        BY <2>3, <3>1, <3>2, <3>4, <4>1, <4>2 DEF VisitAt
    <3> QED
      BY <3>3, <3>4
  <2> QED
    BY <1>4, <2>4, <2>5, <2>6, <2>7, <2>8
<1> QED
  BY <1>2, <1>3, <1>4, StepKinds

LEMMA TypesStep == TypesInv /\ [Next]_vars => TypesInv'
<1> SUFFICES ASSUME TypesInv, [Next]_vars PROVE TypesInv'
  OBVIOUS
<1>1. LiveInv'
  <2>1. CASE UNCHANGED vars
    BY <2>1 DEF TypesInv, vars, library, appvars, session, history, LiveInv, Alive
  <2> QED
    BY <2>1, LiveHandler, LiveApp DEF Next, TypesInv
<1>2. HoldInv'
  BY HoldStep DEF TypesInv
<1> QED
  BY <1>1, <1>2, LibTypesStep, PartyTypesStep, ReadTypesStep, FreshStep, VisitStep
  DEF TypesInv

LEMMA TypesAlways == Spec => []TypesInv
BY TypesInit, TypesStep, PTL DEF Spec

\* All variables keep their types, whatever the client sends: above all, what
\* an answer selects is a byte, the line never outgrows its array, and a visit
\* stays in the table of buffers or at the one selected.
THEOREM ServerTypeCorrect == Spec => []ServerTypeOK
BY TypesAlways, TypesAreTypes, PTL

-----------------------------------------------------------------------------
(***************************************************************************)
(* What an input asks for, as SessionFollowsInput reads it, by its text t  *)
(* and the set E of places where its lines end: so that two states can be  *)
(* compared.                                                               *)
(***************************************************************************)
Rank(E, i) == Cardinality({j \in E : j <= i})
EndOf(E, k) == CHOOSE i \in E : Rank(E, i) = k
BeginOf(E, k) == IF k = 1 THEN 1 ELSE EndOf(E, k - 1) + 1

TextOf(t, E, k) ==
  LET full == BeginOf(E, k) + LineLen - 2
  IN  SubSeq(t, BeginOf(E, k), IF EndOf(E, k) - 1 < full THEN EndOf(E, k) - 1 ELSE full)

WholeOf(t, E, k) == t[EndOf(E, k)] = NL /\ TextOf(t, E, k) # <<>>

AsksOf(t, E) ==
  LET asks[k \in 0 .. Cardinality(E)] ==
        k > 0 /\ ~asks[k - 1] /\ WholeOf(t, E, k) /\ TextOf(t, E, k)[1] = "2"
  IN  asks

CommandOf(t, E, k) ==
  IF k = 0 \/ AsksOf(t, E)[k - 1] THEN "none"
  ELSE IF WholeOf(t, E, k) THEN TextOf(t, E, k)[1] ELSE "q"

AnswersOf(t, E, n) == {k \in 1 .. n : AsksOf(t, E)[k - 1] /\ WholeOf(t, E, k)}
LastOf(A) == CHOOSE k \in A : \A j \in A : j <= k
ActiveOf(t, E, n) ==
  IF AnswersOf(t, E, n) = {} THEN 0
  ELSE Meant(TextOf(t, E, LastOf(AnswersOf(t, E, n))))

LEMMA SameAsks == Asks = AsksOf(input, Ends)
BY DEF Asks, AsksOf, Lines, Whole, WholeOf, Text, TextOf, Begin, BeginOf, End, EndOf, Rank

LEMMA SameText ==
  \A k : Text(k) = TextOf(input, Ends, k) /\ (Whole(k) <=> WholeOf(input, Ends, k))
BY DEF Whole, WholeOf, Text, TextOf, Begin, BeginOf, End, EndOf, Rank

LEMMA SameCommand == \A k : Command(k) = CommandOf(input, Ends, k)
BY SameAsks, SameText DEF Command, CommandOf

LEMMA SameActive == \A n : ActiveAfter(n) = ActiveOf(input, Ends, n)
BY DEF ActiveAfter, ActiveOf, LastOf, AnswersOf, Asks, AsksOf, Lines, Whole, WholeOf, Text, TextOf,
       Begin, BeginOf, End, EndOf, Rank

-----------------------------------------------------------------------------
(***************************************************************************)
(* The ends of lines, numbered from the first, in the first p characters.  *)
(***************************************************************************)
LEMMA RankType ==
  ASSUME NEW p \in Nat, NEW E \in SUBSET (1 .. p)
  PROVE  /\ IsFiniteSet(E) /\ Cardinality(E) \in Nat
         /\ \A i : Rank(E, i) \in 0 .. Cardinality(E)
         /\ \A i \in Int : p <= i => Rank(E, i) = Cardinality(E)
         /\ Rank(E, 0) = 0
<1>1. IsFiniteSet(E) /\ Cardinality(E) \in Nat
  <2>1. E \subseteq 1 .. p /\ 1 \in Int /\ p \in Int
    OBVIOUS
  <2>2. IsFiniteSet(1 .. p)
    BY <2>1, FS_Interval
  <2>3. IsFiniteSet(E)
    BY <2>1, <2>2, FS_Subset, Zenon
  <2> QED
    BY <2>3, FS_CardinalityType, Zenon
<1>2. ASSUME NEW i
      PROVE  Rank(E, i) \in 0 .. Cardinality(E)
  <2>1. {j \in E : j <= i} \subseteq E
    OBVIOUS
  <2>2. /\ IsFiniteSet({j \in E : j <= i})
        /\ Cardinality({j \in E : j <= i}) <= Cardinality(E)
    BY <1>1, <2>1, FS_Subset
  <2>3. Cardinality({j \in E : j <= i}) \in Nat
    BY <2>2, FS_CardinalityType
  <2> QED
    BY <1>1, <2>2, <2>3 DEF Rank
<1>3. ASSUME NEW i \in Int, p <= i
      PROVE  Rank(E, i) = Cardinality(E)
  <2>1. \A j \in E : j <= i
    BY <1>3
  <2>2. {j \in E : j <= i} = E
    BY <2>1, Zenon
  <2> QED
    BY <2>2 DEF Rank
<1>4. Rank(E, 0) = 0
  <2>1. \A j \in E : ~(j <= 0)
    OBVIOUS
  <2>2. {j \in E : j <= 0} = {}
    BY <2>1, Zenon
  <2> QED
    BY <2>2, FS_EmptySet DEF Rank
<1> QED
  BY <1>1, <1>2, <1>3, <1>4

LEMMA RankGrows ==
  ASSUME NEW p \in Nat, NEW E \in SUBSET (1 .. p), NEW i \in 0 .. p, NEW n \in E, i < n
  PROVE  /\ Rank(E, i) < Rank(E, n)
         /\ i = n - 1 => Rank(E, n) = Rank(E, i) + 1
<1> DEFINE Low == {j \in E : j <= i}
           High == {j \in E : j <= n}
<1>0. \A j \in E : /\ j <= i => j <= n
                   /\ i = n - 1 /\ j <= n => j <= i \/ j = n
  OBVIOUS
<1>1. IsFiniteSet(E) /\ Low \subseteq High /\ High \subseteq E /\ n \notin Low /\ n \in High
  <2>1. n <= n /\ ~(n <= i)
    OBVIOUS
  <2> QED
    BY <1>0, <2>1, RankType, Zenon
<1>2. IsFiniteSet(Low) /\ IsFiniteSet(High)
  BY <1>1, FS_Subset
<1>3. Cardinality(Low \cup {n}) = Cardinality(Low) + 1 /\ Low \cup {n} \subseteq High
  BY <1>1, <1>2, FS_AddElement
<1>4. Cardinality(Low \cup {n}) <= Cardinality(High)
  BY <1>2, <1>3, FS_Subset
<1>5. Cardinality(Low) \in Nat /\ Cardinality(High) \in Nat
  BY <1>2, FS_CardinalityType
<1>6. i = n - 1 => High = Low \cup {n}
  BY <1>0, <1>1, Zenon
<1> QED
  BY <1>3, <1>4, <1>5, <1>6 DEF Rank

\* The k-th end of a line is there, and only one place is.
LEMMA EndType ==
  ASSUME NEW p \in Nat, NEW E \in SUBSET (1 .. p), NEW k \in 1 .. Cardinality(E)
  PROVE  EndOf(E, k) \in E /\ Rank(E, EndOf(E, k)) = k
<1> DEFINE T == {i \in 0 .. p : k <= Rank(E, i)}
<1>0. Cardinality(E) \in Nat /\ \A i : Rank(E, i) \in Nat
  BY RankType
<1>1. PICK n \in T : \A i \in T : n <= i
  <2>1. p \in T
    BY <1>0, RankType
  <2>2. T \subseteq Nat
    OBVIOUS
  <2> QED
    BY <2>1, <2>2, Least
<1>2. n # 0 /\ k <= Rank(E, n)
  BY <1>1, RankType
<1>3. n - 1 \in 0 .. p /\ Rank(E, n - 1) < k
  BY <1>0, <1>1, <1>2
<1>4. n \in E
  <2> SUFFICES ASSUME n \notin E PROVE FALSE
    OBVIOUS
  <2>1. \A j \in E : j <= n <=> j <= n - 1
    OBVIOUS
  <2>2. {j \in E : j <= n} = {j \in E : j <= n - 1}
    BY <2>1, Zenon
  <2> QED
    BY <1>0, <1>2, <1>3, <2>2 DEF Rank
<1>5. Rank(E, n) = k
  BY <1>0, <1>1, <1>2, <1>3, <1>4, RankGrows
<1> QED
  BY <1>4, <1>5, Zenon DEF EndOf

LEMMA EndUnique ==
  ASSUME NEW p \in Nat, NEW E \in SUBSET (1 .. p), NEW i \in E, NEW k, Rank(E, i) = k
  PROVE  EndOf(E, k) = i
<1>1. PICK n : n = EndOf(E, k)
  OBVIOUS
<1>2. n \in E /\ Rank(E, n) = k
  BY <1>1, Zenon DEF EndOf
<1>3. n \in 1 .. p /\ i \in 1 .. p /\ k \in Nat
  BY <1>2, RankType
<1>4. ~(n < i) /\ ~(i < n)
  BY <1>2, <1>3, RankGrows
<1> QED
  BY <1>1, <1>3, <1>4

-----------------------------------------------------------------------------
(***************************************************************************)
(* Another line ends at m, behind the first p characters: what the lines   *)
(* before it asked for stays as it was.                                    *)
(***************************************************************************)
Adds(p, E, m, F) ==
  p \in Nat /\ E \in SUBSET (1 .. p) /\ m \in Nat /\ p < m /\ F = E \cup {m}

LEMMA AddEnds ==
  ASSUME NEW p, NEW E, NEW m, NEW F, Adds(p, E, m, F)
  PROVE  /\ F \in SUBSET (1 .. m)
         /\ Cardinality(E) \in Nat
         /\ Cardinality(F) = Cardinality(E) + 1
         /\ \A k \in 1 .. Cardinality(E) : EndOf(F, k) = EndOf(E, k)
         /\ EndOf(F, Cardinality(E) + 1) = m
<1> USE DEF Adds
<1>1. F \in SUBSET (1 .. m) /\ m \notin E /\ m \in F /\ E \subseteq F
  OBVIOUS
<1>2. /\ IsFiniteSet(E) /\ Cardinality(E) \in Nat
      /\ Cardinality(F) = Cardinality(E) + 1
  BY <1>1, RankType, FS_AddElement
<1>3. ASSUME NEW k \in 1 .. Cardinality(E)
      PROVE  EndOf(F, k) = EndOf(E, k)
  <2> DEFINE e == EndOf(E, k)
  <2>1. e \in E /\ Rank(E, e) = k
    BY EndType
  <2>2. \A j \in F : j <= e <=> j \in E /\ j <= e
    <3>1. \A j \in 1 .. p : ~(m <= j)
      OBVIOUS
    <3>2. ~(m <= e)
      BY <2>1, <3>1
    <3> QED
      BY <3>2, Zenon
  <2>3. {j \in F : j <= e} = {j \in E : j <= e}
    BY <1>1, <2>2, Zenon
  <2>4. Rank(F, e) = k /\ e \in F
    BY <1>1, <2>1, <2>3, Zenon DEF Rank
  <2>5. \A i \in F : Rank(F, i) = k => EndOf(F, k) = i
    BY <1>1, EndUnique
  <2> QED
    BY <2>4, <2>5, Zenon
<1>4. EndOf(F, Cardinality(E) + 1) = m
  <2>1. Rank(F, m) = Cardinality(E) + 1
    BY <1>1, <1>2, RankType
  <2> QED
    BY <1>1, <2>1, EndUnique
<1> QED
  BY <1>1, <1>2, <1>3, <1>4

LEMMA AddBegin ==
  ASSUME NEW p, NEW E, NEW m, NEW F, Adds(p, E, m, F)
  PROVE  /\ \A k \in 1 .. Cardinality(E) + 1 : BeginOf(F, k) = BeginOf(E, k)
         /\ BeginOf(F, Cardinality(E) + 2) = m + 1
<1>0. /\ Cardinality(E) \in Nat
      /\ \A k \in 1 .. Cardinality(E) : EndOf(F, k) = EndOf(E, k)
      /\ EndOf(F, Cardinality(E) + 1) = m
  BY AddEnds
<1>1. ASSUME NEW k \in 1 .. Cardinality(E) + 1
      PROVE  BeginOf(F, k) = BeginOf(E, k)
  <2>1. k = 1 \/ k - 1 \in 1 .. Cardinality(E)
    BY <1>0
  <2>2. k = 1 \/ EndOf(F, k - 1) = EndOf(E, k - 1)
    BY <1>0, <2>1, Zenon
  <2> QED
    BY <2>2, Zenon DEF BeginOf
<1>2. BeginOf(F, Cardinality(E) + 2) = m + 1
  <2>1. Cardinality(E) + 2 # 1 /\ (Cardinality(E) + 2) - 1 = Cardinality(E) + 1
    BY <1>0
  <2>2. EndOf(F, (Cardinality(E) + 2) - 1) = m
    BY <1>0, <2>1, Zenon
  <2> QED
    BY <2>1, <2>2, Zenon DEF BeginOf
<1> QED
  BY <1>1, <1>2

LEMMA AddText ==
  ASSUME NEW p, NEW E, NEW m, NEW F, Adds(p, E, m, F), NEW t
  PROVE  \A k \in 1 .. Cardinality(E) :
           /\ TextOf(t, F, k) = TextOf(t, E, k)
           /\ WholeOf(t, F, k) <=> WholeOf(t, E, k)
<1>0. /\ Cardinality(E) \in Nat
      /\ \A k \in 1 .. Cardinality(E) : EndOf(F, k) = EndOf(E, k)
  BY AddEnds
<1>3. ASSUME NEW k \in 1 .. Cardinality(E)
      PROVE  /\ TextOf(t, F, k) = TextOf(t, E, k)
             /\ WholeOf(t, F, k) <=> WholeOf(t, E, k)
  <2>0. k \in 1 .. Cardinality(E) + 1
    BY <1>0
  <2>1. BeginOf(F, k) = BeginOf(E, k)
    BY <2>0, AddBegin
  <2>2. EndOf(F, k) = EndOf(E, k)
    BY <1>0, Zenon
  <2>3. TextOf(t, F, k) = TextOf(t, E, k)
    BY <2>1, <2>2, Zenon DEF TextOf
  <2> QED
    BY <2>2, <2>3, Zenon DEF WholeOf
<1> QED
  BY <1>3

\* Line k asks, given whether the line before it did.
AsksLine(t, E, k) == k > 0 /\ WholeOf(t, E, k) /\ TextOf(t, E, k)[1] = "2"

LEMMA AsksEquation ==
  ASSUME NEW E, Cardinality(E) \in Nat, NEW t
  PROVE  \A k \in 0 .. Cardinality(E) :
           /\ AsksOf(t, E)[k] \in BOOLEAN
           /\ AsksOf(t, E)[k] <=> AsksLine(t, E, k) /\ ~AsksOf(t, E)[k - 1]
<1> DEFINE
      Dom == 0 .. Cardinality(E)
      Step(g, k) == k > 0 /\ ~g[k - 1] /\ WholeOf(t, E, k) /\ TextOf(t, E, k)[1] = "2"
      Upto(n) == \E g \in [Dom -> BOOLEAN] : \A i \in 0 .. n : g[i] = Step(g, i)
<1>0. \A n \in Dom : \A i \in 0 .. n :
        i \in Dom /\ (i < n \/ i = n) /\ (i # 0 => i - 1 \in Dom /\ i - 1 # n)
  OBVIOUS
<1>1. ASSUME NEW g, NEW i \in Dom
      PROVE  Step(g, i) \in BOOLEAN
  BY Zenon
<1>2. ASSUME NEW g, NEW f, NEW i \in Dom, i # 0 => g[i - 1] = f[i - 1]
      PROVE  Step(g, i) = Step(f, i)
  <2>1. i = 0 => ~(i > 0)
    OBVIOUS
  <2> QED
    BY <1>2, <2>1, Zenon
<1> HIDE DEF Step
<1>3. ASSUME NEW n \in Dom, \A m \in Dom : m < n => Upto(m)
      PROVE  Upto(n)
  <2>1. PICK g \in [Dom -> BOOLEAN] : \A i \in Dom : i < n => g[i] = Step(g, i)
    <3>1. CASE n = 0
      <4>1. [i \in Dom |-> FALSE] \in [Dom -> BOOLEAN] /\ \A i \in Dom : ~(i < n)
        BY <3>1
      <4> QED
        BY <4>1, Zenon
    <3>2. CASE n # 0
      <4>1. n - 1 \in Dom /\ n - 1 < n
        BY <3>2
      <4>2. Upto(n - 1)
        BY <1>3, <4>1, Zenon
      <4>3. \A i \in Dom : i < n => i \in 0 .. n - 1
        OBVIOUS
      <4> QED
        BY <4>2, <4>3, Zenon
    <3> QED
      BY <3>1, <3>2, Zenon
  <2> DEFINE f == [g EXCEPT ![n] = Step(g, n)]
  <2>2. f \in [Dom -> BOOLEAN] /\ f[n] = Step(g, n) /\ \A i \in Dom : i # n => f[i] = g[i]
    <3>1. Step(g, n) \in BOOLEAN
      BY <1>1
    <3>2. f \in [Dom -> BOOLEAN]
      BY <3>1, Zenon
    <3>3. f[n] = Step(g, n) /\ \A i \in Dom : i # n => f[i] = g[i]
      BY Zenon
    <3> QED
      BY <3>2, <3>3
  <2> HIDE DEF f
  <2>3. \A i \in 0 .. n : f[i] = Step(f, i)
    <3> SUFFICES ASSUME NEW i \in 0 .. n PROVE f[i] = Step(f, i)
      OBVIOUS
    <3>1. i \in Dom /\ (i < n \/ i = n) /\ (i # 0 => i - 1 \in Dom /\ i - 1 # n)
      BY <1>0, Zenon
    <3>2. Step(f, i) = Step(g, i)
      <4>1. i \in Dom /\ (i # 0 => f[i - 1] = g[i - 1])
        BY <2>2, <3>1, Zenon
      <4> QED
        BY <1>2, <4>1, Zenon
    <3> QED
      BY <2>1, <2>2, <3>1, <3>2, Zenon
  <2> QED
    BY <2>2, <2>3, Zenon
<1>4. \A n \in Dom : Upto(n)
  <2> SUFFICES ASSUME \E n \in Dom : ~Upto(n) PROVE FALSE
    OBVIOUS
  <2> DEFINE Bad == {n \in Dom : ~Upto(n)}
  <2>1. PICK n \in Bad : \A m \in Bad : n <= m
    <3>1. Bad \subseteq Nat /\ Bad # {}
      OBVIOUS
    <3> QED
      BY <3>1, Least
  <2> HIDE DEF Upto
  <2>2. \A m \in Dom : m < n => Upto(m)
    BY <2>1
  <2> QED
    BY <1>3, <2>1, <2>2
<1>5. PICK g \in [Dom -> BOOLEAN] : g = [i \in Dom |-> Step(g, i)]
  <2>0. Cardinality(E) \in Dom
    OBVIOUS
  <2>1. PICK g \in [Dom -> BOOLEAN] : \A i \in Dom : g[i] = Step(g, i)
    BY <1>4, <2>0, Zenon
  <2>2. g = [i \in Dom |-> g[i]]
    OBVIOUS
  <2>3. [i \in Dom |-> g[i]] = [i \in Dom |-> Step(g, i)]
    BY <2>1, Zenon
  <2> QED
    BY <2>2, <2>3, Zenon
<1> DEFINE asks == CHOOSE f : f = [i \in Dom |-> Step(f, i)]
<1>6. asks = [i \in Dom |-> Step(asks, i)]
  BY <1>5, Zenon
<1>7. AsksOf(t, E) = asks
  BY DEF AsksOf, Step
<1> HIDE DEF asks
<1>8. \A k \in Dom : asks[k] = Step(asks, k)
  BY <1>6, Zenon
<1> QED
  BY <1>1, <1>7, <1>8, Zenon DEF Step, AsksLine

LEMMA AddAsks ==
  ASSUME NEW p, NEW E, NEW m, NEW F, Adds(p, E, m, F), NEW t
  PROVE  \A k \in 0 .. Cardinality(E) : AsksOf(t, F)[k] = AsksOf(t, E)[k]
<1> DEFINE c == Cardinality(E)
           f == AsksOf(t, F)
           e == AsksOf(t, E)
<1>0. c \in Nat /\ Cardinality(F) = c + 1
  BY AddEnds
<1>1. c \in Nat /\ Cardinality(F) \in Nat /\ \A k \in 0 .. c : k \in 0 .. Cardinality(F)
  <2> HIDE DEF c
  <2> QED
    BY <1>0
<1>2. \A k \in 0 .. c :
        /\ e[k] \in BOOLEAN /\ f[k] \in BOOLEAN
        /\ e[k] <=> AsksLine(t, E, k) /\ ~e[k - 1]
        /\ f[k] <=> AsksLine(t, F, k) /\ ~f[k - 1]
  BY <1>1, AsksEquation, Zenon
<1>3. \A k \in 0 .. c : AsksLine(t, F, k) <=> AsksLine(t, E, k)
  <2>1. \A k \in 0 .. c : k > 0 => k \in 1 .. c
    BY <1>1
  <2>2. ASSUME NEW k \in 1 .. c
        PROVE  /\ TextOf(t, F, k) = TextOf(t, E, k)
               /\ WholeOf(t, F, k) <=> WholeOf(t, E, k)
    BY AddText
  <2> HIDE DEF c
  <2>3. ASSUME NEW k \in 0 .. c
        PROVE  AsksLine(t, F, k) <=> AsksLine(t, E, k)
    <3>1. CASE k > 0
      BY <2>1, <2>2, <3>1, Zenon DEF AsksLine
    <3>2. CASE ~(k > 0)
      BY <3>2, Zenon DEF AsksLine
    <3> QED
      BY <3>1, <3>2
  <2> QED
    BY <2>3
<1>4. ~AsksLine(t, E, 0) /\ ~AsksLine(t, F, 0)
  BY DEF AsksLine
<1> HIDE DEF c, f, e
<1> SUFFICES ASSUME \E k \in 0 .. c : f[k] # e[k] PROVE FALSE
  BY Zenon DEF c, f, e
<1> DEFINE Bad == {k \in 0 .. c : f[k] # e[k]}
<1>5. PICK n \in Bad : \A k \in Bad : n <= k
  <2>1. Bad \subseteq Nat /\ Bad # {}
    OBVIOUS
  <2> QED
    BY <2>1, Least
<1>6. n \in 0 .. c /\ f[n] # e[n]
  BY <1>5, Zenon
<1>7. n # 0 => f[n - 1] = e[n - 1]
  <2>1. n # 0 => n - 1 \in 0 .. c /\ ~(n <= n - 1)
    BY <1>1, <1>6
  <2> QED
    BY <1>5, <2>1, Zenon
<1>8. f[n] <=> e[n]
  <2>1. CASE n = 0
    BY <1>2, <1>4, <1>6, <2>1, Zenon
  <2>2. CASE n # 0
    BY <1>2, <1>3, <1>6, <1>7, <2>2, Zenon
  <2> QED
    BY <2>1, <2>2
<1>9. f[n] \in BOOLEAN /\ e[n] \in BOOLEAN
  BY <1>2, <1>6, Zenon
<1> QED
  BY <1>6, <1>8, <1>9, Zenon

LEMMA AddCommand ==
  ASSUME NEW p, NEW E, NEW m, NEW F, Adds(p, E, m, F), NEW t
  PROVE  /\ \A k \in 1 .. Cardinality(E) : CommandOf(t, F, k) = CommandOf(t, E, k)
         /\ AsksOf(t, F)[Cardinality(E) + 1]
              <=> AsksLine(t, F, Cardinality(E) + 1) /\ ~AsksOf(t, E)[Cardinality(E)]
         /\ CommandOf(t, F, Cardinality(E) + 1) =
              IF AsksOf(t, E)[Cardinality(E)] THEN "none"
              ELSE IF WholeOf(t, F, Cardinality(E) + 1)
                   THEN TextOf(t, F, Cardinality(E) + 1)[1] ELSE "q"
<1> DEFINE c == Cardinality(E)
<1>1. c \in Nat /\ Cardinality(F) = c + 1
  BY AddEnds
<1>2. \A k \in 0 .. c : AsksOf(t, F)[k] = AsksOf(t, E)[k]
  BY AddAsks
<1>3. ASSUME NEW k \in 1 .. c
      PROVE  /\ TextOf(t, F, k) = TextOf(t, E, k)
             /\ WholeOf(t, F, k) <=> WholeOf(t, E, k)
  BY AddText
<1>4. \A k \in 0 .. c + 1 :
        AsksOf(t, F)[k] <=> AsksLine(t, F, k) /\ ~AsksOf(t, F)[k - 1]
  BY <1>1, AsksEquation
<1> HIDE DEF c
<1>5. ASSUME NEW k \in 1 .. c
      PROVE  CommandOf(t, F, k) = CommandOf(t, E, k)
  <2>1. k - 1 \in 0 .. c
    BY <1>1
  <2> QED
    BY <1>2, <1>3, <2>1, Zenon DEF CommandOf
<1>6. c + 1 \in 0 .. c + 1 /\ (c + 1) - 1 = c /\ c \in 0 .. c /\ c + 1 # 0
  BY <1>1
<1>7. AsksOf(t, F)[c + 1] <=> AsksLine(t, F, c + 1) /\ ~AsksOf(t, E)[c]
  BY <1>2, <1>4, <1>6, Zenon
<1>8. CommandOf(t, F, c + 1) =
        IF AsksOf(t, E)[c] THEN "none"
        ELSE IF WholeOf(t, F, c + 1) THEN TextOf(t, F, c + 1)[1] ELSE "q"
  BY <1>2, <1>6, Zenon DEF CommandOf
<1> QED
  BY <1>5, <1>7, <1>8, Zenon DEF c

\* The last of the answers among the first n lines.
LEMMA LastAnswer ==
  ASSUME NEW t, NEW E, NEW n \in Nat, AnswersOf(t, E, n) # {}
  PROVE  /\ AnswersOf(t, E, n) \subseteq 1 .. n
         /\ \E k \in AnswersOf(t, E, n) : \A j \in AnswersOf(t, E, n) : j <= k
<1>1. AnswersOf(t, E, n) \subseteq 1 .. n
  BY Zenon DEF AnswersOf
<1>2. AnswersOf(t, E, n) \subseteq 0 .. n
  BY <1>1
<1> QED
  BY <1>1, <1>2, Greatest

LEMMA AddActive ==
  ASSUME NEW p, NEW E, NEW m, NEW F, Adds(p, E, m, F), NEW t
  PROVE  /\ \A n \in 0 .. Cardinality(E) : ActiveOf(t, F, n) = ActiveOf(t, E, n)
         /\ ActiveOf(t, F, Cardinality(E) + 1) =
              IF AsksOf(t, E)[Cardinality(E)] /\ WholeOf(t, F, Cardinality(E) + 1)
              THEN Meant(TextOf(t, F, Cardinality(E) + 1))
              ELSE ActiveOf(t, E, Cardinality(E))
<1> DEFINE c == Cardinality(E)
           Good == AsksOf(t, E)[c] /\ WholeOf(t, F, c + 1)
<1>1. c \in Nat
  BY AddEnds
<1>2. \A k \in 0 .. c : AsksOf(t, F)[k] = AsksOf(t, E)[k]
  BY AddAsks
<1>3. ASSUME NEW k \in 1 .. c
      PROVE  /\ TextOf(t, F, k) = TextOf(t, E, k)
             /\ WholeOf(t, F, k) <=> WholeOf(t, E, k)
  BY AddText
<1> HIDE DEF c
<1>4. ASSUME NEW n \in 0 .. c
      PROVE  AnswersOf(t, F, n) = AnswersOf(t, E, n)
  <2>1. \A k \in 1 .. n : k \in 1 .. c /\ k - 1 \in 0 .. c
    BY <1>1
  <2> QED
    BY <1>2, <1>3, <2>1, Zenon DEF AnswersOf
<1>5. ASSUME NEW n \in 0 .. c, NEW A, A = AnswersOf(t, E, n), A # {}
      PROVE  TextOf(t, F, LastOf(A)) = TextOf(t, E, LastOf(A))
  <2>1. A \subseteq 1 .. n /\ \E k \in A : \A j \in A : j <= k
    BY <1>1, <1>5, LastAnswer
  <2>2. LastOf(A) \in A
    BY <2>1, Zenon DEF LastOf
  <2>3. \A k \in 1 .. n : k \in 1 .. c
    BY <1>1
  <2>4. LastOf(A) \in 1 .. c
    BY <2>1, <2>2, <2>3, Zenon
  <2> QED
    BY <1>3, <2>4, Zenon
<1>6. ASSUME NEW n \in 0 .. c
      PROVE  ActiveOf(t, F, n) = ActiveOf(t, E, n)
  <2> DEFINE A == AnswersOf(t, E, n)
  <2>1. CASE A = {}
    BY <1>4, <2>1, Zenon DEF ActiveOf
  <2>2. CASE A # {}
    <3>1. TextOf(t, F, LastOf(A)) = TextOf(t, E, LastOf(A))
      BY <1>5, <2>2, Zenon
    <3> QED
      BY <1>4, <2>2, <3>1, Zenon DEF ActiveOf
  <2> QED
    BY <2>1, <2>2
<1>7. CASE Good
  <2> DEFINE A == AnswersOf(t, F, c + 1)
  <2>1. c + 1 \in A /\ A \subseteq 1 .. c + 1
    <3>1. c + 1 \in 1 .. c + 1 /\ (c + 1) - 1 = c /\ c \in 0 .. c
      BY <1>1
    <3> QED
      BY <1>2, <1>7, <3>1, Zenon DEF AnswersOf
  <2> HIDE DEF A
  <2>2. \A j \in A : j <= c + 1
    BY <1>1, <2>1
  <2>3. \A k \in A : (\A j \in A : j <= k) => k = c + 1
    BY <1>1, <2>1, <2>2
  <2>4. LastOf(A) = c + 1
    BY <2>1, <2>2, <2>3, Zenon DEF LastOf
  <2>5. A # {}
    BY <2>1
  <2>6. ActiveOf(t, F, c + 1) = Meant(TextOf(t, F, c + 1))
    BY <2>4, <2>5, Zenon DEF ActiveOf, A
  <2> QED
    BY <1>6, <1>7, <2>6, Zenon DEF c
<1>8. CASE ~Good
  <2>1. AnswersOf(t, F, c + 1) = AnswersOf(t, F, c)
    <3>1. \A k : k \in 1 .. c + 1 <=> k \in 1 .. c \/ k = c + 1
      BY <1>1
    <3>2. (c + 1) - 1 = c /\ c \in 0 .. c
      BY <1>1
    <3> QED
      BY <1>2, <1>8, <3>1, <3>2, Zenon DEF AnswersOf
  <2>2. ActiveOf(t, F, c + 1) = ActiveOf(t, F, c)
    BY <2>1, Zenon DEF ActiveOf
  <2>3. c \in 0 .. c
    BY <1>1
  <2> QED
    BY <1>6, <1>8, <2>2, <2>3, Zenon DEF c
<1> QED
  BY <1>7, <1>8

-----------------------------------------------------------------------------
(***************************************************************************)
(* Where the session is in its input.                                      *)
(***************************************************************************)
Count == Cardinality(Ends)
Asked == AsksOf(input, Ends)[Count]
Served == CommandOf(input, Ends, Count)
Selected == ActiveOf(input, Ends, Count)
Finished == \E k \in 1 .. Count : CommandOf(input, Ends, k) = "q"

\* The unfinished line, as far as an array holds it.
Upto(t, a, p) == SubSeq(t, a, IF p < a + LineLen - 2 THEN p ELSE a + LineLen - 2)
From == BeginOf(Ends, Count + 1)
Held == Upto(input, From, pos)

LEMMA EndsType ==
  ASSUME ReadTypes
  PROVE  /\ Ends \in SUBSET (1 .. pos) /\ pos \in Nat
         /\ Count \in Nat /\ From \in 1 .. pos + 1
<1>1. Ends \in SUBSET (1 .. pos) /\ pos \in Nat
  <2>1. pos \in Nat
    BY DEF ReadTypes
  <2> QED
    BY <2>1, Zenon DEF Ends
<1>2. Count \in Nat
  BY <1>1, RankType DEF Count
<1>3. From \in 1 .. pos + 1
  <2>1. CASE Count = 0
    <3>1. Count + 1 = 1
      BY <2>1
    <3>2. From = 1
      BY <3>1, Zenon DEF From, BeginOf
    <3> QED
      BY <1>1, <3>2
  <2>2. CASE Count # 0
    <3>1. Count \in 1 .. Count /\ (Count + 1) - 1 = Count /\ Count + 1 # 1
      BY <1>2, <2>2
    <3>2. EndOf(Ends, Count) \in Ends
      BY <1>1, <3>1, EndType DEF Count
    <3>3. From = EndOf(Ends, Count) + 1
      BY <3>1, Zenon DEF From, BeginOf
    <3>4. EndOf(Ends, Count) \in 1 .. pos
      BY <1>1, <3>2
    <3> HIDE DEF From
    <3> QED
      BY <1>1, <3>3, <3>4
  <2> QED
    BY <2>1, <2>2
<1> QED
  BY <1>1, <1>2, <1>3

LEMMA UptoGrows ==
  ASSUME NEW C, NEW t \in Seq(C), NEW p \in Nat, p < Len(t), NEW a \in 1 .. p + 1
  PROVE  Upto(t, a, p + 1) =
           IF Len(Upto(t, a, p)) < LineLen - 1 THEN Append(Upto(t, a, p), t[p + 1])
           ELSE Upto(t, a, p)
<1>1. LineLen \in Nat /\ LineLen >= 2
  BY ServerConstants
<1>2. CASE p < a + LineLen - 2
  <2>1. Upto(t, a, p) = SubSeq(t, a, p) /\ Upto(t, a, p + 1) = SubSeq(t, a, p + 1)
    <3>1. p + 1 < a + LineLen - 2 \/ p + 1 = a + LineLen - 2
      BY <1>1, <1>2
    <3> QED
      BY <1>2, <3>1, Zenon DEF Upto
  <2>2. \A i \in a .. p : t[i] \in C
    OBVIOUS
  <2>3. SubSeq(t, a, p) \in Seq(C) /\ Len(SubSeq(t, a, p)) < LineLen - 1
    <3>1. /\ SubSeq(t, a, p) \in Seq(C)
          /\ Len(SubSeq(t, a, p)) = IF a <= p THEN p - a + 1 ELSE 0
      BY <2>2, SubSeqProperties
    <3> QED
      BY <1>1, <1>2, <3>1
  <2>4. SubSeq(t, a, p + 1) = SubSeq(t, a, p) \o <<t[p + 1]>>
    <3>1. a \in 1 .. Len(t) /\ p + 1 \in a .. Len(t) /\ (p + 1) - 1 = p
      OBVIOUS
    <3>2. SubSeq(t, a, p + 1) = SubSeq(t, a, (p + 1) - 1) \o <<t[p + 1]>>
      BY <3>1, SubSeqRecursiveSecond
    <3> QED
      BY <3>1, <3>2, Zenon
  <2>5. SubSeq(t, a, p) \o <<t[p + 1]>> = Append(SubSeq(t, a, p), t[p + 1])
    BY <2>3, AppendIsConcat
  <2> QED
    BY <2>1, <2>3, <2>4, <2>5, Zenon
<1>3. CASE ~(p < a + LineLen - 2)
  <2>1. ~(p + 1 < a + LineLen - 2)
    BY <1>1, <1>3
  <2>2. Upto(t, a, p) = SubSeq(t, a, a + LineLen - 2) /\ Upto(t, a, p + 1) = Upto(t, a, p)
    BY <1>3, <2>1, Zenon DEF Upto
  <2>3. Len(SubSeq(t, a, a + LineLen - 2)) = LineLen - 1
    <3>1. \A i \in a .. a + LineLen - 2 : t[i] \in C
      BY <1>1, <1>3
    <3>2. a \in Int /\ a + LineLen - 2 \in Int /\ a <= a + LineLen - 2
          /\ (a + LineLen - 2) - a + 1 = LineLen - 1
      BY <1>1
    <3> QED
      BY <3>1, <3>2, SubSeqProperties
  <2>4. ~(LineLen - 1 < LineLen - 1)
    BY <1>1
  <2> QED
    BY <2>2, <2>3, <2>4, Zenon
<1> QED
  BY <1>2, <1>3

LEMMA UptoEmpty ==
  ASSUME NEW t, NEW p \in Nat
  PROVE  Upto(t, p + 1, p) = <<>>
<1>1. p < (p + 1) + LineLen - 2 /\ p + 1 \in Int /\ p < p + 1
  BY ServerConstants
<1>2. Upto(t, p + 1, p) = SubSeq(t, p + 1, p)
  BY <1>1, Zenon DEF Upto
<1> QED
  BY <1>1, <1>2, SubSeqEmpty

\* Steps that read nothing.
LEMMA SameReading ==
  ASSUME UNCHANGED <<input, pos>>
  PROVE  /\ UNCHANGED <<Ends, Count, Asked, Served, Selected, From, Held>>
         /\ Finished' <=> Finished
<1>1. Ends' = Ends /\ Count' = Count /\ input' = input /\ pos' = pos
  BY DEF Ends, Count
<1>2. From' = From /\ Held' = Held
  BY <1>1, Zenon DEF From, Held
<1>3. Asked' = Asked /\ Served' = Served /\ Selected' = Selected
  BY <1>1, Zenon DEF Asked, Served, Selected
<1>4. Finished' <=> Finished
  BY <1>1, Zenon DEF Finished
<1> QED
  BY <1>1, <1>2, <1>3, <1>4

\* A character within a line.
LEMMA NextCharacter ==
  ASSUME ReadTypes, pos' = pos + 1, input' = input, ~AtEnd, Char \notin LineEnds
  PROVE  /\ UNCHANGED <<Ends, Count, Asked, Served, Selected, From>>
         /\ Finished' <=> Finished
         /\ Held' = IF Len(Held) < LineLen - 1 THEN Append(Held, Char) ELSE Held
<1>1. Ends' = Ends
  <2>1. pos \in Nat /\ \A i : i \in 1 .. pos' <=> i \in 1 .. pos \/ i = pos + 1
    BY DEF ReadTypes
  <2>2. input[pos + 1] \notin LineEnds
    BY Zenon DEF Char
  <2> QED
    BY <2>1, <2>2, Zenon DEF Ends
<1>2. Count' = Count /\ From' = From
  BY <1>1, Zenon DEF Count, From
<1>3. Asked' = Asked /\ Served' = Served /\ Selected' = Selected
  BY <1>1, <1>2, Zenon DEF Asked, Served, Selected
<1>4. Finished' <=> Finished
  BY <1>1, <1>2, Zenon DEF Finished
<1>5. Held' = IF Len(Held) < LineLen - 1 THEN Append(Held, Char) ELSE Held
  <2>1. input \in Seq(Chars) /\ pos \in Nat /\ pos < Len(input)
    BY DEF ReadTypes, AtEnd
  <2>2. From \in 1 .. pos + 1
    BY EndsType
  <2>3. Upto(input, From, pos + 1) =
          IF Len(Upto(input, From, pos)) < LineLen - 1
          THEN Append(Upto(input, From, pos), input[pos + 1]) ELSE Upto(input, From, pos)
    BY <2>1, <2>2, UptoGrows
  <2> QED
    BY <1>2, <2>3, Zenon DEF Held, Char
<1> QED
  BY <1>1, <1>2, <1>3, <1>4, <1>5

\* The end of a line: what is held is its text.
Complete == Char = NL /\ Held # <<>>

LEMMA NextLine ==
  ASSUME ReadTypes, pos' = pos + 1, input' = input, ~AtEnd, Char \in LineEnds
  PROVE  /\ Adds(pos, Ends, pos + 1, Ends')
         /\ Count' = Count + 1 /\ From' = pos' + 1
         /\ Asked' <=> ~Asked /\ Complete /\ Held[1] = "2"
         /\ Served' = IF Asked THEN "none" ELSE IF Complete THEN Held[1] ELSE "q"
         /\ Selected' = IF Asked /\ Complete THEN Meant(Held) ELSE Selected
         /\ Finished' <=> Finished \/ Served' = "q"
<1>1. Adds(pos, Ends, pos + 1, Ends')
  <2>1. pos \in Nat /\ \A i : i \in 1 .. pos' <=> i \in 1 .. pos \/ i = pos + 1
    BY DEF ReadTypes
  <2>2. input[pos + 1] \in LineEnds
    BY Zenon DEF Char
  <2>3. Ends' = Ends \cup {pos + 1}
    BY <2>1, <2>2, Zenon DEF Ends
  <2>4. pos + 1 \in Nat /\ pos < pos + 1
    BY <2>1
  <2> QED
    BY <2>1, <2>3, <2>4, EndsType, Zenon DEF Adds
<1> DEFINE c == Count
           F == Ends'
           text == TextOf(input, F, c + 1)
<1>2. c \in Nat /\ Count' = c + 1 /\ EndOf(F, c + 1) = pos + 1
  BY <1>1, AddEnds DEF Count
<1>3. From' = pos' + 1
  <2>1. BeginOf(F, c + 2) = pos + 2
    <3>1. BeginOf(F, c + 2) = (pos + 1) + 1
      BY <1>1, AddBegin DEF Count
    <3>2. (pos + 1) + 1 = pos + 2
      BY DEF ReadTypes
    <3> QED
      BY <3>1, <3>2, Zenon
  <2>2. Count' + 1 = c + 2 /\ pos' + 1 = pos + 2
    BY <1>2 DEF ReadTypes
  <2> QED
    BY <2>1, <2>2, Zenon DEF From
<1>4. text = Held
  <2>1. BeginOf(F, c + 1) = From
    <3>1. c + 1 \in 1 .. c + 1
      BY <1>2
    <3> QED
      BY <1>1, <3>1, AddBegin DEF Count, From
  <2>2. (pos + 1) - 1 = pos
    BY DEF ReadTypes
  <2> QED
    BY <1>2, <2>1, <2>2, Zenon DEF TextOf, Held, Upto
<1>5. WholeOf(input, F, c + 1) <=> Complete
  BY <1>2, <1>4, Zenon DEF WholeOf, Complete, Char
<1>6. Asked' <=> ~Asked /\ Complete /\ Held[1] = "2"
  <2>1. c + 1 > 0
    BY <1>2
  <2>2. AsksOf(input, F)[c + 1] <=> AsksLine(input, F, c + 1) /\ ~AsksOf(input, Ends)[c]
    BY <1>1, AddCommand DEF Count
  <2> QED
    BY <1>2, <1>4, <1>5, <2>1, <2>2, Zenon DEF Asked, AsksLine
<1>7. Served' = IF Asked THEN "none" ELSE IF Complete THEN Held[1] ELSE "q"
  <2>1. CommandOf(input, F, c + 1) =
          IF AsksOf(input, Ends)[c] THEN "none"
          ELSE IF WholeOf(input, F, c + 1) THEN text[1] ELSE "q"
    BY <1>1, AddCommand DEF Count
  <2> QED
    BY <1>2, <1>4, <1>5, <2>1, Zenon DEF Served, Asked
<1>8. Selected' = IF Asked /\ Complete THEN Meant(Held) ELSE Selected
  <2>1. ActiveOf(input, F, c + 1) =
          IF AsksOf(input, Ends)[c] /\ WholeOf(input, F, c + 1)
          THEN Meant(text) ELSE ActiveOf(input, Ends, c)
    BY <1>1, AddActive DEF Count
  <2> QED
    BY <1>2, <1>4, <1>5, <2>1, Zenon DEF Selected, Asked
<1>9. Finished' <=> Finished \/ Served' = "q"
  <2>1. \A k : k \in 1 .. c + 1 <=> k \in 1 .. c \/ k = c + 1
    BY <1>2
  <2>2. ASSUME NEW k \in 1 .. c
        PROVE  CommandOf(input, F, k) = CommandOf(input, Ends, k)
    BY <1>1, AddCommand DEF Count
  <2> QED
    BY <1>2, <2>1, <2>2, Zenon DEF Finished, Served
<1> QED
  BY <1>1, <1>2, <1>3, <1>6, <1>7, <1>8, <1>9

-----------------------------------------------------------------------------
(***************************************************************************)
(* The session follows its input.                                          *)
(***************************************************************************)
\* What the array holds is the unfinished line; a command is obeyed when just
\* its line has been read; beyond the end of the input, whatever is read next
\* ends the session.
FollowAt(h) ==
  pc[h] \in InSession =>
    /\ active_buffer = Selected
    /\ pc[h] \in {"command", "visit", "touch"} =>
         cmd = Served /\ (Asked <=> cmd = "2") /\ From = pos + 1
    /\ pc[h] = "menu" => AtEnd \/ (~Asked /\ From = pos + 1)
    /\ pc[h] = "read_ans" => Asked /\ line = Held
    /\ pc[h] = "read_cmd" => AtEnd \/ (~Asked /\ line = Held)
    /\ pc[h] = "fclose" => Finished \/ AtEnd
    /\ Finished => pc[h] = "fclose" \/ (pc[h] = "command" /\ cmd = "q")

FollowInv == TypesInv /\ \A h \in Handlers : FollowAt(h)

LEMMA NothingRead ==
  ASSUME pos = 0
  PROVE  From = 1 /\ ~Asked /\ Selected = 0 /\ ~Finished
<1>1. Ends = {} /\ Count = 0
  <2>1. \A i : i \notin 1 .. pos
    OBVIOUS
  <2>2. Ends = {}
    BY <2>1, Zenon DEF Ends
  <2> QED
    BY <2>2, FS_EmptySet DEF Count
<1>2. From = 1
  <2>1. Count + 1 = 1
    BY <1>1
  <2> QED
    BY <2>1, Zenon DEF From, BeginOf
<1>3. ~Asked
  <2>1. 0 \in 0 .. Count /\ ~(0 > 0) /\ Count \in Nat
    BY <1>1
  <2>2. AsksOf(input, Ends)[0] <=> AsksLine(input, Ends, 0) /\ ~AsksOf(input, Ends)[0 - 1]
    BY <2>1, AsksEquation DEF Count
  <2> QED
    BY <1>1, <2>1, <2>2, Zenon DEF Asked, AsksLine
<1>4. Selected = 0 /\ ~Finished
  <2>1. \A k : k \notin 1 .. 0
    OBVIOUS
  <2>2. AnswersOf(input, Ends, 0) = {}
    BY <2>1, Zenon DEF AnswersOf
  <2> QED
    BY <1>1, <2>1, <2>2, Zenon DEF Selected, ActiveOf, Finished
<1> QED
  BY <1>2, <1>3, <1>4

\* Reading on.
LEMMA FollowRead ==
  ASSUME FollowInv, NEW h \in Handlers,
         ReadChar(h) \/ ReadCommand(h) \/ ReadAnswer(h) \/ ReadStops(h)
  PROVE  FollowAt(h)'
<1>1. /\ FollowAt(h) /\ ReadTypes /\ pc \in [Handlers -> PCs] /\ pc[h] \in InSession
  BY DEF FollowInv, TypesInv, HoldInv, InSession, ReadChar, Reading, ReadCommand, ReadAnswer,
         ReadStops, Goto
<1>2. CASE ReadChar(h)
  <2>1. /\ pos' = pos + 1 /\ input' = input /\ ~AtEnd /\ Char \notin LineEnds
        /\ UNCHANGED <<pc, active_buffer, cmd>>
        /\ line' = IF Len(line) < LineLen - 1 THEN Append(line, Char) ELSE line
        /\ pc[h] \in {"read_cmd", "read_ans"}
    BY <1>2 DEF ReadChar, Reading
  <2>2. /\ UNCHANGED <<Asked, Selected>>
        /\ Finished' <=> Finished
        /\ Held' = IF Len(Held) < LineLen - 1 THEN Append(Held, Char) ELSE Held
    BY <1>1, <2>1, NextCharacter
  <2> QED
    BY <1>1, <2>1, <2>2, Zenon DEF FollowAt
<1>3. CASE ReadCommand(h)
  <2>1. /\ pos' = pos + 1 /\ input' = input /\ ~AtEnd /\ Char = NL /\ Char \in LineEnds
        /\ active_buffer' = active_buffer /\ pc[h] = "read_cmd"
        /\ IF line = <<>> THEN pc'[h] = "fclose" ELSE pc'[h] = "command" /\ cmd' = line[1]
    BY <1>1, <1>3 DEF ReadCommand, EndsLine, Goto, LineEnds
  <2>2. /\ From' = pos' + 1
        /\ Asked' <=> ~Asked /\ Complete /\ Held[1] = "2"
        /\ Served' = IF Asked THEN "none" ELSE IF Complete THEN Held[1] ELSE "q"
        /\ Selected' = IF Asked /\ Complete THEN Meant(Held) ELSE Selected
        /\ Finished' <=> Finished \/ Served' = "q"
    BY <1>1, <2>1, NextLine
  <2>3. ~Asked /\ line = Held /\ ~Finished /\ active_buffer = Selected
    BY <1>1, <2>1 DEF FollowAt
  <2>4. Complete <=> line # <<>>
    BY <2>1, <2>3, Zenon DEF Complete
  <2>5. CASE line = <<>>
    BY <2>1, <2>2, <2>3, <2>4, <2>5 DEF FollowAt
  <2>6. CASE line # <<>>
    BY <2>1, <2>2, <2>3, <2>4, <2>6 DEF FollowAt
  <2> QED
    BY <2>5, <2>6
<1>4. CASE ReadAnswer(h)
  <2>1. /\ pos' = pos + 1 /\ input' = input /\ ~AtEnd /\ Char = NL /\ Char \in LineEnds
        /\ active_buffer' = IF line = <<>> THEN active_buffer ELSE Meant(line)
        /\ pc[h] = "read_ans" /\ pc'[h] = "menu"
    BY <1>1, <1>4 DEF ReadAnswer, EndsLine, Goto, LineEnds, Chosen, Meant
  <2>2. /\ From' = pos' + 1
        /\ Asked' <=> ~Asked /\ Complete /\ Held[1] = "2"
        /\ Served' = IF Asked THEN "none" ELSE IF Complete THEN Held[1] ELSE "q"
        /\ Selected' = IF Asked /\ Complete THEN Meant(Held) ELSE Selected
        /\ Finished' <=> Finished \/ Served' = "q"
    BY <1>1, <2>1, NextLine
  <2>3. Asked /\ line = Held /\ ~Finished /\ active_buffer = Selected
    BY <1>1, <2>1 DEF FollowAt
  <2>4. Complete <=> line # <<>>
    BY <2>1, <2>3, Zenon DEF Complete
  <2>5. active_buffer' = Selected'
    BY <2>1, <2>2, <2>3, <2>4, Zenon
  <2>6. ~Asked' /\ ~Finished'
    BY <2>2, <2>3
  <2> QED
    BY <2>1, <2>2, <2>5, <2>6 DEF FollowAt
<1>5. CASE ReadStops(h)
  <2>1. /\ input' = input /\ UNCHANGED <<active_buffer, line, cmd>>
        /\ AtEnd \/ Char \in {FF, Failure}
        /\ pos' = IF AtEnd THEN pos ELSE pos + 1
        /\ \/ pc[h] = "read_cmd" /\ pc'[h] = "fclose"
           \/ pc[h] = "read_ans" /\ pc'[h] = "menu"
    BY <1>1, <1>5 DEF ReadStops, Interrupted, Goto, session
  <2>2. CASE AtEnd
    <3>1. UNCHANGED <<input, pos>> /\ AtEnd'
      BY <2>1, <2>2 DEF AtEnd
    <3> QED
      BY <1>1, <2>1, <3>1, SameReading DEF FollowAt
  <2>3. CASE ~AtEnd
    <3>1. pos' = pos + 1 /\ Char \in LineEnds /\ ~Complete
      BY <2>1, <2>3 DEF LineEnds, Complete, NL, FF, Failure
    <3>2. /\ From' = pos' + 1
          /\ Asked' <=> ~Asked /\ Complete /\ Held[1] = "2"
          /\ Served' = IF Asked THEN "none" ELSE IF Complete THEN Held[1] ELSE "q"
          /\ Selected' = IF Asked /\ Complete THEN Meant(Held) ELSE Selected
          /\ Finished' <=> Finished \/ Served' = "q"
      BY <1>1, <2>1, <2>3, <3>1, NextLine
    <3>3. /\ active_buffer = Selected /\ ~Finished
          /\ pc[h] = "read_cmd" => ~Asked
          /\ pc[h] = "read_ans" => Asked
      BY <1>1, <2>1, <2>3 DEF FollowAt
    <3> QED
      BY <2>1, <3>1, <3>2, <3>3 DEF FollowAt
  <2> QED
    BY <2>2, <2>3
<1> QED
  BY <1>2, <1>3, <1>4, <1>5

\* Obeying a command reads nothing, and leaves the selected buffer.
LEMMA FollowObey ==
  ASSUME FollowInv, NEW h \in Handlers,
         \/ Menu(h) \/ Select(h) \/ BeginVisits(h) \/ Visit(h) \/ Touch(h) \/ Skip(h)
         \/ Toggle(h) \/ Quit(h) \/ Other(h)
  PROVE  FollowAt(h)'
<1>1. /\ FollowAt(h) /\ ReadTypes /\ VisitAt(h) /\ pc \in [Handlers -> PCs]
      /\ pc[h] \in InSession
  BY InsideStep DEF FollowInv, TypesInv, HoldInv, VisitInv
<1>2. UNCHANGED <<input, pos, active_buffer>>
  BY DEF Menu, Select, BeginVisits, Visit, Touch, Skip, Toggle, Quit, Other, session
<1>3. /\ UNCHANGED <<Asked, Served, Selected, From, Held>>
      /\ (Finished' <=> Finished) /\ (AtEnd' <=> AtEnd)
  BY <1>2, SameReading DEF AtEnd
<1>4. From = pos + 1 => Held = <<>>
  <2>1. pos \in Nat
    BY <1>1 DEF ReadTypes
  <2> QED
    BY <2>1, UptoEmpty, Zenon DEF Held
<1>5. CASE Menu(h) \/ Select(h)
  <2>1. /\ line' = <<>>
        /\ \/ pc[h] = "menu" /\ pc'[h] = "read_cmd"
           \/ pc[h] = "command" /\ cmd = "2" /\ cmd' = cmd /\ pc'[h] = "read_ans"
    BY <1>1, <1>5 DEF Menu, Select, Goto
  <2> QED
    BY <1>1, <1>2, <1>3, <1>4, <2>1 DEF FollowAt
<1>6. CASE BeginVisits(h) \/ Visit(h) \/ Touch(h) \/ Skip(h) \/ Toggle(h) \/ Other(h)
  <2>1. /\ pc[h] \in {"command", "visit", "touch"} /\ cmd' = cmd
        /\ pc'[h] \in {"menu", "visit", "touch"}
    BY <1>1, <1>6 DEF BeginVisits, Visit, Touch, Skip, NextVisit, Toggle, Other, Goto, session
  <2>2. cmd # "2" /\ cmd # "q"
    <3>1. CASE BeginVisits(h) \/ Toggle(h) \/ Other(h)
      BY <3>1 DEF BeginVisits, Toggle, Other, Prints, Resets
    <3>2. CASE Visit(h) \/ Touch(h) \/ Skip(h)
      <4>1. pc[h] \in {"visit", "touch"}
        BY <3>2 DEF Visit, Touch, Skip, NextVisit, Goto
      <4> QED
        BY <1>1, <4>1 DEF VisitAt, Prints, Resets
    <3> QED
      BY <1>6, <3>1, <3>2
  <2> QED
    BY <1>1, <1>2, <1>3, <2>1, <2>2 DEF FollowAt
<1>7. CASE Quit(h)
  <2>1. pc[h] = "command" /\ cmd = "q" /\ cmd' = cmd /\ pc'[h] = "fclose"
    BY <1>1, <1>7 DEF Quit, Goto, session
  <2>2. Finished
    <3>1. Served = "q"
      BY <1>1, <2>1 DEF FollowAt, InSession
    <3>2. Count \in Nat
      BY <1>1, EndsType
    <3>3. Count # 0
      <4>1. "none" # "q"
        OBVIOUS
      <4> QED
        BY <3>1, <4>1, Zenon DEF Served, CommandOf
    <3>4. Count \in 1 .. Count
      BY <3>2, <3>3
    <3> QED
      BY <3>1, <3>4, Zenon DEF Finished, Served
  <2> QED
    BY <1>1, <1>2, <1>3, <2>1, <2>2 DEF FollowAt
<1> QED
  BY <1>5, <1>6, <1>7

LEMMA FollowStep == FollowInv /\ [Next]_vars => FollowInv'
<1> SUFFICES ASSUME FollowInv, [Next]_vars, NEW g \in Handlers PROVE FollowAt(g)'
  BY TypesStep DEF FollowInv
<1>1. TypesInv /\ FollowAt(g) /\ pc \in [Handlers -> PCs]
  BY DEF FollowInv, TypesInv, HoldInv
<1>2. ASSUME UNCHANGED <<input, pos, active_buffer, line, cmd>>, pc'[g] = pc[g]
      PROVE  FollowAt(g)'
  <2>1. /\ UNCHANGED <<Asked, Served, Selected, From, Held>>
        /\ (Finished' <=> Finished) /\ (AtEnd' <=> AtEnd)
    BY <1>2, SameReading DEF AtEnd
  <2> QED
    BY <1>1, <1>2, <2>1 DEF FollowAt
<1>3. ASSUME pc'[g] \notin InSession
      PROVE  FollowAt(g)'
  BY <1>3 DEF FollowAt
<1>4. CASE \/ App \/ AppJoined \/ UNCHANGED vars
           \/ \E h \in Handlers : SigPipe(h) \/ TouchFreed(h)
  <2>1. UNCHANGED <<input, pos, session>> /\ (pc'[g] = pc[g] \/ pc'[g] = "socket")
    BY <1>1, <1>4, OtherStep
  <2> QED
    BY <1>2, <1>3, <2>1 DEF session, InSession
<1>5. ASSUME NEW h \in Handlers,
             SetUp(h) \/ Accept(h) \/ Welcome(h) \/ Dup(h) \/ Fdopen(h) \/ Fclose(h) \/ Close(h)
      PROVE  FollowAt(g)'
  <2>1. UNCHANGED <<pos, active_buffer, line, cmd>> /\ \E to \in PCs : pc' = [pc EXCEPT ![h] = to]
    BY <1>5, OutsideStep DEF session
  <2>2. CASE g # h
    <3>1. pc'[g] = pc[g]
      BY <1>1, <2>1, <2>2
    <3>2. CASE Accept(h)
      <4>1. pc[h] = "accept"
        BY <3>2 DEF Accept, Goto
      <4>2. pc[g] \notin Bound
        BY <1>1, <2>2, <4>1, Alone DEF TypesInv, Bound
      <4> QED
        BY <1>3, <3>1, <4>2 DEF Bound
    <3>3. CASE ~Accept(h)
      <4>1. input' = input
        BY <1>5, <3>3 DEF SetUp, Socket, Bind, Listen, Welcome, Dup, Fdopen, Fclose, Close
      <4> QED
        BY <1>2, <2>1, <3>1, <4>1
    <3> QED
      BY <3>2, <3>3
  <2>3. CASE g = h /\ Fdopen(h)
    <3>1. /\ pc[h] = "fdopen" /\ pc'[h] \in {"menu", "close"}
          /\ UNCHANGED <<input, pos, active_buffer>>
      BY <1>1, <2>3 DEF Fdopen, NoStream, Goto, session
    <3>2. pos = 0 /\ active_buffer = 0
      BY <1>1, <2>3, <3>1 DEF TypesInv, FreshInv, Fresh, BeforeSession
    <3>3. From' = 1 /\ ~Asked' /\ Selected' = 0 /\ ~Finished'
      BY <3>1, <3>2, NothingRead, SameReading
    <3> QED
      BY <2>3, <3>1, <3>2, <3>3 DEF FollowAt, InSession
  <2>4. CASE g = h /\ ~Fdopen(h)
    <3>1. pc'[h] \notin InSession
      <4> USE DEF Goto, InSession
      <4>1. CASE SetUp(h)
        BY <1>1, <4>1 DEF SetUp, Socket, Bind, Listen
      <4>2. CASE Accept(h) \/ Welcome(h) \/ Dup(h)
        BY <1>1, <4>2 DEF Accept, Welcome, Dup
      <4>3. CASE Fclose(h) \/ Close(h)
        BY <1>1, <4>3 DEF Fclose, Close
      <4> QED
        BY <1>5, <2>4, <4>1, <4>2, <4>3
    <3> QED
      BY <1>3, <2>4, <3>1
  <2> QED
    BY <2>2, <2>3, <2>4
<1>6. ASSUME NEW h \in Handlers,
             \/ Menu(h) \/ ReadChar(h) \/ ReadCommand(h) \/ ReadAnswer(h) \/ ReadStops(h)
             \/ Select(h) \/ BeginVisits(h) \/ Visit(h) \/ Touch(h) \/ Skip(h) \/ Toggle(h)
             \/ Quit(h) \/ Other(h)
      PROVE  FollowAt(g)'
  <2>1. CASE g = h
    BY <1>6, <2>1, FollowRead, FollowObey
  <2>2. CASE g # h
    <3>1. pc'[g] \notin InSession
      BY <1>1, <1>6, <2>2, InsideStep DEF Bound
    <3> QED
      BY <1>3, <3>1
  <2> QED
    BY <2>1, <2>2
<1> QED
  BY <1>4, <1>5, <1>6, StepKinds

LEMMA FollowAlways == Spec => []FollowInv
<1>1. Init => FollowInv
  <2> SUFFICES ASSUME Init PROVE \A h \in Handlers : FollowAt(h)
    BY TypesInit DEF FollowInv
  <2> QED
    BY DEF Init, FollowAt, InSession
<1> QED
  BY <1>1, FollowStep, PTL DEF Spec

\* The server does what the lines say, however long they are, wherever they
\* break off and whatever an answer holds: it obeys the command of the last
\* line with the buffer of the last good answer active, takes a line for an
\* answer just when the one before asked for it, and ends the session just
\* when a line ended it or nothing is left.
THEOREM SessionFollows == Spec => []SessionFollowsInput
<1>1. FollowInv => SessionFollowsInput
  <2> SUFFICES ASSUME FollowInv, NEW h \in Handlers, pc[h] \in InSession
               PROVE  /\ active_buffer = ActiveAfter(Lines)
                      /\ pc[h] \in {"command", "visit", "touch"} => cmd = Command(Lines)
                      /\ pc[h] = "read_ans" => Asks[Lines]
                      /\ pc[h] = "read_cmd" => AtEnd \/ ~Asks[Lines]
                      /\ pc[h] = "fclose" => Over \/ AtEnd
                      /\ Over => pc[h] = "fclose" \/ (pc[h] = "command" /\ cmd = "q")
    BY Zenon DEF SessionFollowsInput
  <2>1. Lines = Count
    BY DEF Lines, Count
  <2>2. ActiveAfter(Lines) = Selected /\ Command(Lines) = Served
    BY <2>1, SameActive, SameCommand, Zenon DEF Selected, Served
  <2>3. Asks[Lines] <=> Asked
    BY <2>1, SameAsks, Zenon DEF Asked
  <2>4. Over <=> Finished
    BY <2>1, SameCommand, Zenon DEF Over, Finished
  <2> QED
    BY <2>2, <2>3, <2>4 DEF FollowInv, FollowAt
<1> QED
  BY <1>1, FollowAlways, PTL

-----------------------------------------------------------------------------
(***************************************************************************)
(* Only what the client asked to reset is cleared.                         *)
(***************************************************************************)
ResetLine(b, k) ==
  \/ CommandOf(input, Ends, k) = "6"
  \/ CommandOf(input, Ends, k) = "5" /\ ActiveOf(input, Ends, k) = b
ResetAsked(b) == \E k \in 1 .. Count : ResetLine(b, k)

ClearedInv == FollowInv /\ \A b \in Slots : contents[b] # logged[b] => ResetAsked(b)

\* A line read stays read.
LEMMA AskedStays ==
  ASSUME FollowInv, [Next]_vars, pos # 0, NEW b, ResetAsked(b)
  PROVE  ResetAsked(b)'
<1>1. ReadTypes /\ TypesInv
  BY DEF FollowInv, TypesInv
<1>2. CASE UNCHANGED <<input, pos>>
  <2>1. Ends' = Ends /\ Count' = Count
    BY <1>2, SameReading
  <2> QED
    BY <1>2, <2>1, Zenon DEF ResetAsked, ResetLine
<1>3. CASE pos' = pos + 1 /\ input' = input /\ ~AtEnd /\ Char \notin LineEnds
  <2>1. Ends' = Ends /\ Count' = Count
    BY <1>1, <1>3, NextCharacter
  <2> QED
    BY <1>3, <2>1, Zenon DEF ResetAsked, ResetLine
<1>4. CASE pos' = pos + 1 /\ input' = input /\ ~AtEnd /\ Char \in LineEnds
  <2>1. Adds(pos, Ends, pos + 1, Ends') /\ Count' = Count + 1
    BY <1>1, <1>4, NextLine
  <2>2. PICK k \in 1 .. Count : ResetLine(b, k)
    BY DEF ResetAsked
  <2>3. Count \in Nat
    BY <1>1, EndsType
  <2>4. k \in 1 .. Count' /\ k \in 0 .. Count
    BY <2>1, <2>3
  <2>5. CommandOf(input, Ends', k) = CommandOf(input, Ends, k)
    BY <2>1, <2>2, AddCommand DEF Count
  <2>6. ActiveOf(input, Ends', k) = ActiveOf(input, Ends, k)
    BY <2>1, <2>4, AddActive DEF Count
  <2>7. \/ CommandOf(input', Ends', k) = "6"
        \/ CommandOf(input', Ends', k) = "5" /\ ActiveOf(input', Ends', k) = b
    BY <1>4, <2>2, <2>5, <2>6, Zenon DEF ResetLine
  <2> QED
    BY <2>4, <2>7, Zenon DEF ResetAsked, ResetLine
<1>5. ASSUME NEW h \in Handlers, ReadChar(h) \/ ReadCommand(h) \/ ReadAnswer(h) \/ ReadStops(h)
      PROVE  \/ UNCHANGED <<input, pos>>
             \/ pos' = pos + 1 /\ input' = input /\ ~AtEnd
  BY <1>5 DEF ReadChar, ReadCommand, ReadAnswer, ReadStops
<1>6. ASSUME NEW h \in Handlers, Accept(h)
      PROVE  UNCHANGED <<input, pos>>
  BY <1>1, <1>6 DEF Accept, Goto, TypesInv, FreshInv, Fresh, BeforeSession
<1>7. ASSUME NEW h \in Handlers,
             SetUp(h) \/ Welcome(h) \/ Dup(h) \/ Fdopen(h) \/ Fclose(h) \/ Close(h)
      PROVE  UNCHANGED <<input, pos>>
  BY <1>7 DEF SetUp, Socket, Bind, Listen, Welcome, Dup, Fdopen, Fclose, Close
<1>8. ASSUME NEW h \in Handlers,
             \/ Menu(h) \/ Select(h) \/ BeginVisits(h) \/ Visit(h) \/ Touch(h) \/ Skip(h)
             \/ Toggle(h) \/ Quit(h) \/ Other(h)
      PROVE  UNCHANGED <<input, pos>>
  BY <1>8 DEF Menu, Select, BeginVisits, Visit, Touch, Skip, Toggle, Quit, Other
<1>9. CASE \/ App \/ AppJoined \/ UNCHANGED vars
           \/ \E h \in Handlers : SigPipe(h) \/ TouchFreed(h)
  BY <1>1, <1>2, <1>9, OtherStep
<1> QED
  BY <1>2, <1>3, <1>4, <1>5, <1>6, <1>7, <1>8, <1>9, StepKinds

\* What a step makes differ between a buffer and what was logged into it.
LEMMA ClearStep ==
  ASSUME FollowInv, [Next]_vars, NEW b \in Slots, contents'[b] # logged'[b]
  PROVE  contents[b] # logged[b] \/ ResetAsked(b)
<1>1. TypesInv /\ LibTypes
  BY DEF FollowInv, TypesInv
<1>2. CASE UNCHANGED <<contents, logged>>
  BY <1>2
<1>3. ASSUME NEW c \in Slots, AppLog(c)
      PROVE  contents[b] # logged[b]
  BY <1>1, <1>3 DEF AppLog, LibTypes
<1>4. CASE AppCleanup
  BY <1>4 DEF AppCleanup
<1>5. ASSUME NEW h \in Handlers, Touch(h)
      PROVE  contents[b] # logged[b] \/ ResetAsked(b)
  <2>1. pc[h] = "touch" /\ logged' = logged
    BY <1>5 DEF Touch, NextVisit, Goto, history
  <2>2. CASE cmd \in Resets /\ b = idx
    <3>1. cmd = Served /\ active_buffer = Selected
      BY <2>1 DEF FollowInv, FollowAt, InSession
    <3>2. cmd = "6" \/ (cmd = "5" /\ idx = active_buffer)
      BY <1>1, <2>1, <2>2 DEF TypesInv, VisitInv, VisitAt, Resets
    <3>3. Count # 0
      <4>1. cmd # "none"
        BY <2>2 DEF Resets
      <4> QED
        BY <3>1, <4>1, Zenon DEF Served, CommandOf
    <3>4. Count \in 1 .. Count
      BY <1>1, <3>3, EndsType DEF TypesInv
    <3>5. ResetLine(b, Count)
      BY <2>2, <3>1, <3>2, Zenon DEF ResetLine, Served, Selected
    <3> QED
      BY <3>4, <3>5, Zenon DEF ResetAsked
  <2>3. CASE ~(cmd \in Resets /\ b = idx)
    BY <1>1, <1>5, <2>1, <2>3 DEF Touch, LibTypes
  <2> QED
    BY <2>2, <2>3
<1> USE DEF library, history
<1>6. CASE AppCreate \/ AppStart \/ AppWait \/ AppJoined \/ UNCHANGED vars
  BY <1>2, <1>6 DEF AppCreate, AppStart, AppWait, AppJoined, vars
<1>7. ASSUME NEW h \in Handlers,
             SetUp(h) \/ Accept(h) \/ SigPipe(h) \/ Welcome(h) \/ Dup(h) \/ Fdopen(h)
      PROVE  UNCHANGED <<contents, logged>>
  BY <1>7 DEF SetUp, Socket, Bind, Listen, Accept, SigPipe, Welcome, Dup, Fdopen
<1>8. ASSUME NEW h \in Handlers,
             \/ Fclose(h) \/ Close(h) \/ Menu(h) \/ ReadChar(h) \/ ReadCommand(h)
             \/ ReadAnswer(h) \/ ReadStops(h) \/ BeginVisits(h) \/ Toggle(h)
      PROVE  UNCHANGED <<contents, logged>>
  BY <1>8 DEF Fclose, Close, Menu, ReadChar, ReadCommand, ReadAnswer, ReadStops, BeginVisits, Toggle
<1>9. ASSUME NEW h \in Handlers,
             Select(h) \/ Visit(h) \/ Skip(h) \/ TouchFreed(h) \/ Quit(h) \/ Other(h)
      PROVE  UNCHANGED <<contents, logged>>
  BY <1>9 DEF Select, Visit, Skip, TouchFreed, Quit, Other
<1> QED
  BY <1>2, <1>3, <1>4, <1>5, <1>6, <1>7, <1>8, <1>9 DEF Next, App, SessionStep

\* Messages disappear only from buffers that a line the client sent asked to
\* reset, and when a reset is done, all that was in such a buffer when it began
\* is gone.
THEOREM ClearedOnRequest == Spec => []ClearedAsAsked
<1>1. Init => ClearedInv
  <2> SUFFICES ASSUME Init PROVE ClearedInv
    OBVIOUS
  <2>1. FollowInv
    BY TypesInit DEF Init, FollowInv, FollowAt, InSession
  <2> QED
    BY <2>1 DEF Init, ClearedInv
<1>2. ClearedInv /\ [Next]_vars => ClearedInv'
  <2> SUFFICES ASSUME ClearedInv, [Next]_vars, NEW b \in Slots, contents'[b] # logged'[b]
               PROVE  ResetAsked(b)'
    BY FollowStep DEF ClearedInv
  <2>1. FollowInv /\ ResetAsked(b)
    BY ClearStep DEF ClearedInv
  <2>2. pos # 0
    <3> SUFFICES ASSUME pos = 0 PROVE FALSE
      OBVIOUS
    <3>1. \A i : i \notin 1 .. 0
      OBVIOUS
    <3>2. Ends = {}
      BY <3>1, Zenon DEF Ends
    <3>3. Count = 0
      BY <3>2, FS_EmptySet DEF Count
    <3> QED
      BY <2>1, <3>1, <3>3, Zenon DEF ResetAsked
  <2> QED
    BY <2>1, <2>2, AskedStays
<1>3. ClearedInv => \A b \in Slots : contents[b] # logged[b] => b \in AskedToReset
  <2> SUFFICES ASSUME NEW b \in Slots, ResetAsked(b) PROVE b \in AskedToReset
    BY DEF ClearedInv
  <2>1. Lines = Count
    BY DEF Lines, Count
  <2> QED
    BY <2>1, SameCommand, SameActive, Zenon DEF ResetAsked, ResetLine, AskedToReset
<1>4. ClearedInv /\ ResetComplete => ClearedAsAsked
  BY <1>3, Zenon DEF ClearedAsAsked
<1> QED
  BY <1>1, <1>2, <1>4, ResetsComplete, PTL DEF Spec

=============================================================================
