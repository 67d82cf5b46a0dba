----------------------------- MODULE QlogServer -----------------------------
(***************************************************************************)
(* The console server (qlog_server.c) and the application beside it.       *)
(*                                                                         *)
(* qlog_start_server runs a handler in a thread of its own, which accepts  *)
(* one connection and obeys the lines the client sends; the application    *)
(* goes on logging, may wait for the thread it started last, and cleans    *)
(* up, with or without having waited.                                      *)
(*                                                                         *)
(* What the client sends is fixed when it connects and read one character  *)
(* at a time.  A buffer of the library is the set of messages logged into  *)
(* it since it was reset; how such a call works inside is QlogBuffer's     *)
(* subject, and the two threads' use of the switch QlogLib's.              *)
(***************************************************************************)
EXTENDS Integers, Sequences, FiniteSets

CONSTANTS
  Inputs,        \* what a client may send: sequences of characters
  LineLen,       \* the size of the arrays buffer and answer
  LongMax,       \* the greatest number a long holds (2^63 - 1)
  MaxBufs,       \* QLOG_MAX_BUF_NUM
  MaxStarts,     \* bound: calls of qlog_start_server
  MaxMessages    \* bound: messages logged

\* Characters are strings; these three end a line.
NL == "newline"
FF == "0xff"            \* is taken for an end of file
Failure == "failure"    \* a read that fails
LineEnds == {NL, FF, Failure}

ASSUME ServerConstants ==
  /\ Inputs \subseteq Seq(STRING)
  /\ LineLen \in Nat \ {0, 1}
  /\ LongMax \in Nat
  /\ MaxBufs \in Nat \ {0} /\ MaxBufs <= 256
  /\ MaxStarts \in Nat /\ MaxMessages \in Nat

Slots == 0 .. MaxBufs - 1
Handlers == 1 .. MaxStarts
Messages == 1 .. MaxMessages

VARIABLES
  inited, enabled, created, contents,    \* the library: its state and buffers
  app, handle, starts,        \* the application; qlog_server_thread, 0 once joined
  pc, open, port,             \* handler threads, their descriptors, who has the port
  input, pos,                 \* the client's characters, how many are read
  active_buffer, line, cmd, idx,         \* the session
  messages, logged, doomed, abandoned    \* history

library == <<inited, enabled, created, contents>>
session == <<active_buffer, line, cmd, idx>>
history == <<messages, logged, doomed, abandoned>>
appvars == <<app, handle, starts>>
vars == <<library, appvars, pc, open, port, input, pos, session, history>>

\* After qlog_init with a default buffer.
Init ==
  /\ inited = TRUE /\ enabled = TRUE
  /\ created = {0}
  /\ contents = [b \in Slots |-> {}]
  /\ app = "run" /\ handle = 0 /\ starts = 0
  /\ pc = [h \in Handlers |-> "off"]
  /\ open = [h \in Handlers |-> {}]
  /\ port = 0
  /\ input = <<>> /\ pos = 0
  /\ active_buffer = 0 /\ line = <<>> /\ cmd = "none" /\ idx = 0
  /\ messages = 0
  /\ logged = [b \in Slots |-> {}]
  /\ doomed = {}
  /\ abandoned = FALSE

-----------------------------------------------------------------------------
(***************************************************************************)
(* The application.                                                        *)
(***************************************************************************)
\* qlog_create_buffer takes the first free slot.
AppCreate ==
  /\ app = "run"
  /\ \E b \in Slots \ created :
       /\ \A c \in Slots \ created : b <= c
       /\ created' = created \cup {b}
  /\ UNCHANGED <<inited, enabled, contents, appvars, pc, open, port, input, pos,
                 session, history>>

\* qlog_log_id
AppLog(b) ==
  /\ app = "run" /\ messages < MaxMessages
  /\ inited /\ enabled /\ b \in created
  /\ messages' = messages + 1
  /\ contents' = [contents EXCEPT ![b] = @ \cup {messages'}]
  /\ logged' = [logged EXCEPT ![b] = @ \cup {messages'}]
  /\ UNCHANGED <<inited, enabled, created, appvars, pc, open, port, input, pos,
                 session, doomed, abandoned>>

\* A server still runs that the application knows of and has not waited for.
Unjoined == handle # 0 /\ pc[handle] # "done"

\* qlog_start_server: the handle of a server that still runs is overwritten.
AppStart ==
  /\ app = "run" /\ starts < MaxStarts
  /\ starts' = starts + 1
  /\ handle' = starts'
  /\ pc' = [pc EXCEPT ![starts'] = "socket"]
  /\ abandoned' = (abandoned \/ Unjoined)
  /\ UNCHANGED <<library, app, open, port, input, pos, session, messages, logged, doomed>>

AppWait ==
  /\ app = "run" /\ handle # 0
  /\ app' = "waiting"
  /\ UNCHANGED <<library, handle, starts, pc, open, port, input, pos, session, history>>

\* Mutant of Joined: waiting is over once the server runs.
Joined_Started == pc[handle] # "socket"

Joined == pc[handle] = "done"

AppJoined ==
  /\ app = "waiting" /\ Joined
  /\ app' = "run" /\ handle' = 0
  /\ UNCHANGED <<library, starts, pc, open, port, input, pos, session, history>>

\* qlog_cleanup, which does not ask whether a server runs.
AppCleanup ==
  /\ app = "run"
  /\ abandoned' = (abandoned \/ Unjoined)
  /\ app' = "over"
  /\ inited' = FALSE /\ enabled' = FALSE
  /\ created' = {}
  /\ contents' = [b \in Slots |-> {}]
  /\ logged' = [b \in Slots |-> {}]
  /\ UNCHANGED <<handle, starts, pc, open, port, input, pos, session,
                 messages, doomed>>

-----------------------------------------------------------------------------
(***************************************************************************)
(* The handler up to the first menu.                                       *)
(***************************************************************************)
Goto(h, from, to) ==
  /\ app # "killed"
  /\ pc[h] = from
  /\ pc' = [pc EXCEPT ![h] = to]

Opened(h, fd) == open' = [open EXCEPT ![h] = @ \cup {fd}]
Closed(h, fd) == open' = [open EXCEPT ![h] = @ \ {fd}]

Socket(h) ==
  /\ \/ Goto(h, "socket", "bind") /\ Opened(h, "server_sock")
     \/ Goto(h, "socket", "done") /\ UNCHANGED open
  /\ UNCHANGED <<library, appvars, port, input, pos, session, history>>

\* The port is free until a handler has bound it: nobody closes server_sock.
Bind(h) ==
  /\ \/ Goto(h, "bind", "listen") /\ port = 0 /\ port' = h
     \/ Goto(h, "bind", "done") /\ UNCHANGED port
  /\ UNCHANGED <<library, appvars, open, input, pos, session, history>>

Listen(h) ==
  /\ Goto(h, "listen", "accept") \/ Goto(h, "listen", "done")
  /\ UNCHANGED <<library, appvars, open, port, input, pos, session, history>>

\* The client that connects is the one that sends some input.
Accept(h) ==
  /\ \/ Goto(h, "accept", "welcome") /\ Opened(h, "conn_sock") /\ input' \in Inputs
     \/ Goto(h, "accept", "done") /\ UNCHANGED <<open, input>>
  /\ UNCHANGED <<library, appvars, port, pos, session, history>>

\* The welcome message; an error ends the connection.
Welcome(h) ==
  /\ Goto(h, "welcome", "dup") \/ Goto(h, "welcome", "close")
  /\ UNCHANGED <<library, appvars, open, port, input, pos, session, history>>

\* dup, or fdopen of no descriptor
Dup(h) ==
  /\ \/ Goto(h, "dup", "fdopen") /\ Opened(h, "fd")
     \/ Goto(h, "dup", "close") /\ UNCHANGED open
  /\ UNCHANGED <<library, appvars, port, input, pos, session, history>>

\* Mutant of NoStream: the duplicate stays open.
NoStream_Keeps(h) == Goto(h, "fdopen", "close") /\ UNCHANGED open

NoStream(h) == Goto(h, "fdopen", "close") /\ Closed(h, "fd")

Fdopen(h) ==
  /\ \/ Goto(h, "fdopen", "menu") /\ UNCHANGED open
     \/ NoStream(h)
  /\ UNCHANGED <<library, appvars, port, input, pos, session, history>>

\* fclose closes the duplicate; close the connection.  server_sock stays open.
Fclose(h) ==
  /\ Goto(h, "fclose", "close") /\ Closed(h, "fd")
  /\ UNCHANGED <<library, appvars, port, input, pos, session, history>>

Close(h) ==
  /\ Goto(h, "close", "done") /\ Closed(h, "conn_sock")
  /\ UNCHANGED <<library, appvars, port, input, pos, session, history>>

-----------------------------------------------------------------------------
(***************************************************************************)
(* read_line.  Its two callers read a command and the answer to "2"; only  *)
(* the handler that has the port comes here, so the session has one line.  *)
(***************************************************************************)
Prints == {"3", "4"}
Resets == {"5", "6"}

\* The prompt.  A client that has hung up ends the whole program: nothing
\* blocks or handles the signal of a write to a closed connection.
Menu(h) ==
  /\ Goto(h, "menu", "read_cmd")
  /\ line' = <<>>
  /\ cmd' = "none"
  /\ UNCHANGED <<library, appvars, open, port, input, pos, active_buffer, idx, history>>

SigPipe(h) ==
  /\ pc[h] \in {"welcome", "menu"} \/ (pc[h] = "touch" /\ cmd \in Prints)
  /\ app # "killed"
  /\ app' = "killed"
  /\ UNCHANGED <<library, handle, starts, pc, open, port, input, pos, session, history>>

Reading(h) == pc[h] \in {"read_cmd", "read_ans"} /\ app # "killed"
AtEnd == pos = Len(input)
Char == input[pos + 1]

\* Mutant of EndsLine: a full array ends the line.
EndsLine_Full == Char = NL \/ Len(line) = LineLen - 1

EndsLine == Char = NL

\* A character; what the array has no room for is dropped.
ReadChar(h) ==
  /\ Reading(h) /\ ~AtEnd /\ ~EndsLine /\ Char \notin LineEnds
  /\ pos' = pos + 1
  /\ line' = IF Len(line) < LineLen - 1 THEN Append(line, Char) ELSE line
  /\ UNCHANGED <<library, appvars, pc, open, port, input, active_buffer, cmd, idx, history>>

\* A whole command.  An empty one counts as an end of file.
ReadCommand(h) ==
  /\ ~AtEnd /\ EndsLine
  /\ IF line = <<>> THEN Goto(h, "read_cmd", "fclose") /\ UNCHANGED cmd
     ELSE Goto(h, "read_cmd", "command") /\ cmd' = line[1]
  /\ pos' = pos + 1
  /\ UNCHANGED <<library, appvars, open, port, input, active_buffer, line, idx, history>>

Blanks == {" ", "tab", "vertical tab", "form feed", "return"}
Digits == <<{"0"}, {"1"}, {"2"}, {"3"}, {"4"}, {"5"}, {"6"}, {"7"}, {"8"}, {"9"},
            {"a", "A"}, {"b", "B"}, {"c", "C"}, {"d", "D"}, {"e", "E"}, {"f", "F"}>>

Digit(c) == CHOOSE d \in 0 .. 15 : c \in Digits[d + 1]

\* The value of the digits that a sequence of characters begins with.
Value(s, base) ==
  LET isDigit(c) == \E d \in 1 .. base : c \in Digits[d]
      upTo[i \in 0 .. Len(s)] ==
        IF i = 0 THEN 0
        ELSE IF \A j \in 1 .. i : isDigit(s[j]) THEN upTo[i - 1] * base + Digit(s[i])
        ELSE upTo[i - 1]
  IN  upTo[Len(s)]

\* 0x begins a hexadecimal number, 0 an octal one.
Unsigned(s) ==
  IF Len(s) > 1 /\ s[1] = "0" /\ s[2] \in {"x", "X"} THEN Value(SubSeq(s, 3, Len(s)), 16)
  ELSE Value(s, IF s # <<>> /\ s[1] = "0" THEN 8 ELSE 10)

Signed(s) ==
  IF s = <<>> \/ s[1] \notin {"-", "+"} THEN Unsigned(s)
  ELSE IF s[1] = "-" THEN -Unsigned(Tail(s)) ELSE Unsigned(Tail(s))

\* strtol(s, &tail, 0), which passes over leading blanks, before its range.
Number(s) ==
  LET blanks == {i \in 1 .. Len(s) : \A j \in 1 .. i : s[j] \in Blanks}
  IN  Signed(SubSeq(s, Cardinality(blanks) + 1, Len(s)))

\* The numbers that strtol returns without an error.
Longs == -LongMax - 1 .. LongMax

\* Mutant of Chosen: the number is not cut to a byte.
Chosen_Int(answer) == IF Number(answer) \in Longs THEN Number(answer) ELSE 0

\* A buffer id is an unsigned char; a number out of range selects buffer 0.
Chosen(answer) == IF Number(answer) \in Longs THEN Number(answer) % 256 ELSE 0

\* A whole answer; an empty one leaves the active buffer as it is.
ReadAnswer(h) ==
  /\ ~AtEnd /\ EndsLine
  /\ Goto(h, "read_ans", "menu")
  /\ active_buffer' = IF line = <<>> THEN active_buffer ELSE Chosen(line)
  /\ pos' = pos + 1
  /\ UNCHANGED <<library, appvars, open, port, input, line, cmd, idx, history>>

\* Mutant of Interrupted: the end of the input is not recognised.
Interrupted_NotAtEnd == ~AtEnd /\ Char \in {FF, Failure}

Interrupted == ~AtEnd => Char \in {FF, Failure}

\* 0xff, an error or the end of the input: the command loop ends, an answer
\* is given up and the loop goes on.
ReadStops(h) ==
  /\ Interrupted
  /\ Goto(h, "read_cmd", "fclose") \/ Goto(h, "read_ans", "menu")
  /\ pos' = IF AtEnd THEN pos ELSE pos + 1
  /\ UNCHANGED <<library, appvars, open, port, input, session, history>>

-----------------------------------------------------------------------------
(***************************************************************************)
(* The commands.                                                           *)
(***************************************************************************)
Select(h) ==
  /\ cmd = "2" /\ Goto(h, "command", "read_ans")
  /\ line' = <<>>
  /\ UNCHANGED <<library, appvars, open, port, input, pos, active_buffer, cmd, idx, history>>

\* Mutant of LastSlot: the loop ends before the last buffer.
LastSlot_Short == MaxBufs - 2

LastSlot == MaxBufs - 1

\* 3 and 5 visit the active buffer, 4 and 6 all of them in turn, without the
\* global lock.
FirstVisited == IF cmd \in {"4", "6"} THEN 0 ELSE active_buffer
LastVisited == IF cmd \in {"4", "6"} THEN LastSlot ELSE active_buffer

\* The messages that are in the buffers to be reset when the command begins.
ToBeCleared == UNION {contents[b] : b \in IF cmd = "6" THEN Slots ELSE {active_buffer} \cap Slots}

BeginVisits(h) ==
  /\ cmd \in Prints \cup Resets /\ Goto(h, "command", "visit")
  /\ idx' = FirstVisited
  /\ doomed' = IF cmd \in Resets THEN ToBeCleared ELSE {}
  /\ UNCHANGED <<library, appvars, open, port, input, pos, active_buffer, line, cmd,
                 messages, logged, abandoned>>

\* qlog_internal_get_buffer_by_id, or the same test in qlog_reset_buffer_id
Exists == inited /\ idx < MaxBufs /\ idx \in created

Visit(h) ==
  /\ Exists /\ Goto(h, "visit", "touch")
  /\ UNCHANGED <<library, appvars, open, port, input, pos, session, history>>

NextVisit(h, from) ==
  /\ Goto(h, from, IF idx = LastVisited THEN "menu" ELSE "visit")
  /\ idx' = IF idx = LastVisited THEN 0 ELSE idx + 1

\* Prints leave the buffer as it is, resets empty it.
Touch(h) ==
  /\ idx \in created /\ NextVisit(h, "touch")
  /\ contents' = IF cmd \in Resets THEN [contents EXCEPT ![idx] = {}] ELSE contents
  /\ UNCHANGED <<inited, enabled, created, appvars, open, port, input, pos,
                 active_buffer, line, cmd, history>>

Skip(h) ==
  /\ ~Exists /\ NextVisit(h, "visit")
  /\ UNCHANGED <<library, appvars, open, port, input, pos, active_buffer, line, cmd, history>>

\* A buffer freed since the test: what follows is undefined.
TouchFreed(h) ==
  /\ idx \notin created /\ pc[h] = "touch" /\ app # "killed"
  /\ app' = "killed"
  /\ UNCHANGED <<library, handle, starts, pc, open, port, input, pos, session, history>>

\* qlog_toggle_status
Toggle(h) ==
  /\ cmd = "7" /\ Goto(h, "command", "menu")
  /\ enabled' = ~enabled
  /\ UNCHANGED <<inited, created, contents, appvars, open, port, input, pos, session, history>>

Quit(h) ==
  /\ cmd = "q" /\ Goto(h, "command", "fclose")
  /\ UNCHANGED <<library, appvars, open, port, input, pos, session, history>>

\* "1" lists the buffers, which changes nothing; an unknown command is ignored.
Other(h) ==
  /\ cmd \notin {"2", "7", "q"} \cup Prints \cup Resets
  /\ Goto(h, "command", "menu")
  /\ UNCHANGED <<library, appvars, open, port, input, pos, session, history>>

-----------------------------------------------------------------------------
App ==
  \/ AppCreate \/ (\E b \in Slots : AppLog(b)) \/ AppStart \/ AppWait \/ AppCleanup

SessionStep(h) ==
  \/ Welcome(h) \/ Dup(h) \/ Fdopen(h) \/ Fclose(h) \/ Close(h)
  \/ Menu(h) \/ ReadChar(h) \/ ReadCommand(h) \/ ReadAnswer(h) \/ ReadStops(h)
  \/ Select(h) \/ BeginVisits(h) \/ Visit(h) \/ Touch(h) \/ Skip(h) \/ TouchFreed(h)
  \/ Toggle(h) \/ Quit(h) \/ Other(h)

SetUp(h) == Socket(h) \/ Bind(h) \/ Listen(h)

Next ==
  \/ App \/ AppJoined
  \/ \E h \in Handlers : SetUp(h) \/ Accept(h) \/ SessionStep(h) \/ SigPipe(h)

Spec == Init /\ [][Next]_vars

\* Handlers are scheduled, the client goes on sending until it ends its side
\* of the connection, and joining returns.  Nobody has to connect.
FairSpec ==
  /\ Spec /\ WF_vars(AppJoined)
  /\ \A h \in Handlers : WF_vars(SetUp(h)) /\ WF_vars(SessionStep(h))

-----------------------------------------------------------------------------
InSession == {"menu", "read_cmd", "read_ans", "command", "visit", "touch", "fclose"}
PCs == InSession \cup {"off", "socket", "bind", "listen", "accept", "welcome", "dup",
                       "fdopen", "close", "done"}

\* The types of the variables.  The active buffer is any unsigned char, also
\* one that no buffer has; a visited index beyond the table is only ever that.
ServerTypeOK ==
  /\ inited \in BOOLEAN /\ enabled \in BOOLEAN
  /\ created \subseteq Slots
  /\ contents \in [Slots -> SUBSET Messages]
  /\ app \in {"run", "waiting", "over", "killed"}
  /\ handle \in 0 .. MaxStarts /\ starts \in 0 .. MaxStarts
  /\ pc \in [Handlers -> PCs]
  /\ open \in [Handlers -> SUBSET {"server_sock", "conn_sock", "fd"}]
  /\ port \in 0 .. MaxStarts
  /\ input \in Inputs \cup {<<>>} /\ pos \in 0 .. Len(input)
  /\ active_buffer \in 0 .. 255
  /\ line \in Seq(STRING) /\ Len(line) < LineLen
  /\ cmd \in {"none"} \cup STRING
  /\ idx \in Slots \cup {active_buffer}
  /\ messages \in 0 .. MaxMessages
  /\ logged \in [Slots -> SUBSET Messages]
  /\ doomed \subseteq Messages
  /\ abandoned \in BOOLEAN

-----------------------------------------------------------------------------
(***************************************************************************)
(* What the input read so far asks for, by its lines alone.                *)
(***************************************************************************)
Ends == {i \in 1 .. pos : input[i] \in LineEnds}
Lines == Cardinality(Ends)
End(k) == CHOOSE i \in Ends : Cardinality({j \in Ends : j <= i}) = k
Begin(k) == IF k = 1 THEN 1 ELSE End(k - 1) + 1

\* The text of line k, as far as an array holds it.
Text(k) ==
  LET full == Begin(k) + LineLen - 2
  IN  SubSeq(input, Begin(k), IF End(k) - 1 < full THEN End(k) - 1 ELSE full)

Whole(k) == input[End(k)] = NL /\ Text(k) # <<>>

\* Line k is a command that asks for a buffer, so the next line is an answer.
Asks ==
  LET asks[k \in 0 .. Lines] == k > 0 /\ ~asks[k - 1] /\ Whole(k) /\ Text(k)[1] = "2"
  IN  asks

Command(k) == IF k = 0 \/ Asks[k - 1] THEN "none" ELSE IF Whole(k) THEN Text(k)[1] ELSE "q"

\* The buffer that an answer means: the last byte of its number, 0 if no long
\* holds that.
Meant(text) ==
  LET n == Number(text) IN IF n \in Longs THEN n % 256 ELSE 0

\* The buffer selected by the last good answer among the first n lines.
ActiveAfter(n) ==
  LET answers == {k \in 1 .. n : Asks[k - 1] /\ Whole(k)}
  IN  IF answers = {} THEN 0
      ELSE Meant(Text(CHOOSE k \in answers : \A j \in answers : j <= k))

AskedToReset ==
  {b \in Slots : \E k \in 1 .. Lines :
     Command(k) = "6" \/ (Command(k) = "5" /\ ActiveAfter(k) = b)}

Over == \E k \in 1 .. Lines : Command(k) = "q"

\* The server does what the lines say, however long they are, wherever they
\* break off and whatever an answer holds: it serves the command of the last
\* line, with the buffer of the last good answer active; a line is read as an
\* answer just when the one before asked; the session is over just when a line
\* ended it or nothing is left.
SessionFollowsInput ==
  \A h \in Handlers : pc[h] \in InSession =>
    /\ active_buffer = ActiveAfter(Lines)
    /\ pc[h] \in {"command", "visit", "touch"} => cmd = Command(Lines)
    /\ pc[h] = "read_ans" => Asks[Lines]
    /\ pc[h] = "read_cmd" => AtEnd \/ ~Asks[Lines]
    /\ pc[h] = "fclose" => Over \/ AtEnd
    /\ Over => pc[h] = "fclose" \/ (pc[h] = "command" /\ cmd = "q")

\* When a reset is done, no message is left of those that were in the buffers
\* to be reset when it began.
ResetComplete ==
  \A h \in Handlers : pc[h] = "menu" /\ cmd \in Resets =>
    \A b \in Slots : contents[b] \cap doomed = {}

\* Messages disappear only from buffers the client asked to reset, and when
\* a reset is done, every message that was in such a buffer when it began is
\* gone, although the application goes on logging and creating buffers.
ClearedAsAsked ==
  /\ \A b \in Slots : contents[b] # logged[b] => b \in AskedToReset
  /\ ResetComplete

\* The session has its two descriptors until it ends, and on every way out
\* of the handler both are closed again.
DescriptorsReturned ==
  \A h \in Handlers :
    /\ pc[h] \in InSession => {"conn_sock", "fd"} \subseteq open[h]
    /\ pc[h] = "done" => open[h] \subseteq {"server_sock"}

\* A server is never at work in a buffer that is freed, if the application
\* waits for it before it starts another one or cleans up: a wait that has
\* returned leaves nothing of the server behind.
ServerTouchesLive ==
  ~abandoned => \A h \in Handlers : pc[h] = "touch" => inited /\ idx \in created

\* A handler that took a connection comes to its end, whatever the client
\* sends and whichever call fails, and the application that waits for it
\* goes on (or the program is ended by a client that hung up).
WaitReturns ==
  (app = "waiting" /\ pc[handle] \in InSession \cup {"welcome", "dup", "fdopen", "close"})
    ~> app # "waiting"

=============================================================================
