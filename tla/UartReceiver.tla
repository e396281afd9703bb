---------------------------- MODULE UartReceiver ----------------------------
(***************************************************************************)
(* uart_satcom_task of iridium.c: the lines of the modem arrive in UART    *)
(* events cut wherever the driver cuts them, are pushed on a stack, and    *)
(* are popped and processed when OK comes.  With it the two consumers the  *)
(* task feeds: ring_satcom_task (only that it starts and ends) and         *)
(* message_satcom_task.                                                    *)
(*                                                                         *)
(* A text is a sequence of words; "\r\n", "+", ":" and "," are words of    *)
(* their own because the code splits at them.                              *)
(***************************************************************************)
EXTENDS Naturals, Sequences, Tokens

CONSTANTS
  Commands,         \* what iridium_send_raw writes, as the modem echoes it
  AT,               \* the words that begin with AT
  Values, Messages, \* numbers or names, and texts of SBDRT, in replies
  MessageQueueSize, \* capacity of message_queue
  MaxCommands,      \* bound: commands sent
  MaxRings,         \* bound: SBDRINGs of the modem
  WholeLines,       \* TRUE: an event ends where a line ends
  RingApart,        \* TRUE: an event with SBDRING holds nothing else
  Writers,          \* tasks that send and may be in iridium_send_raw at once;
                    \* {}: whoever sends is through with it before the next step
  Faults            \* subset of {"ERROR", "FIFO_OVF", "CREATE"}

EOL == "\r\n"
SBDRING == <<"SBDRING">>
OK == <<"O", "K">>
ERROR == <<"ERROR">>
Junk == <<"junk">>      \* what an uninitialized command[20] holds

ASSUME ReceiverAssumption ==
  /\ Commands \subseteq AT
  /\ AT \cap {"junk", "+", ":", ","} = {}
  /\ (AT \cup Values) \cap {EOL, "SBDRING", "O", "ERROR"} = {}
  /\ Messages \subseteq Seq(Values \cup {"+"})
  /\ MessageQueueSize \in Nat \ {0}
  /\ MaxCommands \in Nat /\ MaxRings \in Nat
  /\ {WholeLines, RingApart} \subseteq BOOLEAN
  /\ Faults \subseteq {"ERROR", "FIFO_OVF", "CREATE"}

VARIABLES
  wire,                         \* words the modem sent, not yet read
  chunk, stack, uart_pc,        \* lines left of the event; s; next step
  command, buffer_data,         \* locals command and data, shared buffer_data
  fields,                       \* what process_result stores in iridium_t
  message_queue, delivered,     \* texts queued, texts given to message_callback
  dropped,                      \* history: a text found no room
  ring_task_running, ring_tasks,\* the flag; tasks that have not cleared it
  rings,                        \* SBDRINGs so far
  status, sent, handled,        \* channel; replies sent and processed, in order
  writers, raced                \* where each writer is; history: two of them have
                                \* been in iridium_send_raw at once

scan == <<chunk, stack, uart_pc>>
inbox == <<message_queue, delivered, dropped>>
ring == <<ring_task_running, ring_tasks>>
callers == <<writers, raced>>
vars == <<wire, chunk, stack, uart_pc, command, buffer_data, fields, message_queue,
          delivered, dropped, ring_task_running, ring_tasks, rings, status, sent, handled,
          writers, raced>>

Init ==
  /\ wire = <<>> /\ chunk = <<>> /\ stack = <<>> /\ uart_pc = "receive"
  /\ command = Junk /\ buffer_data = <<>>
  /\ fields = [f \in {"identification", "signal_strength", "mailbox"} |-> <<>>]
  /\ message_queue = <<>> /\ delivered = <<>> /\ dropped = FALSE
  /\ ring_task_running = 0 /\ ring_tasks = 0 /\ rings = 0
  /\ status = "IQS_OPEN" /\ sent = <<>> /\ handled = <<>>
  /\ writers = [w \in Writers |-> "idle"] /\ raced = FALSE

-----------------------------------------------------------------------------
(***************************************************************************)
(* The modem (external): what it answers to a command, as the tests of     *)
(* iridium_satcom_process_result take it apart.                            *)
(***************************************************************************)
Mailbox == {"AT+SBDSX", "AT+SBDIX", "AT+SBDIXA"}
Payloads(c) == IF c = "AT+SBDRT" THEN Messages ELSE {<<v>> : v \in Values}

Header(c) ==
  CASE c = "AT+CSQ" -> <<"+", "CSQ", ":">>
    [] c \in Mailbox -> <<"+", "SBD", ":">>
    [] c = "AT+CRIS" -> <<"+", "CRIS", ":">>
    [] c = "AT+SBDRT" -> <<"+", "SBDRT", ":">>
    [] OTHER -> <<>>
Body(c, p) ==
  CASE c \in {"AT+CGMI", "AT+CSQ", "AT+SBDRT"} -> p
    [] c \in Mailbox -> p \o <<",">> \o p \o <<",">> \o p \o <<",">> \o p \o <<",">> \o p
                       \o <<",">> \o p
    [] c = "AT+CRIS" -> p \o <<",">> \o p
    [] OTHER -> <<>>

\* The text of AT+SBDRT is on a line of its own; the lines are popped from the
\* stack the last one first.
Line(s) == IF s = <<>> THEN <<>> ELSE Append(s, EOL)
DataLines(c, p) == IF c = "AT+SBDRT" THEN Line(Header(c)) \o Line(Body(c, p))
                   ELSE Line(Header(c) \o Body(c, p))
Data(c, p) == IF c = "AT+SBDRT" THEN Body(c, p) \o Header(c) ELSE Header(c) \o Body(c, p)

Reply(c, p) == [command |-> <<c>>, payload |-> p, data |-> Data(c, p)]

\* The modem gets command c, which it answers with p.
Transmit(c, p) ==
  /\ Len(sent) < MaxCommands
  /\ sent' = Append(sent, Reply(c, p))
  /\ \/ wire' = wire \o Line(<<c>>) \o DataLines(c, p) \o Line(OK)
     \/ "ERROR" \in Faults /\ wire' = wire \o Line(<<c>>) \o Line(ERROR)

\* A task writes a command while the channel is open, and closes it, with
\* nobody else in iridium_send_raw and before the reply is read.
SendCommand(c, p) ==
  /\ Writers = {}
  /\ status = "IQS_OPEN" /\ Transmit(c, p)
  /\ status' = "IQS_WAITING"
  /\ UNCHANGED <<callers, scan, command, buffer_data, fields, inbox, ring, rings,
                 handled>>

\* iridium_send_raw of tasks that nothing keeps apart: the test, the bytes, the
\* store.
Goto(w, place) == writers' = [writers EXCEPT ![w] = place]

CheckStatus(w) ==
  /\ writers[w] = "idle" /\ status = "IQS_OPEN"
  /\ Goto(w, "write")
  /\ raced' = (raced \/ \E v \in Writers : writers[v] # "idle")
  /\ UNCHANGED <<wire, scan, command, buffer_data, fields, inbox, ring, rings, status,
                 sent, handled>>

WriteBytes(w, c, p) ==
  /\ writers[w] = "write" /\ Transmit(c, p)
  /\ Goto(w, "set_waiting")
  /\ UNCHANGED <<raced, scan, command, buffer_data, fields, inbox, ring, rings, status,
                 handled>>

UpdateIqsWaiting(w) ==
  /\ writers[w] = "set_waiting"
  /\ status' = "IQS_WAITING"
  /\ Goto(w, "idle")
  /\ UNCHANGED <<raced, wire, scan, command, buffer_data, fields, inbox, ring, rings,
                 sent, handled>>

\* SBDRING comes between any two lines.
LineStarts == {i \in DOMAIN wire : wire[i] = EOL}
              \cup (IF WholeLines \/ wire = <<>> THEN {0} ELSE {})

ModemRing ==
  /\ rings < MaxRings
  /\ rings' = rings + 1
  /\ \E i \in LineStarts : wire' = SubSeq(wire, 1, i) \o Line(SBDRING)
                                   \o SubSeq(wire, i + 1, Len(wire))
  /\ UNCHANGED <<callers, scan, command, buffer_data, fields, inbox, ring, status, sent,
                 handled>>

-----------------------------------------------------------------------------
\* Faulty variant: each event starts with an empty stack.
UartDataClears ==
  /\ uart_pc = "receive"
  /\ \E n \in DOMAIN wire :
       LET text == SubSeq(wire, 1, n) IN
       /\ wire[n] = EOL
       /\ RingApart /\ Contains(text, "SBDRING") => text = Line(SBDRING)
       /\ chunk' = Fields(text, EOL)
       /\ wire' = SubSeq(wire, n + 1, Len(wire))
  /\ stack' = <<>> /\ uart_pc' = "scan"
  /\ UNCHANGED <<callers, command, buffer_data, fields, inbox, ring, rings, status,
                 sent, handled>>

\* UART_DATA: the event's bytes, cut in lines by strtok.
UartData ==
  /\ uart_pc = "receive"
  /\ \E n \in DOMAIN wire :
       LET text == SubSeq(wire, 1, n) IN
       /\ WholeLines => wire[n] = EOL
       /\ RingApart /\ Contains(text, "SBDRING") => text = Line(SBDRING)
       /\ chunk' = Fields(text, EOL)
       /\ wire' = SubSeq(wire, n + 1, Len(wire))
  /\ uart_pc' = "scan"
  /\ UNCHANGED <<callers, stack, command, buffer_data, fields, inbox, ring, rings,
                 status, sent, handled>>

\* Faulty variant: the flush reopens the channel.
UartOverflowReopens ==
  /\ "FIFO_OVF" \in Faults
  /\ uart_pc = "receive"
  /\ \E n \in DOMAIN wire : wire' = SubSeq(wire, n + 1, Len(wire))
  /\ status' = "IQS_OPEN"
  /\ UNCHANGED <<callers, scan, command, buffer_data, fields, inbox, ring, rings, sent,
                 handled>>

\* UART_FIFO_OVF, UART_BUFFER_FULL: flush what has come in, reset the queue.
UartOverflow ==
  /\ "FIFO_OVF" \in Faults
  /\ uart_pc = "receive"
  /\ \E n \in DOMAIN wire : wire' = SubSeq(wire, n + 1, Len(wire))
  /\ UNCHANGED <<callers, scan, command, buffer_data, fields, inbox, ring, rings,
                 status, sent, handled>>

Scanning(line) == uart_pc = "scan" /\ chunk # <<>> /\ Head(chunk) = line

EndOfChunk ==
  /\ uart_pc = "scan" /\ chunk = <<>>
  /\ uart_pc' = "receive"
  /\ UNCHANGED <<callers, wire, chunk, stack, command, buffer_data, fields, inbox, ring,
                 rings, status, sent, handled>>

PushLine ==
  /\ \E line \in {chunk[i] : i \in DOMAIN chunk} \ {SBDRING, ERROR, OK} :
       Scanning(line) /\ stack' = <<line>> \o stack
  /\ chunk' = Tail(chunk)
  /\ UNCHANGED <<callers, wire, uart_pc, command, buffer_data, fields, inbox, ring,
                 rings, status, sent, handled>>

\* Faulty variant: a task is started whatever the flag says.
StartRingTaskAlways ==
  /\ Scanning(SBDRING)
  /\ chunk' = <<>> /\ uart_pc' = "receive"
  /\ ring_task_running' = 1 /\ ring_tasks' = ring_tasks + 1
  /\ UNCHANGED <<callers, wire, stack, command, buffer_data, fields, inbox, rings,
                 status, sent, handled>>

\* The break ends the token loop: the rest of the event is not looked at.
\* The flag is set before xTaskCreate, whose result is not looked at either.
StartRingTask ==
  /\ Scanning(SBDRING)
  /\ chunk' = <<>> /\ uart_pc' = "receive"
  /\ IF ring_task_running = 0
       THEN /\ ring_task_running' = 1
            /\ \/ ring_tasks' = ring_tasks + 1
               \/ "CREATE" \in Faults /\ UNCHANGED ring_tasks
       ELSE UNCHANGED ring
  /\ UNCHANGED <<callers, wire, stack, command, buffer_data, fields, inbox, rings,
                 status, sent, handled>>

\* The continue skips the strtok that would advance: the loop never ends.
SpinOnError ==
  /\ Scanning(ERROR)
  /\ uart_pc' = "spin"
  /\ UNCHANGED <<callers, wire, chunk, stack, command, buffer_data, fields, inbox, ring,
                 rings, status, sent, handled>>

\* OK: pop everything.  The AT line popped last is the command; without one,
\* command[20] is what this stack slot held before.  The other lines are the
\* data, the last one first.
IsCommand(line) == Head(line) \in AT

PopAll ==
  /\ Scanning(OK)
  /\ LET echoes == {line \in Range(stack) : IsCommand(line)}
         commands == Those(stack, echoes)
     IN  /\ command' \in IF commands = <<>> THEN {command, Junk} ELSE {Last(commands)}
         /\ buffer_data' = FlattenSeq(Those(stack, Range(stack) \ echoes))
  /\ stack' = <<>>
  /\ uart_pc' = "process"
  /\ UNCHANGED <<callers, wire, chunk, fields, inbox, ring, rings, status, sent,
                 handled>>

-----------------------------------------------------------------------------
(***************************************************************************)
(* iridium_satcom_process_result.  str_split aborts on a text that is not  *)
(* Regular; a field that is not there is a null pointer, which atoi and    *)
(* strcpy fault on.  str_split runs strtok, so that after it the strtok of *)
(* the token loop has nothing left: chunk is lost.                         *)
(***************************************************************************)
Done(rest) ==
  /\ uart_pc' = "open"
  /\ chunk' = rest
  /\ handled' = Append(handled, [command |-> command, data |-> buffer_data])

Splits(s, d, n) == Regular(s, d) /\ Len(Fields(s, d)) >= n
\* Faulty variant: *(tokens) for *(tokens + 1).
AfterFirst(s, d) == Fields(s, d)[1]

After(s, d) == Fields(s, d)[2]

ProcessPlain ==
  /\ uart_pc = "process"
  /\ Head(command) \notin Mailbox \cup {"AT+CSQ", "AT+CRIS", "AT+SBDRT"}
  /\ fields' = IF Head(command) = "AT+CGMI"
                 THEN [fields EXCEPT !["identification"] = buffer_data] ELSE fields
  /\ Done(Tail(chunk))
  /\ UNCHANGED <<callers, wire, stack, command, buffer_data, inbox, ring, rings, status,
                 sent>>

\* The text behind the colon and the numbers in it, as sets that are empty
\* when a split fails.
Behind(s) == IF Splits(s, ":", 2) THEN {After(s, ":")} ELSE {}
Numbers(s) == {Fields(t, ",") : t \in {u \in Behind(s) : Regular(u, ",")}}
Mailboxes(s) == {numbers \in Numbers(s) : Len(numbers) >= 6}

ProcessSplit ==
  /\ uart_pc = "process"
  /\ \/ /\ command = <<"AT+CSQ">>
        /\ \E t \in Behind(buffer_data) : fields' = [fields EXCEPT !["signal_strength"] = t]
     \/ /\ Head(command) \in Mailbox
        /\ \E m \in Mailboxes(buffer_data) : fields' = [fields EXCEPT !["mailbox"] = m]
     \/ /\ command = <<"AT+CRIS">> /\ Numbers(buffer_data) # {}
        /\ UNCHANGED fields
  /\ Done(<<>>)
  /\ UNCHANGED <<callers, wire, stack, command, buffer_data, inbox, ring, rings, status,
                 sent>>

\* The device aborts on a failed assertion, and faults on a null pointer.
ProcessAbort ==
  /\ uart_pc = "process"
  /\ CASE command = <<"AT+CSQ">> -> Behind(buffer_data) = {}
       [] Head(command) \in Mailbox -> Mailboxes(buffer_data) = {}
       [] command = <<"AT+CRIS">> -> Numbers(buffer_data) = {}
       [] command = <<"AT+SBDRT">> -> ~Splits(buffer_data, "+", 1)
       [] OTHER -> FALSE
  /\ uart_pc' = "abort"
  /\ UNCHANGED <<callers, wire, chunk, stack, command, buffer_data, fields, inbox, ring,
                 rings, status, sent, handled>>

\* Faulty variants: no test of the room, the newest text goes first.
ProcessMessageUnbounded ==
  /\ uart_pc = "process" /\ command = <<"AT+SBDRT">>
  /\ Splits(buffer_data, "+", 1)
  /\ message_queue' = Append(message_queue, Fields(buffer_data, "+")[1])
  /\ Done(<<>>)
  /\ UNCHANGED <<callers, wire, stack, command, buffer_data, fields, delivered, dropped,
                 ring, rings, status, sent>>
ProcessMessageFront ==
  /\ uart_pc = "process" /\ command = <<"AT+SBDRT">>
  /\ Splits(buffer_data, "+", 1)
  /\ message_queue' = <<Fields(buffer_data, "+")[1]>> \o message_queue
  /\ Done(<<>>)
  /\ UNCHANGED <<callers, wire, stack, command, buffer_data, fields, delivered, dropped,
                 ring, rings, status, sent>>

\* AT+SBDRT: the text before the first "+" goes to message_queue; after 10
\* ticks without room it is dropped.
ProcessMessage ==
  /\ uart_pc = "process" /\ command = <<"AT+SBDRT">>
  /\ Splits(buffer_data, "+", 1)
  /\ \/ /\ Len(message_queue) < MessageQueueSize
        /\ message_queue' = Append(message_queue, Fields(buffer_data, "+")[1])
        /\ UNCHANGED dropped
     \/ /\ Len(message_queue) = MessageQueueSize
        /\ dropped' = TRUE /\ UNCHANGED message_queue
  /\ Done(<<>>)
  /\ UNCHANGED <<callers, wire, stack, command, buffer_data, fields, delivered, ring,
                 rings, status, sent>>

\* Faulty variant: the channel is not reopened.
UpdateIqsOpenForgotten ==
  /\ uart_pc = "open"
  /\ uart_pc' = "scan"
  /\ UNCHANGED <<callers, wire, chunk, stack, command, buffer_data, fields, inbox, ring,
                 rings, status, sent, handled>>

UpdateIqsOpen ==
  /\ uart_pc = "open"
  /\ uart_pc' = "scan"
  /\ status' = "IQS_OPEN"
  /\ UNCHANGED <<callers, wire, chunk, stack, command, buffer_data, fields, inbox, ring,
                 rings, sent, handled>>

uart_satcom_task ==
  \/ UartData \/ UartOverflow \/ EndOfChunk
  \/ PushLine \/ StartRingTask \/ SpinOnError \/ PopAll
  \/ ProcessPlain \/ ProcessSplit \/ ProcessMessage \/ ProcessAbort \/ UpdateIqsOpen

-----------------------------------------------------------------------------
message_satcom_task ==
  /\ message_queue # <<>>
  /\ delivered' = Append(delivered, Head(message_queue))
  /\ message_queue' = Tail(message_queue)
  /\ UNCHANGED <<callers, wire, scan, command, buffer_data, fields, dropped, ring,
                 rings, status, sent, handled>>

\* Faulty variant: the flag is not cleared.
RingTaskEndsFlagged ==
  /\ ring_tasks > 0
  /\ ring_tasks' = ring_tasks - 1
  /\ UNCHANGED <<callers, wire, scan, command, buffer_data, fields, inbox,
                 ring_task_running, rings, status, sent, handled>>

\* The end of ring_satcom_task, whose sessions are commands like any other.
RingTaskEnds ==
  /\ ring_tasks > 0
  /\ ring_tasks' = ring_tasks - 1
  /\ ring_task_running' = 0
  /\ UNCHANGED <<callers, wire, scan, command, buffer_data, fields, inbox, rings,
                 status, sent, handled>>

Next ==
  \/ \E c \in Commands : \E p \in Payloads(c) :
       SendCommand(c, p) \/ \E w \in Writers : WriteBytes(w, c, p)
  \/ \E w \in Writers : CheckStatus(w) \/ UpdateIqsWaiting(w)
  \/ ModemRing
  \/ uart_satcom_task
  \/ message_satcom_task
  \/ RingTaskEnds

Spec == Init /\ [][Next]_vars
\* Tasks that are ready run; what the modem sends, and whether anyone sends a
\* command, is not up to the scheduler.
FairSpec == Spec /\ WF_vars(uart_satcom_task) /\ WF_vars(message_satcom_task)

-----------------------------------------------------------------------------
Texts == Seq(AT \cup Values \cup {"+", ":", ",", "CSQ", "SBD", "SBDRT", "CRIS", "O", "K",
                                  "SBDRING", "ERROR", "junk", EOL})

\* Every variable has its type and message_queue stays within its capacity.
TypeOK ==
  /\ wire \in Texts /\ chunk \in Seq(Texts) /\ stack \in Seq(Texts)
  /\ uart_pc \in {"receive", "scan", "process", "open", "spin", "abort"}
  /\ command \in Texts /\ buffer_data \in Texts
  /\ message_queue \in Seq(Texts) /\ Len(message_queue) <= MessageQueueSize
  /\ delivered \in Seq(Texts) /\ dropped \in BOOLEAN
  /\ ring_task_running \in {0, 1} /\ ring_tasks \in Nat /\ rings \in 0 .. MaxRings
  /\ status \in {"IQS_OPEN", "IQS_WAITING"}
  /\ Len(sent) <= MaxCommands
  /\ writers \in [Writers -> {"idle", "write", "set_waiting"}] /\ raced \in BOOLEAN

\* Each reply is processed whole, once, in order and under its own command,
\* wherever the events cut it, and the channel opens again after it.
Channel == INSTANCE ReplyChannel
             WITH sent <- [i \in DOMAIN sent |->
                             [command |-> sent[i].command, data |-> sent[i].data]]
ImplementsChannel == Channel!Spec

\* When uart_satcom_task has read all there is, the channel is open: no reply
\* was lost on the way from the UART to iridium_update_iqs.
NoReplyLost == wire = <<>> /\ uart_pc = "receive" => status = "IQS_OPEN"

\* While a reply is outstanding the channel is closed, but for the writer that
\* is still to close it: whatever the modem or the driver does to the replies,
\* and also when one is handled before the writer's store (222, 544, 224).  Only
\* two writers at once in iridium_send_raw end that, one reply then opens the
\* channel while the other is outstanding.
OpenMeansAnswered ==
  status = "IQS_OPEN" /\ ~raced =>
    Len(handled) = Len(sent) \/ \E w \in Writers : writers[w] = "set_waiting"

\* The fields of iridium_t hold what the last reply about them said.
Stores(f) == CASE f = "identification" -> {"AT+CGMI"}
               [] f = "signal_strength" -> {"AT+CSQ"}
               [] f = "mailbox" -> Mailbox
Held(f, p) == IF f = "mailbox" THEN [i \in 1 .. 6 |-> p] ELSE p
FieldsAreLatest ==
  \A f \in DOMAIN fields : \A i \in DOMAIN handled :
    /\ Head(sent[i].command) \in Stores(f)
    /\ \A j \in i + 1 .. Len(handled) : Head(sent[j].command) \notin Stores(f)
    => fields[f] = Held(f, sent[i].payload)

\* message_callback gets the text of every SBDRT reply, once and in order, until
\* one finds message_queue full.
Texted(r) == r.command = <<"AT+SBDRT">>
MessagesInOrder ==
  LET processed == SubSeq(sent, 1, Len(handled))
      received == Those(processed, {r \in Range(processed) : Texted(r)})
  IN  ~dropped => delivered \o message_queue = [i \in DOMAIN received |-> received[i].payload]

\* At most one ring task works at a time, and one does only while
\* ring_task_running says so.
OneRingTask == ring_tasks <= ring_task_running

\* A text that is not there: str_split finds no field in the reply and fails an
\* assertion, which stops the device.
Empty(r) == Texted(r) /\ r.payload = <<>>

\* Every reply reopens the channel, but for the one that stops the device: no
\* command waits for ever behind another.
EveryReplyReopens == status = "IQS_WAITING" ~> status = "IQS_OPEN" \/ uart_pc = "abort"

\* After a SBDRING a ring task runs, the one it starts or the one it finds,
\* unless the device stops.
RingStartsTask == Contains(wire, "SBDRING") ~> ring_tasks > 0 \/ uart_pc = "abort"

\* No assertion of str_split fails and no field it found is a null pointer, but
\* at the reply to an AT+SBDRT without text (140, 62), and that one always does.
AbortsOnEmptyText ==
  /\ uart_pc = "abort" => Empty(sent[Len(handled) + 1])
  /\ \A i \in 1 .. Len(handled) : ~Empty(sent[i])
=============================================================================
