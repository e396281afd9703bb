----------------------------- MODULE IridiumLink -----------------------------
(***************************************************************************)
(* The command channel of iridium.c: any number of tasks call iridium_send *)
(* concurrently, iridium_send_raw writes a command on the UART or parks it *)
(* in buffer_queue, buffer_satcom_task retries the parked ones, the modem  *)
(* answers, and uart_satcom_task publishes the answer in buffer_data and   *)
(* reopens the channel.  The tasks run on two cores at the priorities the  *)
(* scheduler gives them, so every access to a field of iridium_t that is   *)
(* not under one lock with the next is a step of its own.                  *)
(*                                                                         *)
(* A reply of the modem is one unit here (echo, data lines, final line);   *)
(* UartReceiver models how it is cut in lines and events.                  *)
(***************************************************************************)
EXTENDS Naturals, Sequences

CONSTANTS
  Tasks,       \* the tasks that call iridium_send (app_main, ring_satcom_task, ...),
               \* UartTask among them if a callback does
  Commands,    \* the AT commands each of them sends
  WaitFlags,   \* the values of wait_response they pass
  BufferSize,  \* satcom->buffer_size, the capacity of buffer_queue
  MaxCalls,    \* bound: how many times each task calls iridium_send
  SlowModem,   \* TRUE: a reply takes longer than the writer's next two stores
  Faults       \* outcomes of a command besides OK: "ERROR", "SILENT"

BufferTask == "buffer_satcom_task"
UartTask == "uart_satcom_task"
Procs == Tasks \cup {BufferTask}

iridium_command_t ==
  {"SBDRING", "AT", "AT_CSQ", "AT_SBDSX", "AT_CGMI", "AT_CGMM", "AT_SBDRT",
   "AT_SBDWT", "AT_SBDIX", "AT_MSSTM", "AT_SBDMTA", "AT_W0", "AT_CRIS",
   "AT_SBDIXA", "AT_K0", "AT_SBDMTAQ"}

\* The switch cases of iridium_send that return before the wait loop.
ReturnsAfterRaw == {"AT_SBDWT", "AT_SBDMTA"}
\* The commands that fall in the default case: nothing is sent.
HasNoCase == {"SBDRING"}

\* The commands on whose reply iridium_satcom_process_result calls the callback.
HasCallback == {"AT_CGMI", "AT_CGMM", "AT_CSQ", "AT_SBDSX", "AT_SBDIX", "AT_SBDIXA"}

iridium_queue_status_t == {"IQS_NONE", "IQS_OPEN", "IQS_WAITING"}

ASSUME LinkAssumption ==
  /\ BufferTask \notin Tasks
  /\ Commands \in [Tasks -> SUBSET iridium_command_t]
  /\ WaitFlags \subseteq BOOLEAN
  /\ BufferSize \in Nat \ {0}
  /\ MaxCalls \in [Tasks -> Nat]
  /\ SlowModem \in BOOLEAN
  /\ Faults \subseteq {"ERROR", "SILENT"}

(***************************************************************************)
(* A request is identified by its task and the number of the call, which   *)
(* the code does not have: nonce is what the code uses instead.            *)
(***************************************************************************)
Message == [task : Procs, call : Nat, command : iridium_command_t, nonce : Nat]
Unset(p) == [task |-> p, call |-> 0, command |-> "AT", nonce |-> 0]
\* Bytes that are the reply to no command: fresh malloc memory, a local
\* result.result that was never filled in, or a strcpy caught half way.
Garbage == Unset(BufferTask)

VARIABLES
  c_nonce, p_nonce, status,       \* fields of iridium_t
  buffer_data,                    \* the message whose reply buffer_data holds
  buffer_queue,                   \* FIFO of parked messages
  pc, msg,                        \* per process: next step, message in hand
  waits, t_status, result,        \* per task: locals of iridium_send
  written,                        \* every message put on the UART, in order
  answered,                       \* how many of them the modem is done with
  rx, uart_pc,                    \* replies to handle, uart_satcom_task's step
  dropped                         \* messages a full buffer_queue refused

satcom == <<c_nonce, p_nonce, status, buffer_data>>
locals == <<pc, msg, waits, t_status, result>>
modem == <<written, answered>>
uart == <<rx, uart_pc>>
vars == <<c_nonce, p_nonce, status, buffer_data, buffer_queue, pc, msg, waits,
          t_status, result, written, answered, rx, uart_pc, dropped>>

\* iridium_config has run up to the creation of the tasks.
Init ==
  /\ c_nonce = 0 /\ p_nonce = 0 /\ status = "IQS_OPEN"
  /\ buffer_data = Garbage
  /\ buffer_queue = <<>>
  /\ pc = [p \in Procs |-> "idle"]
  /\ msg = [p \in Procs |-> Unset(p)]
  /\ waits = [t \in Tasks |-> FALSE]
  /\ t_status = [t \in Tasks |-> "IQS_NONE"]
  /\ result = [t \in Tasks |-> Garbage]
  /\ written = <<>> /\ answered = 0
  /\ rx = <<>> /\ uart_pc = "receive"
  /\ dropped = {}

Goto(p, from, to) == pc[p] = from /\ pc' = [pc EXCEPT ![p] = to]

-----------------------------------------------------------------------------
(***************************************************************************)
(* iridium_send, called by a task, or by the callback of the application,  *)
(* which uart_satcom_task runs while it handles a reply, before it reopens *)
(* the channel.  c_nonce++ and the copy to t_nonce are a load (here with   *)
(* the entry to the function), a store, and a second load that the         *)
(* compiler may replace by the value just stored.                          *)
(***************************************************************************)
InCallback == uart_pc = "open" /\ Head(rx).msg.command \in HasCallback

Call(t, c, w) ==
  /\ Goto(t, "idle", "store")
  /\ t = UartTask => InCallback
  /\ msg[t].call < MaxCalls[t]
  /\ msg' = [msg EXCEPT ![t] = [task |-> t, call |-> msg[t].call + 1,
                                 command |-> c, nonce |-> c_nonce]]
  /\ waits' = [waits EXCEPT ![t] = w]
  /\ t_status' = [t_status EXCEPT ![t] = "IQS_NONE"]
  /\ result' = [result EXCEPT ![t] = Garbage]
  /\ UNCHANGED <<satcom, buffer_queue, modem, uart, dropped>>

NonceStore(t) ==
  /\ Goto(t, "store", "reread")
  /\ c_nonce' = msg[t].nonce + 1
  /\ msg' = [msg EXCEPT ![t].nonce = @ + 1]
  /\ UNCHANGED <<p_nonce, status, buffer_data, buffer_queue, waits, t_status,
                 result, modem, uart, dropped>>

\* Where the call goes once the switch is done.
AfterSwitch(p) == IF p \in Tasks /\ waits[p] THEN "wait" ELSE "idle"

NonceReread(t) ==
  /\ Goto(t, "reread", IF msg[t].command \in HasNoCase THEN AfterSwitch(t) ELSE "check")
  /\ \E n \in {msg[t].nonce, c_nonce} : msg' = [msg EXCEPT ![t].nonce = n]
  /\ UNCHANGED <<satcom, buffer_queue, waits, t_status, result, modem, uart, dropped>>

-----------------------------------------------------------------------------
(***************************************************************************)
(* iridium_send_raw, run by the tasks and by buffer_satcom_task.  Only the *)
(* stores are locked: the test of status, the write and the two stores are *)
(* four steps.  iridium_send_raw returns SAT_OK on every path.             *)
(***************************************************************************)
AfterRaw(p) == IF msg[p].command \in ReturnsAfterRaw THEN "idle" ELSE AfterSwitch(p)

CheckStatus(p) ==
  /\ Goto(p, "check", IF status = "IQS_WAITING" THEN "enqueue" ELSE "write")
  /\ UNCHANGED <<satcom, buffer_queue, msg, waits, t_status, result, modem, uart, dropped>>

\* Faulty variants: no test of the room, no return after the append.
EnqueueUnbounded(p) ==
  /\ Goto(p, "enqueue", AfterRaw(p))
  /\ buffer_queue' = Append(buffer_queue, msg[p])
  /\ UNCHANGED <<satcom, msg, waits, t_status, result, modem, uart, dropped>>
EnqueueFallsThrough(p) ==
  /\ Goto(p, "enqueue", "write")
  /\ Len(buffer_queue) < BufferSize
  /\ buffer_queue' = Append(buffer_queue, msg[p])
  /\ UNCHANGED <<satcom, msg, waits, t_status, result, modem, uart, dropped>>

Enqueue(p) ==
  /\ Goto(p, "enqueue", AfterRaw(p))
  /\ Len(buffer_queue) < BufferSize
  /\ buffer_queue' = Append(buffer_queue, msg[p])
  /\ UNCHANGED <<satcom, msg, waits, t_status, result, modem, uart, dropped>>

\* No room for 10 ticks: xQueueSend fails and its result is not looked at.
EnqueueTimeout(p) ==
  /\ Goto(p, "enqueue", AfterRaw(p))
  /\ Len(buffer_queue) = BufferSize
  /\ dropped' = dropped \cup {msg[p]}
  /\ UNCHANGED <<satcom, buffer_queue, msg, waits, t_status, result, modem, uart>>

WriteBytes(p) ==
  /\ Goto(p, "write", "set_waiting")
  /\ written' = Append(written, msg[p])
  /\ UNCHANGED <<satcom, buffer_queue, msg, waits, t_status, result, answered, uart, dropped>>

\* Faulty variant: the status is not set.
UpdateIqsWaitingForgotten(p) ==
  /\ Goto(p, "set_waiting", "set_nonce")
  /\ UNCHANGED <<satcom, buffer_queue, msg, waits, t_status, result, modem, uart, dropped>>

UpdateIqsWaiting(p) ==
  /\ Goto(p, "set_waiting", "set_nonce")
  /\ status' = "IQS_WAITING"
  /\ UNCHANGED <<c_nonce, p_nonce, buffer_data, buffer_queue, msg, waits,
                 t_status, result, modem, uart, dropped>>

UpdatePNonce(p) ==
  /\ Goto(p, "set_nonce", AfterRaw(p))
  /\ p_nonce' = msg[p].nonce
  /\ UNCHANGED <<c_nonce, status, buffer_data, buffer_queue, msg, waits,
                 t_status, result, modem, uart, dropped>>

SendRaw(p) ==
  \/ CheckStatus(p) \/ Enqueue(p) \/ EnqueueTimeout(p)
  \/ WriteBytes(p) \/ UpdateIqsWaiting(p) \/ UpdatePNonce(p)

-----------------------------------------------------------------------------
(***************************************************************************)
(* The wait loop of iridium_send, and the copy of the shared answer.       *)
(***************************************************************************)
\* Faulty variant: the loop looks at the nonce alone.
WaitTestNonceOnly(t) ==
  /\ Goto(t, "wait", IF p_nonce = msg[t].nonce THEN "poll" ELSE "copy")
  /\ UNCHANGED <<satcom, buffer_queue, msg, waits, t_status, result, modem, uart, dropped>>

WaitTest(t) ==
  /\ Goto(t, "wait", IF t_status[t] # "IQS_OPEN" /\ p_nonce = msg[t].nonce
                     THEN "poll" ELSE "copy")
  /\ UNCHANGED <<satcom, buffer_queue, msg, waits, t_status, result, modem, uart, dropped>>

WaitPoll(t) ==
  /\ Goto(t, "poll", "wait")
  /\ t_status' = [t_status EXCEPT ![t] = status]
  /\ UNCHANGED <<satcom, buffer_queue, msg, waits, result, modem, uart, dropped>>

CopyResult(t) ==
  /\ Goto(t, "copy", "idle")
  /\ result' = [result EXCEPT ![t] = buffer_data]
  /\ UNCHANGED <<satcom, buffer_queue, msg, waits, t_status, modem, uart, dropped>>

IridiumSend(t) ==
  \/ NonceStore(t) \/ NonceReread(t)
  \/ WaitTest(t) \/ WaitPoll(t) \/ CopyResult(t)

-----------------------------------------------------------------------------
(***************************************************************************)
(* buffer_satcom_task: once per buffer_delay_ms, if the channel is open,   *)
(* take the oldest parked message and run iridium_send_raw, which tests    *)
(* the status again and may park the message anew, at the end.             *)
(***************************************************************************)
\* Faulty variant: the test is inverted.
BufferPollInverted ==
  /\ status # "IQS_OPEN"
  /\ Goto(BufferTask, "idle", "receive")
  /\ UNCHANGED <<satcom, buffer_queue, msg, waits, t_status, result, modem, uart, dropped>>

BufferPoll ==
  /\ status = "IQS_OPEN"
  /\ Goto(BufferTask, "idle", "receive")
  /\ UNCHANGED <<satcom, buffer_queue, msg, waits, t_status, result, modem, uart, dropped>>

\* Faulty variant: the message is taken and not sent.
BufferDiscard ==
  /\ buffer_queue # <<>>
  /\ Goto(BufferTask, "receive", "idle")
  /\ buffer_queue' = Tail(buffer_queue)
  /\ UNCHANGED <<satcom, msg, waits, t_status, result, modem, uart, dropped>>

BufferReceive ==
  /\ IF buffer_queue = <<>>
       THEN /\ Goto(BufferTask, "receive", "idle")
            /\ UNCHANGED <<buffer_queue, msg>>
       ELSE /\ Goto(BufferTask, "receive", "check")
            /\ msg' = [msg EXCEPT ![BufferTask] = Head(buffer_queue)]
            /\ buffer_queue' = Tail(buffer_queue)
  /\ UNCHANGED <<satcom, waits, t_status, result, modem, uart, dropped>>

buffer_satcom_task == BufferPoll \/ BufferReceive \/ SendRaw(BufferTask)

-----------------------------------------------------------------------------
(***************************************************************************)
(* The modem answers the commands in the order of their bytes.  It is the  *)
(* environment: with SlowModem its answer comes after the writer's two     *)
(* stores (a reply takes milliseconds at 19200 baud); without it, a writer *)
(* preempted in between can be overtaken.  "SILENT" stands for a final     *)
(* line that never reaches the task: modem off, or input flushed.          *)
(***************************************************************************)
Storing(p) == pc[p] \in {"set_waiting", "set_nonce"}

ModemReply ==
  /\ answered < Len(written)
  /\ SlowModem => \A p \in Procs : Storing(p) => msg[p] # written[answered + 1]
  /\ answered' = answered + 1
  /\ \E o \in {"OK"} \cup Faults :
       rx' = IF o = "SILENT" THEN rx
             ELSE Append(rx, [msg |-> written[answered + 1], final |-> o])
  /\ UNCHANGED <<satcom, buffer_queue, locals, written, uart_pc, dropped>>

(***************************************************************************)
(* uart_satcom_task.  On ERROR the token loop continues without advancing: *)
(* the task is in "spin" for ever.  On OK it copies the data lines to      *)
(* buffer_data (readers do not lock, so a copy in progress is Garbage to   *)
(* them), processes the result and reopens the channel.                    *)
(***************************************************************************)
\* Faulty variant: the channel opens before the reply is copied.
UartReceiveOpensFirst ==
  /\ uart_pc = "receive" /\ rx # <<>>
  /\ uart_pc' = "copy"
  /\ status' = "IQS_OPEN"
  /\ buffer_data' = Garbage
  /\ UNCHANGED <<c_nonce, p_nonce, buffer_queue, locals, modem, rx, dropped>>

UartReceive ==
  /\ uart_pc = "receive" /\ rx # <<>>
  /\ \/ /\ Head(rx).final = "ERROR"
        /\ uart_pc' = "spin"
        /\ UNCHANGED buffer_data
     \/ /\ Head(rx).final = "OK"
        /\ uart_pc' = "copy"
        /\ buffer_data' = Garbage
  /\ UNCHANGED <<c_nonce, p_nonce, status, buffer_queue, locals, modem, rx, dropped>>

UartCopied ==
  /\ uart_pc = "copy"
  /\ uart_pc' = "open"
  /\ buffer_data' = Head(rx).msg
  /\ UNCHANGED <<c_nonce, p_nonce, status, buffer_queue, locals, modem, rx, dropped>>

\* Faulty variant: the channel is not reopened.
UpdateIqsOpenForgotten ==
  /\ uart_pc = "open"
  /\ uart_pc' = "receive"
  /\ rx' = Tail(rx)
  /\ UNCHANGED <<satcom, buffer_queue, locals, modem, dropped>>

\* The callback has returned.
UpdateIqsOpen ==
  /\ uart_pc = "open"
  /\ UartTask \in Tasks => pc[UartTask] = "idle"
  /\ uart_pc' = "receive"
  /\ status' = "IQS_OPEN"
  /\ rx' = Tail(rx)
  /\ UNCHANGED <<c_nonce, p_nonce, buffer_data, buffer_queue, locals, modem, dropped>>

uart_satcom_task == UartReceive \/ UartCopied \/ UpdateIqsOpen

-----------------------------------------------------------------------------
TaskStep(t) == IridiumSend(t) \/ SendRaw(t)
Calls(t) == \E c \in Commands[t], w \in WaitFlags : Call(t, c, w)

Next ==
  \/ \E t \in Tasks : Calls(t) \/ TaskStep(t)
  \/ buffer_satcom_task
  \/ ModemReply
  \/ uart_satcom_task

Spec == Init /\ [][Next]_vars

\* The scheduler runs every ready task; the modem answers what it is sent.
\* That a task calls iridium_send again is up to the application.
Fairness ==
  /\ \A t \in Tasks : WF_vars(TaskStep(t))
  /\ WF_vars(buffer_satcom_task)
  /\ WF_vars(ModemReply)
  /\ WF_vars(uart_satcom_task)

FairSpec == Spec /\ Fairness

-----------------------------------------------------------------------------
Steps == {"idle", "store", "reread", "check", "enqueue", "write",
          "set_waiting", "set_nonce", "wait", "poll", "copy", "receive"}

\* Every variable has its type, buffer_queue stays within its capacity, and
\* uart_satcom_task is busy only while it holds a reply.
TypeOK ==
  /\ c_nonce \in Nat /\ p_nonce \in Nat
  /\ status \in {"IQS_OPEN", "IQS_WAITING"}
  /\ buffer_data \in Message
  /\ buffer_queue \in Seq(Message) /\ Len(buffer_queue) <= BufferSize
  /\ pc \in [Procs -> Steps]
  /\ msg \in [Procs -> Message]
  /\ waits \in [Tasks -> BOOLEAN]
  /\ t_status \in [Tasks -> iridium_queue_status_t]
  /\ result \in [Tasks -> Message]
  /\ written \in Seq(Message) /\ answered \in 0 .. Len(written)
  /\ rx \in Seq([msg : Message, final : {"OK", "ERROR"}])
  /\ uart_pc \in {"receive", "copy", "open", "spin"}
  /\ uart_pc # "receive" => rx # <<>>
  /\ dropped \subseteq Message

(***************************************************************************)
(* No lost wake-up: while the channel says IQS_WAITING, a reply that will  *)
(* reopen it is still to come.  Were it false, every later command would   *)
(* be parked for ever (iridium_send_raw against uart_satcom_task).         *)
(***************************************************************************)
Outstanding == answered < Len(written) \/ rx # <<>>
NoStuckWaiting == status = "IQS_WAITING" => Outstanding

(***************************************************************************)
(* The life of a request.  A process carries it up to the write, the       *)
(* append to buffer_queue or the timeout of that append.                   *)
(***************************************************************************)
Same(m, n) == m.task = n.task /\ m.call = n.call
Carries(p) == pc[p] \in {"store", "reread", "check", "enqueue", "write"}

\* Iridium charges per session: whatever tasks and buffer_satcom_task do to
\* each other, no request is on the UART twice, nor still to be written (in
\* the hand of a process or in buffer_queue) once it is written or dropped.
AtMostOnce ==
  /\ \A i, j \in 1 .. Len(written) : Same(written[i], written[j]) => i = j
  /\ \A i, j \in 1 .. Len(buffer_queue) : Same(buffer_queue[i], buffer_queue[j]) => i = j
  /\ \A p, q \in Procs : Carries(p) /\ Carries(q) /\ Same(msg[p], msg[q]) => p = q
  /\ \A i \in 1 .. Len(written) :
       /\ \A j \in 1 .. Len(buffer_queue) : ~Same(written[i], buffer_queue[j])
       /\ \A p \in Procs : Carries(p) => ~Same(written[i], msg[p])
       /\ \A m \in dropped : ~Same(written[i], m)
  /\ \A j \in 1 .. Len(buffer_queue) :
       /\ \A p \in Procs : Carries(p) => ~Same(buffer_queue[j], msg[p])
       /\ \A m \in dropped : ~Same(buffer_queue[j], m)
  /\ \A p \in Procs, m \in dropped : Carries(p) => ~Same(msg[p], m)

Carried(t, k) == \E p \in Procs : Carries(p) /\ msg[p].task = t /\ msg[p].call = k
Parked(t, k) == \E i \in 1 .. Len(buffer_queue) :
                  buffer_queue[i].task = t /\ buffer_queue[i].call = k
Written(t, k) == \E i \in 1 .. Len(written) : written[i].task = t /\ written[i].call = k
Dropped(t, k) == \E m \in dropped : m.task = t /\ m.call = k

\* A request is never forgotten: it is being carried, parked, written, or it
\* was refused by a full buffer_queue (SBDRING excepted: nothing to send).
NothingForgotten ==
  \A t \in Tasks : Commands[t] \cap HasNoCase = {} =>
    \A k \in 1 .. msg[t].call :
      Carried(t, k) \/ Parked(t, k) \/ Written(t, k) \/ Dropped(t, k)

\* Whatever tasks and buffer_satcom_task do to each other, a request is open
\* from its call until it is written or refused, once and for good.
Request(m) == <<m.task, m.call>>
Open == {Request(msg[p]) : p \in {q \in Procs : Carries(q)}}
        \cup {Request(buffer_queue[i]) : i \in DOMAIN buffer_queue}
Ledger == INSTANCE RequestLedger
            WITH Careless <- {t \in Tasks : Commands[t] \cap HasNoCase # {}},
                 issued <- [t \in Tasks |-> msg[t].call],
                 open <- Open,
                 sent <- [i \in DOMAIN written |-> Request(written[i])],
                 refused <- {Request(m) : m \in dropped}
ImplementsLedger == Ledger!Spec

\* A parked request is written or dropped in the end, however often
\* buffer_satcom_task loses the channel to a caller and parks it again.
ParkedIsSettled ==
  \A t \in Tasks : \A k \in 1 .. MaxCalls[t] :
    Parked(t, k) ~> Written(t, k) \/ Dropped(t, k)

\* Every iridium_send returns: a waiting caller sees IQS_OPEN or sees p_nonce
\* move on, even if it polls while other commands hold the channel.
EveryCallReturns == \A t \in Tasks : pc[t] # "idle" ~> pc[t] = "idle"

-----------------------------------------------------------------------------
Returned(t) == pc[t] = "idle" /\ msg[t].call > 0

\* A call with wait_response returns the reply to its own command.
ResultIsOwn == \A t \in Tasks : Returned(t) /\ waits[t] => result[t] = msg[t]

\* At most one command is with the modem or waits for its reply to be read.
OneAtATime == (Len(written) - answered) + Len(rx) <= 1
=============================================================================
