-------------------------- MODULE IridiumLinkProofs --------------------------
(***************************************************************************)
(* Theorems about IridiumLink for any set of tasks, any commands and any   *)
(* capacity of buffer_queue.                                               *)
(***************************************************************************)
EXTENDS IridiumLink, SequenceTheorems, TLAPS

USE LinkAssumption

Reply == [msg : Message, final : {"OK", "ERROR"}]

\* What a process holds before its first request has the type of a message.
LEMMA UnsetIsMessage == \A p \in Procs : Unset(p) \in Message
  BY DEF Unset, Message, iridium_command_t

\* So has the value that stands for uninitialised bytes.
LEMMA GarbageIsMessage == Garbage \in Message
  BY UnsetIsMessage DEF Garbage, Procs

\* A message with another nonce is a message (NonceStore, NonceReread).
LEMMA RenumberedMessage ==
  ASSUME NEW m \in Message, NEW n \in Nat
  PROVE  [m EXCEPT !.nonce = n] \in Message
  BY DEF Message

\* A reply appended to replies leaves a non-empty sequence of them.
LEMMA AppendReply ==
  ASSUME NEW s \in Seq(Reply), NEW r \in Reply
  PROVE  Append(s, r) \in Seq(Reply) /\ Append(s, r) # <<>>
  BY AppendProperties

\* iridium_send and buffer_satcom_task leave the switch to wait or to return.
LEMMA AfterSwitchType == \A p \in Procs : AfterSwitch(p) \in {"wait", "idle"}
  BY DEF AfterSwitch

\* The same of the end of iridium_send_raw.
LEMMA AfterRawType == \A p \in Procs : AfterRaw(p) \in {"wait", "idle"}
  BY AfterSwitchType DEF AfterRaw

(***************************************************************************)
(* The variables have their types and buffer_queue keeps to its capacity.  *)
(***************************************************************************)
THEOREM TypeCorrect == Spec => []TypeOK
<1> USE DEF TypeOK
<1>1. Init => TypeOK
  BY UnsetIsMessage, GarbageIsMessage
     DEF Init, Steps, iridium_queue_status_t
<1>2. TypeOK /\ [Next]_vars => TypeOK'
  <2> SUFFICES ASSUME TypeOK, [Next]_vars PROVE TypeOK'
    OBVIOUS
  <2> USE DEF satcom, locals, modem, uart, Goto, Steps
  <2>1. ASSUME NEW t \in Tasks, NEW c \in Commands[t], NEW w \in WaitFlags, Call(t, c, w)
        PROVE  TypeOK'
    <3>1. t \in Procs /\ c \in iridium_command_t /\ w \in BOOLEAN
      BY LinkAssumption DEF Procs
    <3>2. [task |-> t, call |-> msg[t].call + 1, command |-> c,
           nonce |-> c_nonce] \in Message
      <4>1. msg[t] \in Message /\ c_nonce \in Nat
        BY <3>1
      <4>2. msg[t].call + 1 \in Nat
        BY ONLY <4>1 DEF Message
      <4> QED BY ONLY <3>1, <4>1, <4>2 DEF Message
    <3>3. msg' \in [Procs -> Message]
      BY <2>1, <3>1, <3>2 DEF Call
    <3> QED  BY <2>1, <3>1, <3>3, GarbageIsMessage DEF Call, iridium_queue_status_t
  <2>2. ASSUME NEW t \in Tasks, NonceStore(t) PROVE TypeOK'
    <3>1. t \in Procs  BY DEF Procs
    <3>2. msg[t] \in Message /\ msg[t].nonce + 1 \in Nat
      <4>1. msg[t] \in Message
        BY <3>1
      <4> QED BY ONLY <4>1 DEF Message
    <3>3. msg' \in [Procs -> Message]
      BY <2>2, <3>1, <3>2, RenumberedMessage DEF NonceStore
    <3> QED  BY <2>2, <3>2, <3>3 DEF NonceStore
  <2>3. ASSUME NEW t \in Tasks, NonceReread(t) PROVE TypeOK'
    <3>1. t \in Procs  BY DEF Procs
    <3>2. msg[t] \in Message /\ msg[t].nonce \in Nat
      BY <3>1 DEF Message
    <3>3. msg' \in [Procs -> Message]
      BY <2>3, <3>1, <3>2, RenumberedMessage DEF NonceReread
    <3>4. pc' \in [Procs -> Steps]
      BY <2>3, <3>1, AfterSwitchType DEF NonceReread
    <3> QED  BY <2>3, <3>3, <3>4 DEF NonceReread
  <2>4. ASSUME NEW p \in Procs, SendRaw(p) PROVE TypeOK'
    <3>1. CASE CheckStatus(p)  BY <3>1 DEF CheckStatus
    <3>2. CASE Enqueue(p)
      BY <3>2, AfterRawType, AppendProperties DEF Enqueue
    <3>3. CASE EnqueueTimeout(p)
      BY <3>3, AfterRawType DEF EnqueueTimeout
    <3>4. CASE WriteBytes(p)
      BY <3>4, AppendProperties DEF WriteBytes
    <3>5. CASE UpdateIqsWaiting(p)  BY <3>5 DEF UpdateIqsWaiting
    <3>6. CASE UpdatePNonce(p)
      BY <3>6, AfterRawType DEF UpdatePNonce, Message
    <3> QED  BY <2>4, <3>1, <3>2, <3>3, <3>4, <3>5, <3>6 DEF SendRaw
  <2>5. ASSUME NEW t \in Tasks, WaitTest(t) \/ WaitPoll(t) \/ CopyResult(t)
        PROVE  TypeOK'
    <3>1. CASE WaitTest(t)  BY <3>1 DEF WaitTest, Procs
    <3>2. CASE WaitPoll(t)  BY <3>2 DEF WaitPoll, Procs, iridium_queue_status_t
    <3>3. CASE CopyResult(t)  BY <3>3 DEF CopyResult, Procs
    <3> QED  BY <2>5, <3>1, <3>2, <3>3
  <2>6. CASE BufferPoll  BY <2>6 DEF BufferPoll, Procs
  <2>7. CASE BufferReceive
    <3>1. CASE buffer_queue = <<>>  BY <2>7, <3>1 DEF BufferReceive, Procs
    <3>2. CASE buffer_queue # <<>>
      <4>1. Head(buffer_queue) \in Message /\ Tail(buffer_queue) \in Seq(Message)
            /\ Len(Tail(buffer_queue)) = Len(buffer_queue) - 1
        BY <3>2, HeadTailProperties
      <4>2. /\ msg' = [msg EXCEPT ![BufferTask] = Head(buffer_queue)]
            /\ pc' = [pc EXCEPT ![BufferTask] = "check"]
            /\ buffer_queue' = Tail(buffer_queue)
        BY <2>7, <3>2 DEF BufferReceive
      <4>3. msg' \in [Procs -> Message] /\ pc' \in [Procs -> Steps]
        BY <4>1, <4>2
      <4> QED  BY <2>7, <4>1, <4>2, <4>3 DEF BufferReceive
    <3> QED  BY <3>1, <3>2
  <2>8. CASE ModemReply
    <3> DEFINE r(o) == [msg |-> written[answered + 1], final |-> o]
    <3>1. \A o \in {"OK", "ERROR"} : r(o) \in Reply
      <4>1. written[answered + 1] \in Message  BY <2>8 DEF ModemReply
      <4> QED  BY <4>1 DEF Reply
    <3> HIDE DEF r
    <3>2. \A o \in {"OK", "ERROR"} : Append(rx, r(o)) \in Seq(Reply) /\ Append(rx, r(o)) # <<>>
      <4>1. rx \in Seq(Reply)  BY DEF Reply
      <4> QED  BY <3>1, <4>1, AppendReply
    <3>3. PICK o \in {"OK"} \cup Faults : rx' = IF o = "SILENT" THEN rx ELSE Append(rx, r(o))
      BY <2>8 DEF ModemReply, r
    <3>4. rx' \in Seq(Reply) /\ (rx # <<>> => rx' # <<>>)
      BY <3>2, <3>3 DEF Reply
    <3>5. answered' \in 0 .. Len(written')
      BY <2>8 DEF ModemReply
    <3> QED  BY <2>8, <3>4, <3>5 DEF ModemReply, Reply
  <2>9. CASE uart_satcom_task
    <3>1. CASE UartReceive
      BY <3>1, GarbageIsMessage DEF UartReceive
    <3>2. CASE UartCopied
      <4>1. rx # <<>> /\ Head(rx) \in [msg : Message, final : {"OK", "ERROR"}]
        BY <3>2, HeadTailProperties DEF UartCopied
      <4> QED  BY <3>2, <4>1 DEF UartCopied
    <3>3. CASE UpdateIqsOpen
      BY <3>3, HeadTailProperties DEF UpdateIqsOpen
    <3> QED  BY <2>9, <3>1, <3>2, <3>3 DEF uart_satcom_task
  <2>10. CASE UNCHANGED vars  BY <2>10 DEF vars
  <2> QED
    BY <2>1, <2>2, <2>3, <2>4, <2>5, <2>6, <2>7, <2>8, <2>9, <2>10
       DEF Next, Calls, TaskStep, IridiumSend, buffer_satcom_task, Procs
<1> QED  BY <1>1, <1>2, PTL DEF Spec

-----------------------------------------------------------------------------
(***************************************************************************)
(* No lost wake-up.  The invariant that carries it: a process between the  *)
(* write and the end of iridium_send_raw has its message still unanswered, *)
(* so that the IQS_WAITING it stores is one a reply will undo.             *)
(***************************************************************************)
StoringIsUnanswered ==
  \A p \in Procs : Storing(p) => \E i \in answered + 1 .. Len(written) : written[i] = msg[p]

WakeupInv == NoStuckWaiting /\ StoringIsUnanswered

\* Every step of the tasks and of the modem keeps WakeupInv, if no reply is
\* lost and none overtakes the writer's two stores.
LEMMA WakeupStep ==
  ASSUME SlowModem, Faults = {}, TypeOK, WakeupInv, [Next]_vars
  PROVE  WakeupInv'
<1> USE DEF WakeupInv, NoStuckWaiting, StoringIsUnanswered, Outstanding, Storing,
            satcom, locals, modem, uart, Goto
<1> DEFINE Quiet == UNCHANGED <<status, written, answered, rx>>
<1>1. ASSUME Quiet, NEW p \in Procs,
             \A q \in Procs \ {p} : pc'[q] = pc[q] /\ msg'[q] = msg[q],
             Storing(p)' => Storing(p) /\ msg'[p] = msg[p]
      PROVE  WakeupInv'
  BY <1>1
<1>2. ASSUME NEW t \in Tasks, Calls(t) \/ IridiumSend(t) PROVE WakeupInv'
  <2>1. t \in Procs /\ Quiet
    BY <1>2 DEF Procs, Calls, Call, IridiumSend, NonceStore, NonceReread,
                WaitTest, WaitPoll, CopyResult
  <2>2. pc'[t] \notin {"set_waiting", "set_nonce"}
    BY <1>2, <2>1, AfterSwitchType
       DEF TypeOK, Calls, Call, IridiumSend, NonceStore, NonceReread, WaitTest,
           WaitPoll, CopyResult
  <2>3. \A q \in Procs \ {t} : pc'[q] = pc[q] /\ msg'[q] = msg[q]
    BY <1>2, <2>1
       DEF TypeOK, Calls, Call, IridiumSend, NonceStore, NonceReread, WaitTest,
           WaitPoll, CopyResult
  <2> QED  BY <1>1, <2>1, <2>2, <2>3
<1>3. ASSUME NEW p \in Procs, SendRaw(p) PROVE WakeupInv'
  <2>1. CASE CheckStatus(p) \/ Enqueue(p) \/ EnqueueTimeout(p)
    <3>1. pc'[p] \notin {"set_waiting", "set_nonce"}
      BY <2>1, AfterRawType DEF TypeOK, CheckStatus, Enqueue, EnqueueTimeout
    <3> QED  BY <1>1, <2>1, <3>1 DEF TypeOK, CheckStatus, Enqueue, EnqueueTimeout
  <2>2. CASE WriteBytes(p)
    <3>1. /\ Len(written') = Len(written) + 1
          /\ written'[Len(written) + 1] = msg[p]
          /\ \A i \in 1 .. Len(written) : written'[i] = written[i]
      BY <2>2, AppendProperties DEF TypeOK, WriteBytes
    <3>2. ASSUME NEW q \in Procs, Storing(q)'
          PROVE  \E i \in answered' + 1 .. Len(written') : written'[i] = msg'[q]
      <4>1. CASE q = p
        BY <2>2, <3>1, <4>1 DEF TypeOK, WriteBytes
      <4>2. CASE q # p
        <5>1. Storing(q)  BY <2>2, <3>2, <4>2 DEF TypeOK, WriteBytes
        <5>2. PICK i \in answered + 1 .. Len(written) : written[i] = msg[q]
          BY <5>1
        <5> QED  BY <2>2, <3>1, <5>2 DEF TypeOK, WriteBytes
      <4> QED  BY <4>1, <4>2
    <3>3. Outstanding'  BY <2>2, <3>1 DEF TypeOK, WriteBytes
    <3> QED  BY <3>2, <3>3
  <2>3. CASE UpdateIqsWaiting(p)
    <3>1. Outstanding /\ Outstanding'
      BY <2>3 DEF TypeOK, UpdateIqsWaiting
    <3>2. \A q \in Procs : Storing(q)' => Storing(q)
      BY <2>3 DEF TypeOK, UpdateIqsWaiting
    <3> QED  BY <2>3, <3>1, <3>2 DEF UpdateIqsWaiting
  <2>4. CASE UpdatePNonce(p)
    BY <1>1, <2>4, AfterRawType DEF TypeOK, UpdatePNonce
  <2> QED  BY <1>3, <2>1, <2>2, <2>3, <2>4 DEF SendRaw
<1>4. CASE BufferPoll \/ BufferReceive
  <2>1. BufferTask \in Procs  BY DEF Procs
  <2>2. pc'[BufferTask] \notin {"set_waiting", "set_nonce"}
    BY <1>4, <2>1 DEF TypeOK, BufferPoll, BufferReceive
  <2> QED  BY <1>1, <1>4, <2>1, <2>2 DEF TypeOK, BufferPoll, BufferReceive
<1>5. CASE ModemReply
  <2>1. rx' # <<>>
    <3> DEFINE r == [msg |-> written[answered + 1], final |-> "OK"]
    <3>1. r \in Reply  BY <1>5 DEF TypeOK, ModemReply, Reply
    <3>2. rx' = Append(rx, r)  BY <1>5 DEF ModemReply
    <3>3. rx \in Seq(Reply)  BY DEF TypeOK, Reply
    <3> HIDE DEF r
    <3> QED  BY <3>1, <3>2, <3>3, AppendReply
  <2>2. ASSUME NEW p \in Procs, Storing(p)
        PROVE  \E i \in answered' + 1 .. Len(written) : written[i] = msg[p]
    <3>1. PICK i \in answered + 1 .. Len(written) : written[i] = msg[p]
      BY <2>2
    <3>2. i # answered + 1  BY <1>5, <2>2, <3>1 DEF ModemReply
    <3> QED  BY <1>5, <3>1, <3>2 DEF TypeOK, ModemReply
  <2> QED  BY <1>5, <2>1, <2>2 DEF ModemReply
<1>6. CASE uart_satcom_task
  BY <1>6 DEF uart_satcom_task, UartReceive, UartCopied, UpdateIqsOpen
<1>7. CASE UNCHANGED vars  BY <1>7 DEF vars
<1> QED
  BY <1>2, <1>3, <1>4, <1>5, <1>6, <1>7
     DEF Next, TaskStep, buffer_satcom_task, Procs

(***************************************************************************)
(* If a reply never overtakes the two stores of the writer and no reply is *)
(* lost, IQS_WAITING always has a reply on its way, whatever the tasks do. *)
(***************************************************************************)
THEOREM NoLostWakeup ==
  ASSUME SlowModem, Faults = {}
  PROVE  Spec => []NoStuckWaiting
<1>1. Init => WakeupInv
  BY DEF Init, WakeupInv, NoStuckWaiting, StoringIsUnanswered, Storing
<1>2. TypeOK /\ WakeupInv /\ [Next]_vars => WakeupInv'
  BY WakeupStep
<1>3. WakeupInv => NoStuckWaiting
  BY DEF WakeupInv
<1> QED  BY <1>1, <1>2, <1>3, TypeCorrect, PTL DEF Spec

-----------------------------------------------------------------------------
(***************************************************************************)
(* A caller that has the channel to itself and waits for every reply: each *)
(* call returns the reply to its own command, and one command at most is   *)
(* outstanding, whatever the modem does and however fast it is.            *)
(*                                                                         *)
(* ResultIsOwn is not inductive: that what CopyResult reads is the reply   *)
(* rests on status being IQS_OPEN, after the call has stored IQS_WAITING,  *)
(* only once its reply has been handled.  SyncInv follows the one command  *)
(* from the UART to the modem and back, for every place of the caller.     *)
(***************************************************************************)

\* The assumption of the theorems: one task, which waits for each reply and
\* sends no command whose case returns before the wait loop.
LoneCaller(t) ==
  /\ Tasks = {t}
  /\ WaitFlags = {TRUE}
  /\ Commands[t] \cap (ReturnsAfterRaw \cup HasNoCase) = {}

NothingOut == answered = Len(written) /\ rx = <<>> /\ uart_pc = "receive"

WithModem(t) ==
  /\ Len(written) = answered + 1 /\ written[Len(written)] = msg[t]
  /\ rx = <<>> /\ uart_pc = "receive"

BeingRead(t) ==
  /\ answered = Len(written)
  /\ Len(rx) = 1 /\ rx[1].msg = msg[t]
  /\ uart_pc = "open" => buffer_data = msg[t]

Replied(t) == NothingOut /\ buffer_data = msg[t] /\ status = "IQS_OPEN"

BufferIdle == buffer_queue = <<>> /\ pc[BufferTask] \in {"idle", "receive"}

SyncInv(t) ==
  /\ BufferIdle
  /\ msg[t].call > 0 => msg[t].command \notin ReturnsAfterRaw \cup HasNoCase /\ waits[t]
  /\ pc[t] \in {"idle", "store", "reread", "check", "write"} =>
       NothingOut /\ status = "IQS_OPEN"
  /\ pc[t] # "idle" => msg[t].call > 0
  /\ pc[t] \in {"store", "reread", "check", "write", "set_waiting", "set_nonce", "poll"} =>
       t_status[t] # "IQS_OPEN"
  /\ pc[t] \notin {"enqueue", "receive"}
  /\ pc[t] \in {"set_waiting", "set_nonce", "wait", "poll"} =>
       WithModem(t) \/ BeingRead(t) \/ NothingOut
  /\ pc[t] \in {"set_nonce", "wait", "poll"} /\ status = "IQS_OPEN" => Replied(t)
  /\ pc[t] \in {"wait", "poll", "copy"} => p_nonce = msg[t].nonce
  /\ pc[t] = "wait" /\ t_status[t] = "IQS_OPEN" => Replied(t)
  /\ pc[t] = "copy" => Replied(t)
  /\ ResultIsOwn

\* At the start the channel is open and the caller idle.
LEMMA SyncInit == ASSUME NEW t, LoneCaller(t), Init PROVE SyncInv(t)
<1>1. t \in Tasks /\ t \in Procs /\ BufferTask \in Procs
  BY DEF LoneCaller, Procs
<1> QED
  BY <1>1 DEF Init, SyncInv, BufferIdle, NothingOut, ResultIsOwn, Returned, Unset, LoneCaller

\* The caller's own steps.
LEMMA SyncCall ==
  ASSUME TypeOK, NEW t, LoneCaller(t), SyncInv(t),
         NEW c \in Commands[t], NEW w \in WaitFlags, Call(t, c, w)
  PROVE  SyncInv(t)'
<1> USE DEF Goto, satcom, modem, uart
<1>1. /\ t \in Tasks /\ t \in Procs /\ BufferTask \in Procs /\ BufferTask # t
      /\ c \notin ReturnsAfterRaw \cup HasNoCase /\ w = TRUE /\ msg[t].call \in Nat
  BY LinkAssumption DEF LoneCaller, Procs, TypeOK, Message
<1>2. /\ pc[t] = "idle" /\ pc'[t] = "store" /\ pc'[BufferTask] = pc[BufferTask]
      /\ msg'[t].call = msg[t].call + 1 /\ msg'[t].command = c /\ waits'[t] = TRUE
      /\ t_status'[t] = "IQS_NONE"
      /\ UNCHANGED <<satcom, buffer_queue, modem, uart>>
  BY <1>1 DEF Call, TypeOK
<1> QED
  BY <1>1, <1>2 DEF SyncInv, BufferIdle, NothingOut, ResultIsOwn, Returned, LoneCaller

\* Its iridium_send behind Call, the wait included.
LEMMA SyncSend ==
  ASSUME TypeOK, NEW t, LoneCaller(t), SyncInv(t), IridiumSend(t)
  PROVE  SyncInv(t)'
<1> USE DEF Goto, satcom, modem, uart
<1>1. t \in Tasks /\ t \in Procs /\ BufferTask \in Procs /\ BufferTask # t /\ Tasks = {t}
  BY LinkAssumption DEF LoneCaller, Procs
<1>2. CASE NonceStore(t) \/ NonceReread(t)
  <2>1. /\ pc[t] \in {"store", "reread"} /\ pc'[t] \in {"reread", "check"}
        /\ pc'[BufferTask] = pc[BufferTask]
        /\ msg'[t].call = msg[t].call /\ msg'[t].command = msg[t].command
        /\ UNCHANGED <<status, buffer_queue, waits, t_status, modem, uart>>
    <3>1. PICK n : msg' = [msg EXCEPT ![t] = [@ EXCEPT !.nonce = n]]
      BY <1>2 DEF NonceStore, NonceReread
    <3>2. msg[t].call > 0 /\ msg[t].command \notin HasNoCase
      BY <1>2 DEF NonceStore, NonceReread, SyncInv
    <3>3. msg'[t].call = msg[t].call /\ msg'[t].command = msg[t].command
      BY <1>1, <3>1 DEF TypeOK, Message
    <3> QED BY <1>1, <1>2, <3>2, <3>3 DEF NonceStore, NonceReread, TypeOK
  <2> QED
    BY <1>1, <2>1 DEF SyncInv, BufferIdle, NothingOut, ResultIsOwn, Returned
<1>3. CASE WaitTest(t)
  <2>1. /\ pc[t] = "wait" /\ pc'[BufferTask] = pc[BufferTask]
        /\ pc'[t] = IF t_status[t] # "IQS_OPEN" THEN "poll" ELSE "copy"
        /\ UNCHANGED <<satcom, buffer_queue, msg, waits, t_status, result, modem, uart>>
    BY <1>1, <1>3 DEF WaitTest, SyncInv, TypeOK
  <2> QED
    BY <1>1, <2>1 DEF SyncInv, BufferIdle, NothingOut, WithModem, BeingRead, Replied,
                      ResultIsOwn, Returned
<1>4. CASE WaitPoll(t)
  <2>1. /\ pc[t] = "poll" /\ pc'[BufferTask] = pc[BufferTask] /\ pc'[t] = "wait"
        /\ t_status'[t] = status
        /\ UNCHANGED <<satcom, buffer_queue, msg, waits, result, modem, uart>>
    BY <1>1, <1>4 DEF WaitPoll, TypeOK
  <2> QED
    BY <1>1, <2>1 DEF SyncInv, BufferIdle, NothingOut, WithModem, BeingRead, Replied,
                      ResultIsOwn, Returned
<1>5. CASE CopyResult(t)
  <2>1. /\ pc[t] = "copy" /\ pc'[BufferTask] = pc[BufferTask] /\ pc'[t] = "idle"
        /\ result'[t] = buffer_data
        /\ UNCHANGED <<satcom, buffer_queue, msg, waits, t_status, modem, uart>>
    BY <1>1, <1>5 DEF CopyResult, TypeOK
  <2> QED
    BY <1>1, <2>1 DEF SyncInv, BufferIdle, NothingOut, Replied, ResultIsOwn, Returned
<1> QED BY <1>2, <1>3, <1>4, <1>5 DEF IridiumSend

\* Its iridium_send_raw: the channel is open, so it always writes.
LEMMA SyncSendRaw ==
  ASSUME TypeOK, NEW t, LoneCaller(t), SyncInv(t), SendRaw(t)
  PROVE  SyncInv(t)'
<1> USE DEF Goto, satcom, modem, uart
<1>1. t \in Tasks /\ t \in Procs /\ BufferTask \in Procs /\ BufferTask # t /\ Tasks = {t}
  BY LinkAssumption DEF LoneCaller, Procs
<1>2. CASE CheckStatus(t)
  <2>1. /\ pc[t] = "check" /\ pc'[BufferTask] = pc[BufferTask] /\ pc'[t] = "write"
        /\ UNCHANGED <<satcom, buffer_queue, msg, waits, t_status, result, modem, uart>>
    BY <1>1, <1>2 DEF CheckStatus, SyncInv, TypeOK
  <2> QED
    BY <1>1, <2>1 DEF SyncInv, BufferIdle, NothingOut, ResultIsOwn, Returned
<1>3. CASE Enqueue(t) \/ EnqueueTimeout(t)
  BY <1>3 DEF Enqueue, EnqueueTimeout, SyncInv
<1>4. CASE WriteBytes(t)
  <2>1. /\ pc[t] = "write" /\ pc'[BufferTask] = pc[BufferTask] /\ pc'[t] = "set_waiting"
        /\ UNCHANGED <<satcom, buffer_queue, msg, waits, t_status, result, answered, uart>>
    BY <1>1, <1>4 DEF WriteBytes, TypeOK
  <2>2. Len(written') = Len(written) + 1 /\ written'[Len(written')] = msg[t]
    BY <1>1, <1>4, AppendProperties DEF WriteBytes, TypeOK
  <2>3. WithModem(t)'
    BY <2>1, <2>2 DEF SyncInv, NothingOut, WithModem
  <2> QED
    BY <1>1, <2>1, <2>3 DEF SyncInv, BufferIdle, ResultIsOwn, Returned
<1>5. CASE UpdateIqsWaiting(t)
  <2>1. /\ pc[t] = "set_waiting" /\ pc'[BufferTask] = pc[BufferTask] /\ pc'[t] = "set_nonce"
        /\ status' = "IQS_WAITING"
        /\ UNCHANGED <<buffer_data, buffer_queue, msg, waits, t_status, result, modem, uart>>
    BY <1>1, <1>5 DEF UpdateIqsWaiting, TypeOK
  <2> QED
    BY <1>1, <2>1 DEF SyncInv, BufferIdle, NothingOut, WithModem, BeingRead, ResultIsOwn,
                      Returned
<1>6. CASE UpdatePNonce(t)
  <2>1. AfterRaw(t) = "wait"
    BY <1>1, <1>6 DEF UpdatePNonce, SyncInv, AfterRaw, AfterSwitch
  <2>2. /\ pc[t] = "set_nonce" /\ pc'[BufferTask] = pc[BufferTask] /\ pc'[t] = "wait"
        /\ p_nonce' = msg[t].nonce
        /\ UNCHANGED <<status, buffer_data, buffer_queue, msg, waits, t_status, result,
                       modem, uart>>
    BY <1>1, <1>6, <2>1 DEF UpdatePNonce, TypeOK
  <2> QED
    BY <1>1, <2>2 DEF SyncInv, BufferIdle, NothingOut, WithModem, BeingRead, Replied,
                      ResultIsOwn, Returned
<1> QED BY <1>2, <1>3, <1>4, <1>5, <1>6 DEF SendRaw

-----------------------------------------------------------------------------
\* buffer_satcom_task has nothing to send.
LEMMA SyncBuffer ==
  ASSUME TypeOK, NEW t, LoneCaller(t), SyncInv(t), buffer_satcom_task
  PROVE  SyncInv(t)'
<1> USE DEF Goto, satcom, modem, uart
<1>1. t \in Tasks /\ t \in Procs /\ BufferTask \in Procs /\ BufferTask # t /\ Tasks = {t}
  BY LinkAssumption DEF LoneCaller, Procs
<1>2. BufferPoll \/ BufferReceive
  BY DEF buffer_satcom_task, SendRaw, CheckStatus, Enqueue, EnqueueTimeout, WriteBytes,
         UpdateIqsWaiting, UpdatePNonce, SyncInv, BufferIdle
<1>3. /\ pc'[BufferTask] \in {"idle", "receive"} /\ pc'[t] = pc[t]
      /\ UNCHANGED <<satcom, buffer_queue, msg, waits, t_status, result, modem, uart>>
  BY <1>1, <1>2 DEF BufferPoll, BufferReceive, SyncInv, BufferIdle, TypeOK
<1> QED
  BY <1>1, <1>3 DEF SyncInv, BufferIdle, NothingOut, WithModem, BeingRead, Replied,
                    ResultIsOwn, Returned

\* The one command out is the caller's.
LEMMA SyncModem ==
  ASSUME TypeOK, NEW t, LoneCaller(t), SyncInv(t), ModemReply
  PROVE  SyncInv(t)'
<1> USE DEF satcom, locals
<1>1. answered \in Nat /\ Len(written) \in Nat /\ answered < Len(written)
  BY DEF ModemReply, TypeOK
<1>2. WithModem(t) /\ pc[t] \in {"set_waiting", "set_nonce", "wait", "poll"} /\ t \in Procs
  <2>1. ~NothingOut /\ ~BeingRead(t)
    BY <1>1 DEF NothingOut, BeingRead
  <2>2. t \in Procs /\ pc[t] \in Steps
    BY DEF LoneCaller, Procs, TypeOK
  <2> QED BY <2>1, <2>2 DEF SyncInv, Replied, Steps
<1>3. status # "IQS_OPEN" \/ pc[t] = "set_waiting"
  BY <1>1, <1>2 DEF SyncInv, Replied, NothingOut
<1>4. /\ answered' = Len(written')
      /\ UNCHANGED <<satcom, buffer_queue, locals, uart_pc>>
  BY <1>2 DEF ModemReply, WithModem
<1>5. rx' = <<>> \/ (Len(rx') = 1 /\ rx'[1].msg = msg[t])
  <2>1. PICK o \in {"OK"} \cup Faults :
          rx' = IF o = "SILENT" THEN rx
                ELSE Append(rx, [msg |-> written[answered + 1], final |-> o])
    BY DEF ModemReply
  <2>2. written[answered + 1] = msg[t] /\ rx = <<>>
    BY <1>2 DEF WithModem
  <2> QED BY <2>1, <2>2
<1>6. BeingRead(t)' \/ NothingOut'
  BY <1>2, <1>4, <1>5 DEF BeingRead, NothingOut, WithModem
<1> QED
  BY <1>2, <1>3, <1>4, <1>6 DEF SyncInv, BufferIdle, Replied, ResultIsOwn, Returned, NothingOut

\* uart_satcom_task has the reply to the caller's command in hand.
LEMMA SyncUart ==
  ASSUME TypeOK, NEW t, LoneCaller(t), SyncInv(t), uart_satcom_task
  PROVE  SyncInv(t)'
<1> USE DEF modem, locals
<1>1. rx # <<>>
  BY DEF uart_satcom_task, UartReceive, UartCopied, UpdateIqsOpen, TypeOK
<1>2. /\ BeingRead(t) /\ pc[t] \in {"set_waiting", "set_nonce", "wait", "poll"}
      /\ Tasks = {t} /\ t \in Procs
  <2>1. ~NothingOut /\ ~WithModem(t)
    BY <1>1 DEF NothingOut, WithModem
  <2>2. t \in Procs /\ pc[t] \in Steps /\ Tasks = {t}
    BY DEF LoneCaller, Procs, TypeOK
  <2> QED BY <2>1, <2>2 DEF SyncInv, Replied, Steps
<1>3. status # "IQS_OPEN" \/ pc[t] = "set_waiting"
  BY <1>1, <1>2 DEF SyncInv, Replied, NothingOut
<1>4. t_status[t] # "IQS_OPEN"
  BY <1>1, <1>2 DEF SyncInv, Replied, NothingOut
<1>5. CASE UartReceive \/ UartCopied
  <2>1. UNCHANGED <<status, p_nonce, buffer_queue, locals, modem, rx>>
    BY <1>5 DEF UartReceive, UartCopied
  <2>2. BeingRead(t)'
    BY <1>2, <1>5, <2>1 DEF UartReceive, UartCopied, BeingRead
  <2> QED
    BY <1>2, <1>3, <1>4, <2>1, <2>2 DEF SyncInv, BufferIdle, ResultIsOwn, Returned
<1>6. CASE UpdateIqsOpen
  <2>1. Len(rx') = 0 /\ rx' \in Seq([msg : Message, final : {"OK", "ERROR"}])
    BY <1>1, <1>2, <1>6, HeadTailProperties DEF UpdateIqsOpen, BeingRead, TypeOK
  <2>2. rx' = <<>>
    BY <2>1, EmptySeq
  <2>3. Replied(t)'
    BY <1>2, <1>6, <2>2 DEF UpdateIqsOpen, BeingRead, Replied, NothingOut
  <2>4. UNCHANGED <<p_nonce, buffer_queue, locals>>
    BY <1>6 DEF UpdateIqsOpen
  <2> QED
    BY <1>2, <1>4, <2>3, <2>4 DEF SyncInv, BufferIdle, Replied, ResultIsOwn, Returned
<1> QED BY <1>5, <1>6 DEF uart_satcom_task

\* Every step keeps SyncInv.
LEMMA SyncStep ==
  ASSUME TypeOK, NEW t, LoneCaller(t), SyncInv(t), [Next]_vars
  PROVE  SyncInv(t)'
<1>1. Tasks = {t}
  BY DEF LoneCaller
<1>2. CASE UNCHANGED vars
  BY <1>2 DEF vars, SyncInv, BufferIdle, NothingOut, WithModem, BeingRead, Replied,
              ResultIsOwn, Returned
<1> QED
  BY <1>1, <1>2, SyncCall, SyncSend, SyncSendRaw, SyncBuffer, SyncModem, SyncUart
     DEF Next, Calls, TaskStep

\* SyncInv in every state of a behaviour.
LEMMA SyncInvariant == ASSUME NEW t, LoneCaller(t) PROVE Spec => []SyncInv(t)
<1>1. Init => SyncInv(t)
  BY SyncInit
<1>2. TypeOK /\ SyncInv(t) /\ [Next]_vars => SyncInv(t)'
  BY SyncStep
<1> QED BY <1>1, <1>2, TypeCorrect, PTL DEF Spec

\* A caller alone on the channel gets the reply to its own command, also from
\* a modem that answers ERROR, nothing, or before IQS_WAITING is set (324-441).
THEOREM LoneCallerGetsItsReply ==
  ASSUME NEW t, LoneCaller(t)
  PROVE  Spec => []ResultIsOwn
<1>1. SyncInv(t) => ResultIsOwn
  BY DEF SyncInv
<1> QED BY <1>1, SyncInvariant, PTL

\* It never has two commands out: the channel is then as strict as its status
\* says (209-227).
THEOREM LoneCallerIsStrict ==
  ASSUME NEW t, LoneCaller(t)
  PROVE  Spec => []OneAtATime
<1>1. TypeOK /\ SyncInv(t) => OneAtATime
  <2> SUFFICES ASSUME TypeOK, SyncInv(t) PROVE OneAtATime
    OBVIOUS
  <2>1. pc[t] \in Steps
    BY DEF TypeOK, LoneCaller, Procs
  <2>2. WithModem(t) \/ BeingRead(t) \/ NothingOut
    BY <2>1 DEF SyncInv, Replied, Steps
  <2>3. answered \in Nat /\ Len(written) \in Nat
    BY DEF TypeOK
  <2>4. CASE WithModem(t) BY <2>3, <2>4 DEF WithModem, OneAtATime
  <2>5. CASE BeingRead(t) BY <2>3, <2>5 DEF BeingRead, OneAtATime
  <2>6. CASE NothingOut BY <2>3, <2>6 DEF NothingOut, OneAtATime
  <2> QED BY <2>2, <2>4, <2>5, <2>6
<1> QED BY <1>1, SyncInvariant, TypeCorrect, PTL
=============================================================================
