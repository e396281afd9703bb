----------------------- MODULE IridiumLinkRequestProofs -----------------------
(***************************************************************************)
(* No request is sent twice and none is forgotten: AtMostOnce and          *)
(* NothingForgotten for any tasks, any commands, any capacity of           *)
(* buffer_queue and any behaviour of the modem.                            *)
(*                                                                         *)
(* AtMostOnce says that the places a request can be at (the hand of a      *)
(* process, buffer_queue, the UART, dropped) never share one.  It is not   *)
(* inductive: a new call must find its number unused.  IssuedInv adds that *)
(* every request anywhere was issued by the task it names.                 *)
(*                                                                         *)
(* NothingForgotten says that it has one of these places, since every step *)
(* that takes it from one puts it in another.  KeptInv adds that a task    *)
(* has a command of its own in hand, so that a task which sends no SBDRING *)
(* never leaves the switch by its default case.                            *)
(*                                                                         *)
(* From both, and from Begun (a task in no call has begun none), follows   *)
(* that each step is one of RequestLedger, or leaves the ledger alone.     *)
(***************************************************************************)
EXTENDS IridiumLinkProofs

Issued(m) == m.task \in Tasks /\ m.call <= msg[m.task].call

IssuedInv ==
  /\ \A t \in Tasks : msg[t].task = t
  /\ \A i \in 1 .. Len(written) : Issued(written[i])
  /\ \A i \in 1 .. Len(buffer_queue) : Issued(buffer_queue[i])
  /\ \A m \in dropped : Issued(m)
  /\ \A p \in Procs : Carries(p) => Issued(msg[p])

OnceInv == AtMostOnce /\ IssuedInv

\* A step that changes no caller's number, only lets go of requests or keeps
\* them where they are, keeps the invariant.
LEMMA Unmoved ==
  ASSUME OnceInv,
         UNCHANGED <<written, buffer_queue, dropped>>,
         \A p \in Procs : Carries(p)' => Carries(p) /\ Same(msg'[p], msg[p]),
         \A t \in Tasks : Same(msg'[t], msg[t])
  PROVE  OnceInv'
<1>1. AtMostOnce'
  BY DEF OnceInv, AtMostOnce, Same
<1>2. IssuedInv'
  BY DEF OnceInv, IssuedInv, Issued, Same, Procs
<1> QED  BY <1>1, <1>2 DEF OnceInv

\* The other steps move one request: a process p lets go of it.
LetsGo(p) == /\ Carries(p) /\ ~Carries(p)'
             /\ \A q \in Procs \ {p} : Carries(q)' => Carries(q)
             /\ msg' = msg

\* To the UART: WriteBytes.
LEMMA MovedToWire ==
  ASSUME TypeOK, OnceInv, NEW p \in Procs, LetsGo(p),
         written' = Append(written, msg[p]), UNCHANGED <<buffer_queue, dropped>>
  PROVE  OnceInv'
<1>1. /\ Len(written') = Len(written) + 1
      /\ written'[Len(written) + 1] = msg[p]
      /\ \A i \in 1 .. Len(written) : written'[i] = written[i]
      /\ Len(written) \in Nat
  BY AppendProperties DEF TypeOK
<1>2. \A i \in 1 .. Len(written') : i \in 1 .. Len(written) \/ i = Len(written) + 1
  BY <1>1
<1>3. AtMostOnce'
  BY <1>1, <1>2 DEF OnceInv, AtMostOnce, Same, LetsGo
<1>4. IssuedInv'
  BY <1>1, <1>2 DEF OnceInv, IssuedInv, Issued, LetsGo
<1> QED  BY <1>3, <1>4 DEF OnceInv

\* To the end of buffer_queue: Enqueue.
LEMMA MovedToQueue ==
  ASSUME TypeOK, OnceInv, NEW p \in Procs, LetsGo(p),
         buffer_queue' = Append(buffer_queue, msg[p]), UNCHANGED <<written, dropped>>
  PROVE  OnceInv'
<1>1. /\ Len(buffer_queue') = Len(buffer_queue) + 1
      /\ buffer_queue'[Len(buffer_queue) + 1] = msg[p]
      /\ \A i \in 1 .. Len(buffer_queue) : buffer_queue'[i] = buffer_queue[i]
      /\ Len(buffer_queue) \in Nat
  BY AppendProperties DEF TypeOK
<1>2. \A i \in 1 .. Len(buffer_queue') :
        i \in 1 .. Len(buffer_queue) \/ i = Len(buffer_queue) + 1
  BY <1>1
<1>3. AtMostOnce'
  BY <1>1, <1>2 DEF OnceInv, AtMostOnce, Same, LetsGo
<1>4. IssuedInv'
  BY <1>1, <1>2 DEF OnceInv, IssuedInv, Issued, LetsGo
<1> QED  BY <1>3, <1>4 DEF OnceInv

\* To the requests a full buffer_queue refused: EnqueueTimeout.
LEMMA MovedToDropped ==
  ASSUME TypeOK, OnceInv, NEW p \in Procs, LetsGo(p),
         dropped' = dropped \cup {msg[p]}, UNCHANGED <<written, buffer_queue>>
  PROVE  OnceInv'
<1>1. AtMostOnce'
  BY DEF OnceInv, AtMostOnce, Same, LetsGo
<1>2. IssuedInv'
  BY DEF OnceInv, IssuedInv, Issued, LetsGo
<1> QED  BY <1>1, <1>2 DEF OnceInv

\* From the front of buffer_queue to the hand of buffer_satcom_task:
\* BufferReceive.
LEMMA MovedToHand ==
  ASSUME TypeOK, OnceInv, buffer_queue # <<>>,
         BufferTask \notin Tasks, ~Carries(BufferTask),
         buffer_queue' = Tail(buffer_queue),
         msg' = [msg EXCEPT ![BufferTask] = Head(buffer_queue)],
         \A q \in Procs \ {BufferTask} : Carries(q)' => Carries(q),
         UNCHANGED <<written, dropped>>
  PROVE  OnceInv'
<1>1. /\ Len(buffer_queue') = Len(buffer_queue) - 1
      /\ \A i \in 1 .. Len(buffer_queue') : buffer_queue'[i] = buffer_queue[i + 1]
      /\ Len(buffer_queue) \in Nat \ {0}
  BY HeadTailProperties DEF TypeOK
<1>2. /\ msg'[BufferTask] = buffer_queue[1]
      /\ \A q \in Procs \ {BufferTask} : msg'[q] = msg[q]
      /\ 1 \in 1 .. Len(buffer_queue)
  BY <1>1, HeadTailProperties DEF TypeOK, Procs
<1>3. \A i \in 1 .. Len(buffer_queue') : i + 1 \in 1 .. Len(buffer_queue) /\ i + 1 # 1
  BY <1>1
<1>4. AtMostOnce'
  BY <1>1, <1>2, <1>3 DEF OnceInv, AtMostOnce, Same
<1>5. IssuedInv'
  BY <1>1, <1>2, <1>3 DEF OnceInv, IssuedInv, Issued, Procs
<1> QED  BY <1>4, <1>5 DEF OnceInv

\* A new request in the hand of its caller: Call.
LEMMA NewInHand ==
  ASSUME TypeOK, OnceInv, NEW t \in Tasks, ~Carries(t),
         NEW m \in Message, m.task = t, m.call = msg[t].call + 1,
         msg' = [msg EXCEPT ![t] = m],
         \A q \in Procs \ {t} : Carries(q)' => Carries(q),
         UNCHANGED <<written, buffer_queue, dropped>>
  PROVE  OnceInv'
<1>1. /\ t \in Procs /\ msg'[t] = m /\ msg[t].call \in Nat
      /\ \A q \in Procs \ {t} : msg'[q] = msg[q]
  BY DEF TypeOK, Procs, Message
<1>2. \A n \in Message : Issued(n) => ~Same(n, m) /\ ~Same(m, n)
  BY <1>1 DEF Issued, Same
<1>3. AtMostOnce'
  <2>1. /\ \A i \in 1 .. Len(written) : written[i] \in Message /\ Issued(written[i])
        /\ \A i \in 1 .. Len(buffer_queue) : buffer_queue[i] \in Message /\ Issued(buffer_queue[i])
        /\ \A n \in dropped : n \in Message /\ Issued(n)
        /\ \A q \in Procs : msg[q] \in Message /\ (Carries(q) => Issued(msg[q]))
    BY DEF TypeOK, OnceInv, IssuedInv
  <2> QED  BY <1>1, <1>2, <2>1 DEF OnceInv, AtMostOnce
<1>4. IssuedInv'
  <2>1. \A n \in Message : Issued(n) => Issued(n)'
    BY <1>1 DEF Issued, Procs, TypeOK, Message
  <2>2. Issued(m)'  BY <1>1 DEF Issued, Message
  <2>3. /\ \A i \in 1 .. Len(written') : Issued(written[i])'
        /\ \A i \in 1 .. Len(buffer_queue') : Issued(buffer_queue[i])'
        /\ \A n \in dropped' : Issued(n)'
    <3>1. /\ \A i \in 1 .. Len(written) : written[i] \in Message /\ Issued(written[i])
          /\ \A i \in 1 .. Len(buffer_queue) : buffer_queue[i] \in Message /\ Issued(buffer_queue[i])
          /\ \A n \in dropped : n \in Message /\ Issued(n)
      <4>1. written \in Seq(Message) /\ buffer_queue \in Seq(Message) /\ dropped \subseteq Message
        BY DEF TypeOK
      <4>2. /\ \A i \in 1 .. Len(written) : written[i] \in Message
            /\ \A i \in 1 .. Len(buffer_queue) : buffer_queue[i] \in Message
        BY <4>1, ElementOfSeq
      <4> QED  BY <4>1, <4>2 DEF OnceInv, IssuedInv
    <3> QED  BY <2>1, <3>1 DEF Issued
  <2>4. \A u \in Tasks : msg'[u].task = u
    BY <1>1 DEF OnceInv, IssuedInv, Procs
  <2>5. ASSUME NEW q \in Procs, Carries(q)'
        PROVE  Issued(msg[q])'
    <3>1. CASE q = t
      BY <3>1, <1>1, <2>2 DEF Issued
    <3>2. CASE q # t
      <4>1. msg'[q] = msg[q] /\ msg[q] \in Message /\ Issued(msg[q])
        BY <3>2, <2>5, <1>1 DEF OnceInv, IssuedInv, TypeOK
      <4> QED  BY <2>1, <4>1 DEF Issued
    <3> QED  BY <3>1, <3>2
  <2> QED  BY <2>3, <2>4, <2>5 DEF IssuedInv, Issued
<1> QED  BY <1>3, <1>4 DEF OnceInv

\* A new nonce does not make another request of it.
LEMMA Renumbered ==
  ASSUME NEW m \in Message, NEW n
  PROVE  Same([m EXCEPT !.nonce = n], m)
  BY DEF Message, Same

\* The steps of iridium_send_raw, of any process.
LEMMA SendRawKeepsOnce ==
  ASSUME TypeOK, OnceInv, NEW p \in Procs, SendRaw(p)
  PROVE  OnceInv'
<1> USE DEF Goto, satcom, modem, uart
<1>1. CASE CheckStatus(p)
  <2>1. \A q \in Procs : Carries(q)' => Carries(q)
    BY <1>1 DEF CheckStatus, Carries, TypeOK
  <2> QED  BY <1>1, <2>1, Unmoved DEF CheckStatus, Same
<1>2. CASE Enqueue(p)
  <2>1. LetsGo(p)
    BY <1>2, AfterRawType DEF Enqueue, LetsGo, Carries, TypeOK
  <2> QED  BY <1>2, <2>1, MovedToQueue DEF Enqueue
<1>3. CASE EnqueueTimeout(p)
  <2>1. LetsGo(p)
    BY <1>3, AfterRawType DEF EnqueueTimeout, LetsGo, Carries, TypeOK
  <2> QED  BY <1>3, <2>1, MovedToDropped DEF EnqueueTimeout
<1>4. CASE WriteBytes(p)
  <2>1. LetsGo(p)
    BY <1>4 DEF WriteBytes, LetsGo, Carries, TypeOK
  <2> QED  BY <1>4, <2>1, MovedToWire DEF WriteBytes
<1>5. CASE UpdateIqsWaiting(p) \/ UpdatePNonce(p)
  <2>1. \A q \in Procs : Carries(q)' => Carries(q)
    BY <1>5, AfterRawType DEF UpdateIqsWaiting, UpdatePNonce, Carries, TypeOK
  <2> QED  BY <1>5, <2>1, Unmoved DEF UpdateIqsWaiting, UpdatePNonce, Same
<1> QED  BY <1>1, <1>2, <1>3, <1>4, <1>5 DEF SendRaw

\* The steps of iridium_send.
LEMMA IridiumSendKeepsOnce ==
  ASSUME TypeOK, OnceInv, NEW t \in Tasks, IridiumSend(t)
  PROVE  OnceInv'
<1> USE DEF Goto, satcom, modem, uart
<1>1. t \in Procs /\ msg[t] \in Message
  BY DEF Procs, TypeOK
<1>2. CASE NonceStore(t) \/ NonceReread(t)
  <2>1. PICK n : msg' = [msg EXCEPT ![t] = [@ EXCEPT !.nonce = n]]
    BY <1>2 DEF NonceStore, NonceReread
  <2>2. \A q \in Procs : Same(msg'[q], msg[q])
    BY <1>1, <2>1, Renumbered DEF TypeOK, Same
  <2>3. \A q \in Procs : Carries(q)' => Carries(q)
    BY <1>1, <1>2, AfterSwitchType DEF NonceStore, NonceReread, Carries, TypeOK
  <2> QED  BY <1>2, <2>2, <2>3, Unmoved DEF NonceStore, NonceReread, Procs
<1>3. CASE WaitTest(t) \/ WaitPoll(t) \/ CopyResult(t)
  <2>1. \A q \in Procs : Carries(q)' => Carries(q)
    BY <1>1, <1>3 DEF WaitTest, WaitPoll, CopyResult, Carries, TypeOK
  <2> QED  BY <1>3, <2>1, Unmoved DEF WaitTest, WaitPoll, CopyResult, Same
<1> QED  BY <1>2, <1>3 DEF IridiumSend

\* Every step of the tasks and of the modem keeps OnceInv.
LEMMA OnceStep ==
  ASSUME TypeOK, OnceInv, [Next]_vars
  PROVE  OnceInv'
<1> USE DEF Goto, satcom, locals, modem, uart
<1>1. ASSUME NEW t \in Tasks, NEW c \in Commands[t], NEW w \in WaitFlags, Call(t, c, w)
      PROVE  OnceInv'
  <2> DEFINE m == [task |-> t, call |-> msg[t].call + 1, command |-> c, nonce |-> c_nonce]
  <2>1. t \in Procs /\ c \in iridium_command_t /\ msg[t].call \in Nat
    BY LinkAssumption DEF Procs, TypeOK, Message
  <2>2. m \in Message /\ m.task = t /\ m.call = msg[t].call + 1
    BY <2>1 DEF Message, TypeOK
  <2>3. msg' = [msg EXCEPT ![t] = m] /\ ~Carries(t)
        /\ \A q \in Procs \ {t} : Carries(q)' => Carries(q)
    BY <1>1, <2>1 DEF Call, Carries, TypeOK
  <2>4. UNCHANGED <<written, buffer_queue, dropped>>
    BY <1>1 DEF Call
  <2> HIDE DEF m
  <2> QED  BY <2>2, <2>3, <2>4, NewInHand
<1>2. ASSUME NEW t \in Tasks, IridiumSend(t) PROVE OnceInv'
  BY <1>2, IridiumSendKeepsOnce
<1>3. ASSUME NEW p \in Procs, SendRaw(p) PROVE OnceInv'
  BY <1>3, SendRawKeepsOnce
<1>4. CASE BufferPoll
  <2>1. \A q \in Procs : Carries(q)' => Carries(q)
    BY <1>4 DEF BufferPoll, Carries, TypeOK, Procs
  <2> QED  BY <1>4, <2>1, Unmoved DEF BufferPoll, Same
<1>5. CASE BufferReceive
  <2>1. CASE buffer_queue = <<>>
    <3>1. \A q \in Procs : Carries(q)' => Carries(q)
      BY <1>5, <2>1 DEF BufferReceive, Carries, TypeOK, Procs
    <3> QED  BY <1>5, <2>1, <3>1, Unmoved DEF BufferReceive, Same
  <2>2. CASE buffer_queue # <<>>
    <3>1. /\ ~Carries(BufferTask)
          /\ \A q \in Procs \ {BufferTask} : Carries(q)' => Carries(q)
      BY <1>5, <2>2 DEF BufferReceive, Carries, TypeOK, Procs
    <3> QED  BY <1>5, <2>2, <3>1, LinkAssumption, MovedToHand DEF BufferReceive
  <2> QED  BY <2>1, <2>2
<1>6. CASE ModemReply \/ uart_satcom_task \/ UNCHANGED vars
  <2>1. UNCHANGED <<written, buffer_queue, dropped, pc, msg>>
    BY <1>6 DEF ModemReply, uart_satcom_task, UartReceive, UartCopied,
                UpdateIqsOpen, vars
  <2> QED  BY <2>1, Unmoved DEF Carries, Same
<1> QED
  BY <1>1, <1>2, <1>3, <1>4, <1>5, <1>6
     DEF Next, Calls, TaskStep, buffer_satcom_task, Procs

\* No request has been issued at the start.
LEMMA OnceInit == Init => OnceInv
<1> SUFFICES ASSUME Init PROVE OnceInv
  OBVIOUS
<1>1. Len(written) = 0 /\ Len(buffer_queue) = 0 /\ dropped = {}
  BY DEF Init
<1>2. \A p \in Procs : ~Carries(p)
  BY DEF Init, Carries
<1>3. \A t \in Tasks : msg[t].task = t
  BY DEF Init, Unset, Procs
<1>4. AtMostOnce
  BY <1>1, <1>2 DEF AtMostOnce
<1>5. IssuedInv
  BY <1>1, <1>2, <1>3 DEF IssuedInv
<1> QED  BY <1>4, <1>5 DEF OnceInv

(***************************************************************************)
(* Iridium charges per session, and no request is written twice: however   *)
(* many tasks call iridium_send at once, whatever buffer_satcom_task does  *)
(* with the parked requests, and whether or not the modem answers.         *)
(***************************************************************************)
THEOREM NoRequestTwice == Spec => []AtMostOnce
<1>1. Init => OnceInv
  BY OnceInit
<1>2. TypeOK /\ OnceInv /\ [Next]_vars => OnceInv'
  BY OnceStep
<1>3. OnceInv => AtMostOnce
  BY DEF OnceInv
<1> QED  BY <1>1, <1>2, <1>3, TypeCorrect, PTL DEF Spec
-----------------------------------------------------------------------------
HasPlace(t, k) == Carried(t, k) \/ Parked(t, k) \/ Written(t, k) \/ Dropped(t, k)

OwnCommand == \A t \in Tasks : msg[t].call > 0 => msg[t].command \in Commands[t]

KeptInv == NothingForgotten /\ OwnCommand

\* A step in which at most p lets go of a request.
OnlyLetsGo(p) == msg' = msg /\ \A q \in Procs \ {p} : Carries(q) => Carries(q)'

\* To the UART, to the end of buffer_queue, to the refused ones.
LEMMA KeptOnWire ==
  ASSUME TypeOK, NEW p \in Procs, OnlyLetsGo(p), written' = Append(written, msg[p]),
         UNCHANGED <<buffer_queue, dropped>>, NEW t, NEW k, HasPlace(t, k)
  PROVE  HasPlace(t, k)'
<1>1. /\ Len(written') = Len(written) + 1
      /\ written'[Len(written) + 1] = msg[p]
      /\ \A i \in 1 .. Len(written) : written'[i] = written[i]
      /\ Len(written) \in Nat
  BY AppendProperties DEF TypeOK
<1>2. CASE Carried(t, k)
  BY <1>1, <1>2 DEF Carried, OnlyLetsGo, Written, HasPlace
<1>3. CASE Written(t, k)
  BY <1>1, <1>3 DEF Written, HasPlace
<1> QED BY <1>2, <1>3 DEF HasPlace, Parked, Dropped

\* To the end of buffer_queue: Enqueue.
LEMMA KeptInQueue ==
  ASSUME TypeOK, NEW p \in Procs, OnlyLetsGo(p),
         buffer_queue' = Append(buffer_queue, msg[p]),
         UNCHANGED <<written, dropped>>, NEW t, NEW k, HasPlace(t, k)
  PROVE  HasPlace(t, k)'
<1>1. /\ Len(buffer_queue') = Len(buffer_queue) + 1
      /\ buffer_queue'[Len(buffer_queue) + 1] = msg[p]
      /\ \A i \in 1 .. Len(buffer_queue) : buffer_queue'[i] = buffer_queue[i]
      /\ Len(buffer_queue) \in Nat
  BY AppendProperties DEF TypeOK
<1>2. CASE Carried(t, k)
  BY <1>1, <1>2 DEF Carried, OnlyLetsGo, Parked, HasPlace
<1>3. CASE Parked(t, k)
  BY <1>1, <1>3 DEF Parked, HasPlace
<1> QED BY <1>2, <1>3 DEF HasPlace, Written, Dropped

\* To the requests a full buffer_queue refused: EnqueueTimeout.
LEMMA KeptAsDropped ==
  ASSUME NEW p \in Procs, OnlyLetsGo(p), dropped' = dropped \cup {msg[p]},
         UNCHANGED <<written, buffer_queue>>, NEW t, NEW k, HasPlace(t, k)
  PROVE  HasPlace(t, k)'
BY DEF HasPlace, Carried, OnlyLetsGo, Dropped, Written, Parked

\* From the front of buffer_queue to the hand of buffer_satcom_task.
LEMMA KeptInHand ==
  ASSUME TypeOK, buffer_queue # <<>>, buffer_queue' = Tail(buffer_queue),
         msg' = [msg EXCEPT ![BufferTask] = Head(buffer_queue)],
         ~Carries(BufferTask), Carries(BufferTask)',
         \A q \in Procs \ {BufferTask} : Carries(q) => Carries(q)',
         UNCHANGED <<written, dropped>>, NEW t, NEW k, HasPlace(t, k)
  PROVE  HasPlace(t, k)'
<1>1. /\ Len(buffer_queue') = Len(buffer_queue) - 1
      /\ \A i \in 1 .. Len(buffer_queue') : buffer_queue'[i] = buffer_queue[i + 1]
      /\ Len(buffer_queue) \in Nat \ {0}
  BY HeadTailProperties DEF TypeOK
<1>2. /\ BufferTask \in Procs /\ msg'[BufferTask] = buffer_queue[1]
      /\ \A q \in Procs \ {BufferTask} : msg'[q] = msg[q]
  BY <1>1, HeadTailProperties DEF TypeOK, Procs
<1>3. CASE Carried(t, k)
  BY <1>2, <1>3 DEF Carried, HasPlace
<1>4. CASE Parked(t, k)
  <2>1. PICK i \in 1 .. Len(buffer_queue) :
          buffer_queue[i].task = t /\ buffer_queue[i].call = k
    BY <1>4 DEF Parked
  <2>2. CASE i = 1
    BY <1>2, <2>1, <2>2 DEF Carried, HasPlace
  <2>3. CASE i # 1
    <3>1. i - 1 \in 1 .. Len(buffer_queue') /\ buffer_queue'[i - 1] = buffer_queue[i]
      BY <1>1, <2>1, <2>3
    <3> QED BY <2>1, <3>1 DEF Parked, HasPlace
  <2> QED BY <2>2, <2>3
<1> QED BY <1>3, <1>4 DEF HasPlace, Written, Dropped

\* A step in which every request stays where it is.
LEMMA KeptInPlace ==
  ASSUME UNCHANGED <<written, buffer_queue, dropped>>,
         \A q \in Procs : Carries(q) => Carries(q)' /\ Same(msg'[q], msg[q]),
         NEW t, NEW k, HasPlace(t, k)
  PROVE  HasPlace(t, k)'
BY DEF HasPlace, Carried, Same, Parked, Written, Dropped

\* What is left to see of a step other than Call and NonceReread.
LEMMA PlacesSuffice ==
  ASSUME KeptInv, \A t, k : HasPlace(t, k) => HasPlace(t, k)',
         \A t \in Tasks : Same(msg'[t], msg[t]) /\ msg'[t].command = msg[t].command
  PROVE  KeptInv'
BY DEF KeptInv, NothingForgotten, OwnCommand, HasPlace, Same

-----------------------------------------------------------------------------
\* The steps of iridium_send_raw, of any process.
LEMMA SendRawKeeps ==
  ASSUME TypeOK, KeptInv, NEW p \in Procs, SendRaw(p)
  PROVE  KeptInv'
<1> USE DEF Goto, satcom, modem, uart
<1>1. msg' = msg
  BY DEF SendRaw, CheckStatus, Enqueue, EnqueueTimeout, WriteBytes, UpdateIqsWaiting,
         UpdatePNonce
<1>2. CASE CheckStatus(p) \/ UpdateIqsWaiting(p) \/ UpdatePNonce(p)
  <2>1. \A q \in Procs : Carries(q) => Carries(q)'
    BY <1>2 DEF CheckStatus, UpdateIqsWaiting, UpdatePNonce, Carries, TypeOK
  <2>2. UNCHANGED <<written, buffer_queue, dropped>>
    BY <1>2 DEF CheckStatus, UpdateIqsWaiting, UpdatePNonce
  <2>3. \A t, k : HasPlace(t, k) => HasPlace(t, k)'
    BY <1>1, <2>1, <2>2, KeptInPlace DEF Same
  <2> QED BY <1>1, <2>3, PlacesSuffice DEF Same
<1>3. CASE Enqueue(p) \/ EnqueueTimeout(p) \/ WriteBytes(p)
  <2>1. OnlyLetsGo(p)
    BY <1>1, <1>3 DEF Enqueue, EnqueueTimeout, WriteBytes, OnlyLetsGo, Carries, TypeOK
  <2>2. \A t, k : HasPlace(t, k) => HasPlace(t, k)'
    <3>1. CASE Enqueue(p)
      BY <2>1, <3>1, KeptInQueue DEF Enqueue
    <3>2. CASE EnqueueTimeout(p)
      BY <2>1, <3>2, KeptAsDropped DEF EnqueueTimeout
    <3>3. CASE WriteBytes(p)
      BY <2>1, <3>3, KeptOnWire DEF WriteBytes
    <3> QED BY <1>3, <3>1, <3>2, <3>3
  <2> QED BY <1>1, <2>2, PlacesSuffice DEF Same
<1> QED BY <1>2, <1>3 DEF SendRaw

\* The steps of iridium_send behind Call.
LEMMA IridiumSendKeeps ==
  ASSUME TypeOK, OnceInv, KeptInv, NEW t \in Tasks, IridiumSend(t)
  PROVE  KeptInv'
<1> USE DEF Goto, satcom, modem, uart
<1>1. t \in Procs /\ msg[t] \in Message /\ msg[t].task = t
  BY DEF Procs, TypeOK, OnceInv, IssuedInv
<1>2. UNCHANGED <<written, buffer_queue, dropped>>
  BY DEF IridiumSend, NonceStore, NonceReread, WaitTest, WaitPoll, CopyResult
<1>3. /\ \A q \in Procs : Same(msg'[q], msg[q]) /\ msg'[q].command = msg[q].command
  <2>1. CASE NonceStore(t) \/ NonceReread(t)
    <3>1. PICK n : msg' = [msg EXCEPT ![t] = [@ EXCEPT !.nonce = n]]
      BY <2>1 DEF NonceStore, NonceReread
    <3> QED BY <1>1, <3>1, Renumbered DEF TypeOK, Same, Message
  <2>2. CASE WaitTest(t) \/ WaitPoll(t) \/ CopyResult(t)
    BY <2>2 DEF WaitTest, WaitPoll, CopyResult, Same
  <2> QED BY <2>1, <2>2 DEF IridiumSend
<1>4. CASE NonceReread(t) /\ msg[t].command \in HasNoCase
  <2>1. \A q \in Procs \ {t} : Carries(q) => Carries(q)'
    BY <1>4 DEF NonceReread, Carries, TypeOK
  <2>2. ASSUME NEW u \in Tasks, u # t, NEW k, HasPlace(u, k)
        PROVE  HasPlace(u, k)'
    <3>1. CASE Carried(u, k)
      <4>1. PICK p \in Procs : Carries(p) /\ msg[p].task = u /\ msg[p].call = k
        BY <3>1 DEF Carried
      <4>2. p # t
        BY <1>1, <2>2, <4>1
      <4> QED BY <1>3, <2>1, <4>1, <4>2 DEF Carried, HasPlace, Same
    <3> QED BY <1>2, <2>2, <3>1 DEF HasPlace, Parked, Written, Dropped
  <2>3. msg[t].call > 0 => Commands[t] \cap HasNoCase # {}
    BY <1>4 DEF KeptInv, OwnCommand
  <2>4. \A u \in Tasks : msg'[u].call = msg[u].call /\ msg'[u].command = msg[u].command
    BY <1>3 DEF Procs, Same
  <2>5. NothingForgotten'
    <3> SUFFICES ASSUME NEW u \in Tasks, Commands[u] \cap HasNoCase = {},
                        NEW k \in 1 .. msg'[u].call
                 PROVE  HasPlace(u, k)'
      BY DEF NothingForgotten, HasPlace
    <3>1. k \in 1 .. msg[u].call /\ msg[u].call \in Nat
      BY <2>4 DEF TypeOK, Procs, Message
    <3>2. u # t
      BY <2>3, <3>1
    <3>3. HasPlace(u, k)
      BY <3>1 DEF KeptInv, NothingForgotten, HasPlace
    <3> QED BY <2>2, <3>2, <3>3
  <2>6. OwnCommand'
    BY <2>4 DEF KeptInv, OwnCommand
  <2> QED BY <2>5, <2>6 DEF KeptInv
<1>5. CASE ~(NonceReread(t) /\ msg[t].command \in HasNoCase)
  <2>1. \A q \in Procs : Carries(q) => Carries(q)'
    BY <1>1, <1>5 DEF IridiumSend, NonceStore, NonceReread, WaitTest, WaitPoll, CopyResult,
                      Carries, TypeOK
  <2>2. \A u, k : HasPlace(u, k) => HasPlace(u, k)'
    BY <1>2, <1>3, <2>1, KeptInPlace
  <2> QED BY <1>3, <2>2, PlacesSuffice DEF Procs
<1> QED BY <1>4, <1>5

\* A new request is in the hand of its caller.
LEMMA CallKeeps ==
  ASSUME TypeOK, OnceInv, KeptInv, NEW t \in Tasks, NEW c \in Commands[t],
         NEW w \in WaitFlags, Call(t, c, w)
  PROVE  KeptInv'
<1> USE DEF Goto, satcom, modem, uart
<1>1. t \in Procs /\ c \in iridium_command_t /\ msg[t].call \in Nat
  BY LinkAssumption DEF Procs, TypeOK, Message
<1>2. /\ msg'[t].task = t /\ msg'[t].call = msg[t].call + 1 /\ msg'[t].command = c
      /\ \A q \in Procs \ {t} : msg'[q] = msg[q]
  BY <1>1 DEF Call, TypeOK
<1>3. /\ ~Carries(t) /\ Carries(t)'
      /\ \A q \in Procs \ {t} : Carries(q) => Carries(q)'
  BY <1>1 DEF Call, Carries, TypeOK
<1>4. UNCHANGED <<written, buffer_queue, dropped>>
  BY DEF Call
<1>5. ASSUME NEW u \in Tasks, NEW k, HasPlace(u, k)
      PROVE  HasPlace(u, k)'
  BY <1>2, <1>3, <1>4, <1>5 DEF HasPlace, Carried, Parked, Written, Dropped
<1>6. ASSUME NEW k, k = msg[t].call + 1
      PROVE  HasPlace(t, k)'
  BY <1>6, <1>1, <1>2, <1>3 DEF HasPlace, Carried
<1>7. NothingForgotten'
  <2> SUFFICES ASSUME NEW u \in Tasks, Commands[u] \cap HasNoCase = {},
                      NEW k \in 1 .. msg'[u].call
               PROVE  HasPlace(u, k)'
    BY DEF NothingForgotten, HasPlace
  <2>1. CASE u = t /\ k = msg[t].call + 1
    BY <1>6, <2>1
  <2>2. CASE ~(u = t /\ k = msg[t].call + 1)
    <3>1. k \in 1 .. msg[u].call
      BY <1>1, <1>2, <2>2 DEF Procs
    <3>2. HasPlace(u, k)
      BY <3>1 DEF KeptInv, NothingForgotten, HasPlace
    <3> QED BY <1>5, <3>2
  <2> QED BY <2>1, <2>2
<1>8. OwnCommand'
  BY <1>2 DEF KeptInv, OwnCommand, Procs
<1> QED BY <1>7, <1>8 DEF KeptInv

\* Every step of the tasks and of the modem keeps KeptInv.
LEMMA KeptStep ==
  ASSUME TypeOK, OnceInv, KeptInv, [Next]_vars
  PROVE  KeptInv'
<1> USE DEF Goto, satcom, locals, modem, uart
<1>1. ASSUME NEW t \in Tasks, NEW c \in Commands[t], NEW w \in WaitFlags, Call(t, c, w)
      PROVE  KeptInv'
  BY <1>1, CallKeeps
<1>2. ASSUME NEW t \in Tasks, IridiumSend(t) PROVE KeptInv'
  BY <1>2, IridiumSendKeeps
<1>3. ASSUME NEW p \in Procs, SendRaw(p) PROVE KeptInv'
  BY <1>3, SendRawKeeps
<1>4. CASE BufferPoll \/ BufferReceive
  <2>1. \A t \in Tasks : msg'[t] = msg[t]
    BY <1>4, LinkAssumption DEF BufferPoll, BufferReceive, TypeOK, Procs
  <2>2. \A t, k : HasPlace(t, k) => HasPlace(t, k)'
    <3>1. CASE BufferReceive /\ buffer_queue # <<>>
      <4>1. /\ ~Carries(BufferTask) /\ Carries(BufferTask)'
            /\ \A q \in Procs \ {BufferTask} : Carries(q) => Carries(q)'
        BY <3>1 DEF BufferReceive, Carries, TypeOK, Procs
      <4> QED BY <3>1, <4>1, KeptInHand DEF BufferReceive
    <3>2. CASE BufferPoll \/ (BufferReceive /\ buffer_queue = <<>>)
      <4>1. UNCHANGED <<written, buffer_queue, dropped, msg>>
        BY <3>2 DEF BufferPoll, BufferReceive
      <4>2. \A q \in Procs : Carries(q) => Carries(q)'
        BY <3>2 DEF BufferPoll, BufferReceive, Carries, TypeOK, Procs
      <4> QED BY <4>1, <4>2, KeptInPlace DEF Same
    <3> QED BY <1>4, <3>1, <3>2
  <2> QED BY <2>1, <2>2, PlacesSuffice DEF Same
<1>5. CASE ModemReply \/ uart_satcom_task \/ UNCHANGED vars
  <2>1. UNCHANGED <<written, buffer_queue, dropped, pc, msg>>
    BY <1>5 DEF ModemReply, uart_satcom_task, UartReceive, UartCopied, UpdateIqsOpen, vars
  <2>2. \A t, k : HasPlace(t, k) => HasPlace(t, k)'
    BY <2>1, KeptInPlace DEF Same, Carries
  <2> QED BY <2>1, <2>2, PlacesSuffice DEF Same
<1> QED
  BY <1>1, <1>2, <1>3, <1>4, <1>5
     DEF Next, Calls, TaskStep, buffer_satcom_task, Procs

(***************************************************************************)
(* However the tasks, buffer_satcom_task and the modem interleave, what    *)
(* iridium_send was asked to send is in a hand, in buffer_queue, on the    *)
(* UART, or was refused by a full buffer_queue (209-227, 583-594).         *)
(***************************************************************************)
THEOREM NoRequestForgotten == Spec => []NothingForgotten
<1>1. Init => OnceInv
  BY OnceInit
<1>2. Init => KeptInv
  <2> SUFFICES ASSUME Init PROVE KeptInv
    OBVIOUS
  <2>1. \A t \in Tasks : msg[t].call = 0
    BY DEF Init, Unset, Procs
  <2> QED BY <2>1 DEF KeptInv, NothingForgotten, OwnCommand
<1>3. TypeOK /\ OnceInv /\ [Next]_vars => OnceInv'
  BY OnceStep
<1>4. TypeOK /\ OnceInv /\ KeptInv /\ [Next]_vars => KeptInv'
  BY KeptStep
<1>5. KeptInv => NothingForgotten
  BY DEF KeptInv
<1> QED BY <1>1, <1>2, <1>3, <1>4, <1>5, TypeCorrect, PTL DEF Spec
-----------------------------------------------------------------------------
(***************************************************************************)
(* The channel implements RequestLedger: a step moves a request out of     *)
(* Open, puts a new one in, or leaves Open, the UART and the refused ones  *)
(* alone.                                                                  *)
(***************************************************************************)
Out(m) == Open' = Open \ {Request(m)}

\* A task that has not called is in no call.
Begun == \A t \in Tasks : pc[t] # "idle" => msg[t].call > 0

\* What is open is in a hand or in buffer_queue.
LEMMA OpenIs ==
  ASSUME TypeOK, NEW r
  PROVE  r \in Open <=> \/ \E q \in Procs : Carries(q) /\ r = Request(msg[q])
                        \/ \E i \in 1 .. Len(buffer_queue) : r = Request(buffer_queue[i])
<1>1. DOMAIN buffer_queue = 1 .. Len(buffer_queue)
  BY DEF TypeOK
<1> QED BY <1>1 DEF Open

\* Requests are the same when task and number are.
LEMMA RequestIs == \A m, n : Request(m) = Request(n) <=> Same(m, n)
BY DEF Request, Same

\* Where nothing moves, Open stays.
LEMMA OpenStays ==
  ASSUME TypeOK, UNCHANGED buffer_queue,
         \A q \in Procs : (Carries(q)' <=> Carries(q)) /\ Same(msg'[q], msg[q])
  PROVE  UNCHANGED Open
<1>1. \A q \in Procs : Request(msg'[q]) = Request(msg[q])
  BY RequestIs
<1>2. \A r : r \in Open <=> \/ \E q \in Procs : Carries(q) /\ r = Request(msg[q])
                            \/ \E i \in 1 .. Len(buffer_queue) : r = Request(buffer_queue[i])
  BY OpenIs
<1>3. \A r : r \in Open' <=>
               \/ \E q \in Procs : Carries(q)' /\ r = Request(msg'[q])
               \/ \E i \in 1 .. Len(buffer_queue') : r = Request(buffer_queue'[i])
  <2>1. DOMAIN buffer_queue' = 1 .. Len(buffer_queue')
    BY DEF TypeOK
  <2> QED BY <2>1 DEF Open, Request
<1>4. \A r : r \in Open' <=> r \in Open
  BY <1>1, <1>2, <1>3
<1> QED BY <1>4

\* Where one hand lets go of its request, that one is out.
LEMMA OpenLoses ==
  ASSUME TypeOK, OnceInv, NEW p \in Procs, Carries(p), ~Carries(p)',
         \A q \in Procs \ {p} : Carries(q)' <=> Carries(q),
         \A q \in Procs : Same(msg'[q], msg[q]), UNCHANGED buffer_queue
  PROVE  Out(msg[p]) /\ Request(msg[p]) \in Open
<1>1. \A q \in Procs : Request(msg'[q]) = Request(msg[q])
  BY RequestIs
<1>2. DOMAIN buffer_queue = 1 .. Len(buffer_queue)
  BY DEF TypeOK
<1>3. \A q \in Procs : Carries(q) /\ q # p => Request(msg[q]) # Request(msg[p])
  BY RequestIs DEF OnceInv, AtMostOnce
<1>4. \A i \in 1 .. Len(buffer_queue) : Request(buffer_queue[i]) # Request(msg[p])
  BY RequestIs DEF OnceInv, AtMostOnce
<1>5. \A r : r \in Open <=> \/ \E q \in Procs : Carries(q) /\ r = Request(msg[q])
                            \/ \E i \in 1 .. Len(buffer_queue) : r = Request(buffer_queue[i])
  BY OpenIs
<1>6. \A r : r \in Open' <=>
               \/ \E q \in Procs : Carries(q)' /\ r = Request(msg'[q])
               \/ \E i \in 1 .. Len(buffer_queue) : r = Request(buffer_queue[i])
  BY <1>2 DEF Open, Request
<1>7. \A r : r \in Open' <=> r \in Open /\ r # Request(msg[p])
  <2> SUFFICES ASSUME NEW r PROVE r \in Open' <=> r \in Open /\ r # Request(msg[p])
    OBVIOUS
  <2>1. (\E q \in Procs : Carries(q)' /\ r = Request(msg'[q]))
          <=> (\E q \in Procs : Carries(q) /\ q # p /\ r = Request(msg[q]))
    BY <1>1
  <2>2. (\E q \in Procs : Carries(q) /\ r = Request(msg[q])) /\ r # Request(msg[p])
          <=> (\E q \in Procs : Carries(q) /\ q # p /\ r = Request(msg[q]))
    BY <1>3
  <2> QED BY <1>4, <1>5, <1>6, <2>1, <2>2
<1> QED BY <1>5, <1>7 DEF Out

\* From a hand to the end of buffer_queue: still open.
LEMMA OpenParks ==
  ASSUME TypeOK, NEW p \in Procs, Carries(p), ~Carries(p)', msg' = msg,
         \A q \in Procs \ {p} : Carries(q)' <=> Carries(q),
         buffer_queue' = Append(buffer_queue, msg[p])
  PROVE  UNCHANGED Open
<1>1. /\ Len(buffer_queue') = Len(buffer_queue) + 1
      /\ buffer_queue'[Len(buffer_queue) + 1] = msg[p]
      /\ \A i \in 1 .. Len(buffer_queue) : buffer_queue'[i] = buffer_queue[i]
      /\ Len(buffer_queue) \in Nat
      /\ DOMAIN buffer_queue' = 1 .. Len(buffer_queue')
  BY AppendProperties DEF TypeOK
<1>2. \A r : r \in Open' <=>
               \/ \E q \in Procs : Carries(q)' /\ r = Request(msg[q])
               \/ \E i \in 1 .. Len(buffer_queue') : r = Request(buffer_queue'[i])
  BY <1>1 DEF Open, Request
<1>3. \A r : (\E i \in 1 .. Len(buffer_queue') : r = Request(buffer_queue'[i]))
               <=> \/ \E i \in 1 .. Len(buffer_queue) : r = Request(buffer_queue[i])
                   \/ r = Request(msg[p])
  <2>1. \A i \in 1 .. Len(buffer_queue') :
          i \in 1 .. Len(buffer_queue) \/ i = Len(buffer_queue) + 1
    BY <1>1
  <2>2. \A i \in 1 .. Len(buffer_queue) : i \in 1 .. Len(buffer_queue')
    BY <1>1
  <2>3. Len(buffer_queue) + 1 \in 1 .. Len(buffer_queue')
    BY <1>1
  <2> QED BY <1>1, <2>1, <2>2, <2>3 DEF Request
<1>4. \A r : (\E q \in Procs : Carries(q) /\ r = Request(msg[q]))
               <=> \/ \E q \in Procs : Carries(q)' /\ r = Request(msg[q])
                   \/ r = Request(msg[p])
  OBVIOUS
<1>5. \A r : r \in Open <=> \/ \E q \in Procs : Carries(q) /\ r = Request(msg[q])
                            \/ \E i \in 1 .. Len(buffer_queue) : r = Request(buffer_queue[i])
  BY OpenIs
<1>6. \A r : r \in Open' <=> r \in Open
  <2> SUFFICES ASSUME NEW r PROVE r \in Open' <=> r \in Open
    OBVIOUS
  <2> DEFINE Hand == \E q \in Procs : Carries(q) /\ r = Request(msg[q])
             NextHand == \E q \in Procs : Carries(q)' /\ r = Request(msg[q])
             Queued == \E i \in 1 .. Len(buffer_queue) : r = Request(buffer_queue[i])
             NextQueued == \E i \in 1 .. Len(buffer_queue') : r = Request(buffer_queue'[i])
  <2>1. r \in Open' <=> NextHand \/ NextQueued
    BY <1>2
  <2>2. NextQueued <=> Queued \/ r = Request(msg[p])
    BY <1>3
  <2>3. Hand <=> NextHand \/ r = Request(msg[p])
    BY <1>4
  <2>4. r \in Open <=> Hand \/ Queued
    BY <1>5
  <2> HIDE DEF Hand, NextHand, Queued, NextQueued
  <2> QED BY <2>1, <2>2, <2>3, <2>4
<1> QED BY <1>6

\* From the front of buffer_queue to the hand of buffer_satcom_task.
LEMMA OpenTakes ==
  ASSUME TypeOK, buffer_queue # <<>>, buffer_queue' = Tail(buffer_queue),
         msg' = [msg EXCEPT ![BufferTask] = Head(buffer_queue)],
         ~Carries(BufferTask), Carries(BufferTask)',
         \A q \in Procs \ {BufferTask} : Carries(q)' <=> Carries(q)
  PROVE  UNCHANGED Open
<1>1. /\ Len(buffer_queue') = Len(buffer_queue) - 1
      /\ \A i \in 1 .. Len(buffer_queue') : buffer_queue'[i] = buffer_queue[i + 1]
      /\ Len(buffer_queue) \in Nat \ {0}
      /\ DOMAIN buffer_queue' = 1 .. Len(buffer_queue')
  BY HeadTailProperties DEF TypeOK
<1>2. /\ BufferTask \in Procs /\ msg'[BufferTask] = buffer_queue[1]
      /\ \A q \in Procs \ {BufferTask} : msg'[q] = msg[q]
  BY <1>1, HeadTailProperties DEF TypeOK, Procs
<1>3. \A r : r \in Open' <=>
               \/ \E q \in Procs : Carries(q)' /\ r = Request(msg'[q])
               \/ \E i \in 1 .. Len(buffer_queue') : r = Request(buffer_queue'[i])
  BY <1>1 DEF Open, Request
<1>4. \A r : (\E i \in 1 .. Len(buffer_queue) : r = Request(buffer_queue[i]))
               <=> \/ \E i \in 1 .. Len(buffer_queue') : r = Request(buffer_queue'[i])
                   \/ r = Request(buffer_queue[1])
  <2>1. \A i \in 1 .. Len(buffer_queue) :
          i = 1 \/ (i - 1 \in 1 .. Len(buffer_queue') /\ buffer_queue'[i - 1] = buffer_queue[i])
    BY <1>1
  <2>2. \A i \in 1 .. Len(buffer_queue') : i + 1 \in 1 .. Len(buffer_queue)
    BY <1>1
  <2>3. 1 \in 1 .. Len(buffer_queue)
    BY <1>1
  <2> SUFFICES ASSUME NEW r
               PROVE  (\E i \in 1 .. Len(buffer_queue) : r = Request(buffer_queue[i]))
                        <=> \/ \E i \in 1 .. Len(buffer_queue') : r = Request(buffer_queue'[i])
                            \/ r = Request(buffer_queue[1])
    OBVIOUS
  <2>4. ASSUME NEW i \in 1 .. Len(buffer_queue), r = Request(buffer_queue[i])
        PROVE  \/ \E j \in 1 .. Len(buffer_queue') : r = Request(buffer_queue'[j])
               \/ r = Request(buffer_queue[1])
    BY <2>1, <2>4
  <2>5. ASSUME NEW i \in 1 .. Len(buffer_queue'), r = Request(buffer_queue'[i])
        PROVE  \E j \in 1 .. Len(buffer_queue) : r = Request(buffer_queue[j])
    BY <1>1, <2>2, <2>5
  <2> QED BY <2>3, <2>4, <2>5
<1>5. \A r : (\E q \in Procs : Carries(q)' /\ r = Request(msg'[q]))
               <=> \/ \E q \in Procs : Carries(q) /\ r = Request(msg[q])
                   \/ r = Request(buffer_queue[1])
  BY <1>2 DEF Request
<1>6. \A r : r \in Open <=> \/ \E q \in Procs : Carries(q) /\ r = Request(msg[q])
                            \/ \E i \in 1 .. Len(buffer_queue) : r = Request(buffer_queue[i])
  BY OpenIs
<1>7. \A r : r \in Open' <=> r \in Open
  <2> SUFFICES ASSUME NEW r PROVE r \in Open' <=> r \in Open
    OBVIOUS
  <2> DEFINE Hand == \E q \in Procs : Carries(q) /\ r = Request(msg[q])
             NextHand == \E q \in Procs : Carries(q)' /\ r = Request(msg'[q])
             Queued == \E i \in 1 .. Len(buffer_queue) : r = Request(buffer_queue[i])
             NextQueued == \E i \in 1 .. Len(buffer_queue') : r = Request(buffer_queue'[i])
  <2>1. r \in Open' <=> NextHand \/ NextQueued
    BY <1>3
  <2>2. Queued <=> NextQueued \/ r = Request(buffer_queue[1])
    BY <1>4
  <2>3. NextHand <=> Hand \/ r = Request(buffer_queue[1])
    BY <1>5
  <2>4. r \in Open <=> Hand \/ Queued
    BY <1>6
  <2> HIDE DEF Hand, NextHand, Queued, NextQueued
  <2> QED BY <2>1, <2>2, <2>3, <2>4
<1> QED BY <1>7

\* A new request is open.
LEMMA OpenGains ==
  ASSUME TypeOK, NEW p \in Procs, ~Carries(p), Carries(p)', UNCHANGED buffer_queue,
         \A q \in Procs \ {p} : (Carries(q)' <=> Carries(q)) /\ msg'[q] = msg[q]
  PROVE  Open' = Open \cup {Request(msg'[p])}
<1>1. DOMAIN buffer_queue = 1 .. Len(buffer_queue)
  BY DEF TypeOK
<1>2. \A r : r \in Open' <=>
               \/ \E q \in Procs : Carries(q)' /\ r = Request(msg'[q])
               \/ \E i \in 1 .. Len(buffer_queue) : r = Request(buffer_queue[i])
  BY <1>1 DEF Open, Request
<1>3. \A r : (\E q \in Procs : Carries(q)' /\ r = Request(msg'[q]))
               <=> \/ \E q \in Procs : Carries(q) /\ r = Request(msg[q])
                   \/ r = Request(msg'[p])
  BY DEF Request
<1>4. \A r : r \in Open' <=> r \in Open \/ r = Request(msg'[p])
  BY <1>2, <1>3, OpenIs
<1> QED BY <1>4

\* A request more on the UART is one more in the ledger.
LEMMA SentGrows ==
  ASSUME NEW s \in Seq(Message), NEW m \in Message
  PROVE  LET n == Append(s, m) IN
         [i \in DOMAIN n |-> Request(n[i])]
           = Append([i \in DOMAIN s |-> Request(s[i])], Request(m))
<1> DEFINE n == Append(s, m)
           R == {Request(x) : x \in Message}
           a == [i \in DOMAIN n |-> Request(n[i])]
           b == [i \in DOMAIN s |-> Request(s[i])]
<1>1. /\ n \in Seq(Message) /\ Len(n) = Len(s) + 1 /\ n[Len(s) + 1] = m
      /\ \A i \in 1 .. Len(s) : n[i] = s[i]
      /\ DOMAIN n = 1 .. Len(n) /\ DOMAIN s = 1 .. Len(s) /\ Len(s) \in Nat
      /\ \A i \in 1 .. Len(n) : n[i] \in Message
      /\ \A i \in 1 .. Len(s) : s[i] \in Message
  BY AppendProperties
<1> HIDE DEF n
<1>2. a \in Seq(R) /\ Len(a) = Len(s) + 1 /\ \A i \in 1 .. Len(s) + 1 : a[i] = Request(n[i])
  <2>1. a \in [1 .. Len(s) + 1 -> R]
    BY <1>1
  <2>2. Len(s) + 1 \in Nat
    BY <1>1
  <2> QED BY <1>1, <2>1, <2>2
<1>3. b \in Seq(R) /\ Len(b) = Len(s) /\ \A i \in 1 .. Len(s) : b[i] = Request(s[i])
  <2>1. b \in [1 .. Len(s) -> R]
    BY <1>1
  <2> QED BY <1>1, <2>1
<1>4. Request(m) \in R
  OBVIOUS
<1> HIDE DEF a, b, R
<1>5. /\ Append(b, Request(m)) \in Seq(R) /\ Len(Append(b, Request(m))) = Len(s) + 1
      /\ \A i \in 1 .. Len(s) : Append(b, Request(m))[i] = b[i]
      /\ Append(b, Request(m))[Len(s) + 1] = Request(m)
  BY <1>3, <1>4, AppendProperties
<1>6. \A i \in 1 .. Len(a) : a[i] = Append(b, Request(m))[i]
  <2> SUFFICES ASSUME NEW i \in 1 .. Len(a) PROVE a[i] = Append(b, Request(m))[i]
    OBVIOUS
  <2>1. i \in 1 .. Len(s) \/ i = Len(s) + 1
    BY <1>1, <1>2
  <2>2. i \in 1 .. Len(s) + 1 /\ a[i] = Request(n[i])
    BY <1>1, <1>2
  <2> QED BY <1>1, <1>3, <1>5, <2>1, <2>2
<1>7. a = Append(b, Request(m))
  BY <1>2, <1>5, <1>6, SeqEqual
<1> QED BY <1>7 DEF a, b, n

\* The steps of iridium_send_raw.
LEMMA SendRawIsLedgerStep ==
  ASSUME TypeOK, OnceInv, NEW p \in Procs, SendRaw(p)
  PROVE  [Ledger!Next]_(Ledger!vars)
<1> USE DEF Goto, satcom, modem, uart
<1>1. /\ msg' = msg /\ msg[p] \in Message /\ \A q \in Procs : Same(msg'[q], msg[q])
      /\ [t \in Tasks |-> msg'[t].call] = [t \in Tasks |-> msg[t].call]
  BY DEF SendRaw, CheckStatus, Enqueue, EnqueueTimeout, WriteBytes, UpdateIqsWaiting,
         UpdatePNonce, TypeOK, Same
<1>2. CASE CheckStatus(p) \/ UpdateIqsWaiting(p) \/ UpdatePNonce(p)
  <2>1. \A q \in Procs : Carries(q)' <=> Carries(q)
    BY <1>2, AfterRawType DEF CheckStatus, UpdateIqsWaiting, UpdatePNonce, Carries, TypeOK
  <2>2. UNCHANGED <<written, buffer_queue, dropped>>
    BY <1>2 DEF CheckStatus, UpdateIqsWaiting, UpdatePNonce
  <2>3. UNCHANGED Open
    BY <1>1, <2>1, <2>2, OpenStays
  <2> QED BY <1>1, <2>2, <2>3 DEF Ledger!vars, Request
<1>3. CASE Enqueue(p) \/ EnqueueTimeout(p) \/ WriteBytes(p)
  <2>1. /\ Carries(p) /\ ~Carries(p)'
        /\ \A q \in Procs \ {p} : Carries(q)' <=> Carries(q)
    BY <1>3, AfterRawType DEF Enqueue, EnqueueTimeout, WriteBytes, Carries, TypeOK
  <2>2. CASE Enqueue(p)
    <3>1. UNCHANGED <<written, dropped>> /\ buffer_queue' = Append(buffer_queue, msg[p])
      BY <2>2 DEF Enqueue
    <3>2. UNCHANGED Open
      BY <1>1, <2>1, <3>1, OpenParks
    <3> QED BY <1>1, <3>1, <3>2 DEF Ledger!vars, Request
  <2>3. CASE EnqueueTimeout(p)
    <3>1. UNCHANGED <<written, buffer_queue>> /\ dropped' = dropped \cup {msg[p]}
      BY <2>3 DEF EnqueueTimeout
    <3>2. Out(msg[p]) /\ Request(msg[p]) \in Open
      BY <1>1, <2>1, <3>1, OpenLoses
    <3>3. {Request(m) : m \in dropped'} = {Request(m) : m \in dropped} \cup {Request(msg[p])}
      BY <3>1
    <3>4. Ledger!Refuse(Request(msg[p]))
      BY <1>1, <3>1, <3>2, <3>3 DEF Ledger!Refuse, Out, Request
    <3> QED BY <3>2, <3>4 DEF Ledger!Next
  <2>4. CASE WriteBytes(p)
    <3>1. UNCHANGED <<buffer_queue, dropped>> /\ written' = Append(written, msg[p])
      BY <2>4 DEF WriteBytes
    <3>2. Out(msg[p]) /\ Request(msg[p]) \in Open
      BY <1>1, <2>1, <3>1, OpenLoses
    <3>3. [i \in DOMAIN written' |-> Request(written'[i])]
            = Append([i \in DOMAIN written |-> Request(written[i])], Request(msg[p]))
      BY <1>1, <3>1, SentGrows DEF TypeOK
    <3>4. Ledger!Write(Request(msg[p]))
      BY <1>1, <3>1, <3>2, <3>3 DEF Ledger!Write, Out, Request
    <3> QED BY <3>2, <3>4 DEF Ledger!Next
  <2> QED BY <1>3, <2>2, <2>3, <2>4
<1> QED BY <1>2, <1>3 DEF SendRaw

\* The steps of iridium_send behind Call.
LEMMA IridiumSendIsLedgerStep ==
  ASSUME TypeOK, OnceInv, OwnCommand, Begun, NEW t \in Tasks, IridiumSend(t)
  PROVE  [Ledger!Next]_(Ledger!vars)
<1> USE DEF Goto, satcom, modem, uart
<1>1. t \in Procs /\ msg[t] \in Message /\ msg[t].task = t
  BY DEF Procs, TypeOK, OnceInv, IssuedInv
<1>2. UNCHANGED <<written, buffer_queue, dropped>>
  BY DEF IridiumSend, NonceStore, NonceReread, WaitTest, WaitPoll, CopyResult
<1>3. \A q \in Procs : Same(msg'[q], msg[q])
  <2>1. CASE NonceStore(t) \/ NonceReread(t)
    <3>1. PICK n : msg' = [msg EXCEPT ![t] = [@ EXCEPT !.nonce = n]]
      BY <2>1 DEF NonceStore, NonceReread
    <3> QED BY <1>1, <3>1, Renumbered DEF TypeOK, Same
  <2>2. CASE WaitTest(t) \/ WaitPoll(t) \/ CopyResult(t)
    BY <2>2 DEF WaitTest, WaitPoll, CopyResult, Same
  <2> QED BY <2>1, <2>2 DEF IridiumSend
<1>4. [u \in Tasks |-> msg'[u].call] = [u \in Tasks |-> msg[u].call]
  BY <1>3 DEF Same, Procs
<1>5. CASE NonceReread(t) /\ msg[t].command \in HasNoCase
  <2>1. /\ Carries(t) /\ ~Carries(t)'
        /\ \A q \in Procs \ {t} : Carries(q)' <=> Carries(q)
    BY <1>1, <1>5, AfterSwitchType DEF NonceReread, Carries, TypeOK
  <2>2. Out(msg[t]) /\ Request(msg[t]) \in Open
    BY <1>1, <1>2, <1>3, <2>1, OpenLoses
  <2>3. msg[t].command \in Commands[t]
    BY <1>5 DEF NonceReread, Begun, OwnCommand
  <2>4. Request(msg[t])[1] \in {u \in Tasks : Commands[u] \cap HasNoCase # {}}
    BY <1>1, <1>5, <2>3 DEF Request
  <2>5. Ledger!Omit(Request(msg[t]))
    BY <1>2, <1>4, <2>2, <2>4 DEF Ledger!Omit, Out, Request
  <2> QED BY <2>2, <2>5 DEF Ledger!Next
<1>6. CASE ~(NonceReread(t) /\ msg[t].command \in HasNoCase)
  <2>1. \A q \in Procs : Carries(q)' <=> Carries(q)
    BY <1>1, <1>6, AfterSwitchType
       DEF IridiumSend, NonceStore, NonceReread, WaitTest, WaitPoll, CopyResult, Carries, TypeOK
  <2>2. UNCHANGED Open
    BY <1>2, <1>3, <2>1, OpenStays
  <2> QED BY <1>2, <1>4, <2>2 DEF Ledger!vars, Request
<1> QED BY <1>5, <1>6

\* Call issues a request.
LEMMA CallIsLedgerStep ==
  ASSUME TypeOK, NEW t \in Tasks, NEW c \in Commands[t], NEW w \in WaitFlags, Call(t, c, w)
  PROVE  [Ledger!Next]_(Ledger!vars)
<1> USE DEF Goto, satcom, modem, uart
<1>1. t \in Procs /\ msg[t].call \in Nat
  BY DEF Procs, TypeOK, Message
<1>2. /\ Request(msg'[t]) = <<t, msg[t].call + 1>> /\ msg'[t].call = msg[t].call + 1
      /\ \A q \in Procs \ {t} : msg'[q] = msg[q]
  BY <1>1 DEF Call, TypeOK, Request
<1>3. /\ ~Carries(t) /\ Carries(t)'
      /\ \A q \in Procs \ {t} : Carries(q)' <=> Carries(q)
  BY <1>1 DEF Call, Carries, TypeOK
<1>4. UNCHANGED <<written, buffer_queue, dropped>>
  BY DEF Call
<1>5. Open' = Open \cup {<<t, msg[t].call + 1>>}
  BY <1>1, <1>2, <1>3, <1>4, OpenGains
<1>6. [u \in Tasks |-> msg'[u].call]
        = [[u \in Tasks |-> msg[u].call] EXCEPT ![t] = @ + 1]
  BY <1>2 DEF Procs
<1>7. Ledger!Issue(t)
  BY <1>4, <1>5, <1>6 DEF Ledger!Issue, Request
<1> QED BY <1>7 DEF Ledger!Next

\* Every step of the channel is one of the ledger or none.
LEMMA LedgerStep ==
  ASSUME TypeOK, OnceInv, OwnCommand, Begun, [Next]_vars
  PROVE  [Ledger!Next]_(Ledger!vars)
<1> USE DEF Goto, satcom, locals, modem, uart
<1>1. ASSUME NEW t \in Tasks, NEW c \in Commands[t], NEW w \in WaitFlags, Call(t, c, w)
      PROVE  [Ledger!Next]_(Ledger!vars)
  BY <1>1, CallIsLedgerStep
<1>2. ASSUME NEW t \in Tasks, IridiumSend(t) PROVE [Ledger!Next]_(Ledger!vars)
  BY <1>2, IridiumSendIsLedgerStep
<1>3. ASSUME NEW p \in Procs, SendRaw(p) PROVE [Ledger!Next]_(Ledger!vars)
  BY <1>3, SendRawIsLedgerStep
<1>4. CASE BufferPoll \/ BufferReceive
  <2>1. UNCHANGED <<written, dropped>> /\ \A t \in Tasks : msg'[t] = msg[t]
    BY <1>4, LinkAssumption DEF BufferPoll, BufferReceive, TypeOK, Procs
  <2>2. UNCHANGED Open
    <3>1. CASE BufferReceive /\ buffer_queue # <<>>
      <4>1. /\ ~Carries(BufferTask) /\ Carries(BufferTask)'
            /\ \A q \in Procs \ {BufferTask} : Carries(q)' <=> Carries(q)
        BY <3>1 DEF BufferReceive, Carries, TypeOK, Procs
      <4> QED BY <3>1, <4>1, OpenTakes DEF BufferReceive
    <3>2. CASE BufferPoll \/ (BufferReceive /\ buffer_queue = <<>>)
      <4>1. UNCHANGED <<buffer_queue, msg>>
        BY <3>2 DEF BufferPoll, BufferReceive
      <4>2. \A q \in Procs : Carries(q)' <=> Carries(q)
        BY <3>2 DEF BufferPoll, BufferReceive, Carries, TypeOK, Procs
      <4> QED BY <4>1, <4>2, OpenStays DEF Same
    <3> QED BY <1>4, <3>1, <3>2
  <2> QED BY <2>1, <2>2 DEF Ledger!vars, Request
<1>5. CASE ModemReply \/ uart_satcom_task \/ UNCHANGED vars
  <2>1. UNCHANGED <<written, buffer_queue, dropped, pc, msg>>
    BY <1>5 DEF ModemReply, uart_satcom_task, UartReceive, UartCopied, UpdateIqsOpen, vars
  <2>2. UNCHANGED Open
    BY <2>1, OpenStays DEF Same, Carries
  <2> QED BY <2>1, <2>2 DEF Ledger!vars, Request
<1> QED
  BY <1>1, <1>2, <1>3, <1>4, <1>5
     DEF Next, Calls, TaskStep, buffer_satcom_task, Procs

\* Only Call leaves "idle", and it counts.
LEMMA BegunStep ==
  ASSUME TypeOK, Begun, [Next]_vars
  PROVE  Begun'
<1> USE DEF Goto, satcom, locals, modem, uart
<1>1. \A t \in Tasks : t \in Procs /\ t # BufferTask /\ msg[t].call \in Nat
  BY LinkAssumption DEF Procs, TypeOK, Message
<1>2. ASSUME NEW t \in Tasks, NEW c \in Commands[t], NEW w \in WaitFlags, Call(t, c, w)
      PROVE  Begun'
  BY <1>1, <1>2 DEF Begun, Call, TypeOK
<1>3. ASSUME NEW t \in Tasks, IridiumSend(t) PROVE Begun'
  <2>1. pc[t] # "idle" /\ \A u \in Tasks \ {t} : pc'[u] = pc[u]
    BY <1>1, <1>3
       DEF IridiumSend, NonceStore, NonceReread, WaitTest, WaitPoll, CopyResult, TypeOK
  <2>2. \A u \in Tasks : msg'[u].call = msg[u].call
    <3>1. CASE NonceStore(t) \/ NonceReread(t)
      <4>1. PICK n : msg' = [msg EXCEPT ![t] = [@ EXCEPT !.nonce = n]]
        BY <3>1 DEF NonceStore, NonceReread
      <4> QED BY <1>1, <4>1, Renumbered DEF TypeOK, Same
    <3>2. CASE WaitTest(t) \/ WaitPoll(t) \/ CopyResult(t)
      BY <3>2 DEF WaitTest, WaitPoll, CopyResult
    <3> QED BY <1>3, <3>1, <3>2 DEF IridiumSend
  <2> QED BY <2>1, <2>2 DEF Begun
<1>4. ASSUME NEW p \in Procs, SendRaw(p) PROVE Begun'
  <2>1. pc[p] # "idle" /\ msg' = msg /\ \A u \in Tasks \ {p} : pc'[u] = pc[u]
    BY <1>1, <1>4 DEF SendRaw, CheckStatus, Enqueue, EnqueueTimeout, WriteBytes,
                      UpdateIqsWaiting, UpdatePNonce, TypeOK
  <2> QED BY <2>1 DEF Begun
<1>5. CASE BufferPoll \/ BufferReceive
  <2>1. \A u \in Tasks : pc'[u] = pc[u] /\ msg'[u] = msg[u]
    BY <1>1, <1>5 DEF BufferPoll, BufferReceive, TypeOK
  <2> QED BY <2>1 DEF Begun
<1>6. CASE ModemReply \/ uart_satcom_task \/ UNCHANGED vars
  <2>1. UNCHANGED <<pc, msg>>
    BY <1>6 DEF ModemReply, uart_satcom_task, UartReceive, UartCopied, UpdateIqsOpen, vars
  <2> QED BY <2>1 DEF Begun
<1> QED
  BY <1>2, <1>3, <1>4, <1>5, <1>6
     DEF Next, Calls, TaskStep, buffer_satcom_task, Procs

(***************************************************************************)
(* The command channel implements RequestLedger: whatever the callers,     *)
(* buffer_satcom_task and the modem do, a request is issued once, then     *)
(* written or refused once, and stays so.                                  *)
(***************************************************************************)
THEOREM LinkImplementsLedger == Spec => ImplementsLedger
<1>1. Init => OnceInv
  BY OnceInit
<1>2. Init => KeptInv /\ Begun /\ Ledger!Init
  <2> SUFFICES ASSUME Init PROVE KeptInv /\ Begun /\ Ledger!Init
    OBVIOUS
  <2>1. \A t \in Tasks : msg[t].call = 0 /\ pc[t] = "idle"
    BY DEF Init, Unset, Procs
  <2>2. KeptInv /\ Begun
    BY <2>1 DEF KeptInv, NothingForgotten, OwnCommand, Begun
  <2>3. Open = {}
    BY DEF Init, Open, Carries
  <2>4. [i \in DOMAIN written |-> Request(written[i])] = <<>>
    BY DEF Init
  <2>5. {Request(m) : m \in dropped} = {}
    BY DEF Init
  <2>6. [t \in Tasks |-> msg[t].call] = [t \in Tasks |-> 0]
    BY <2>1
  <2> QED BY <2>2, <2>3, <2>4, <2>5, <2>6 DEF Ledger!Init
<1>3. TypeOK /\ OnceInv /\ [Next]_vars => OnceInv'
  BY OnceStep
<1>4. TypeOK /\ OnceInv /\ KeptInv /\ [Next]_vars => KeptInv'
  BY KeptStep
<1>5. TypeOK /\ Begun /\ [Next]_vars => Begun'
  BY BegunStep
<1>6. TypeOK /\ OnceInv /\ KeptInv /\ Begun /\ [Next]_vars => [Ledger!Next]_(Ledger!vars)
  BY LedgerStep DEF KeptInv
<1> QED BY <1>1, <1>2, <1>3, <1>4, <1>5, <1>6, TypeCorrect, PTL
        DEF Spec, ImplementsLedger, Ledger!Spec
=============================================================================
