---------------------------- MODULE SessionProofs ----------------------------
(***************************************************************************)
(* Session implements IridiumLink: whatever the functions and the ring     *)
(* task do is a behaviour of the command channel, so what is proved of the *)
(* channel holds of them.                                                  *)
(*                                                                         *)
(* When one function is called, or messages arrive, and nothing else sends *)
(* at the same time: what a function has set is in the modem when its next *)
(* command relies on it, a success that iridium_tx_message reports is one, *)
(* and ring_satcom_task loses no message.                                  *)
(***************************************************************************)
EXTENDS Session, IridiumLinkRequestProofs

\* A command of a function is a call of iridium_send that IridiumLink allows.
LEMMA SendNextCalls ==
  ASSUME NEW t \in Tasks, SendNext(t)
  PROVE  Calls(t)
<1>1. CommandAt(at[t]) \in Commands[t] /\ TRUE \in WaitFlags
  BY SessionAssumption DEF SendNext
<1>. QED BY <1>1 DEF SendNext, Calls

\* Every step of Session is one of the channel or leaves the channel alone.
LEMMA SessionStepIsLinkStep == [SessionNext]_svars => [Next]_vars
<1>. SUFFICES ASSUME [SessionNext]_svars PROVE [Next]_vars
  OBVIOUS
<1>. App \in Tasks /\ Ring \in Tasks
  BY SessionAssumption
<1>1. CASE Begin \/ Arrive
  BY <1>1 DEF Begin, Arrive
<1>2. CASE AppStep
  <2>1. CASE TaskStep(App) BY <2>1 DEF Next
  <2>2. CASE SendNext(App) BY <2>2, SendNextCalls DEF Next
  <2>3. CASE Decide \/ Return BY <2>3 DEF Decide, Return
  <2>. QED BY <1>2, <2>1, <2>2, <2>3 DEF AppStep
<1>3. CASE RingStep
  <2>1. CASE TaskStep(Ring) BY <2>1 DEF Next
  <2>2. CASE SendNext(Ring) BY <2>2, SendNextCalls DEF Next
  <2>3. CASE RingDecide \/ RingEnd BY <2>3 DEF RingDecide, RingEnd
  <2>. QED BY <1>3, <2>1, <2>2, <2>3 DEF RingStep
<1>4. CASE BufferStep
  BY <1>4 DEF BufferStep, Next
<1>5. CASE SessionReply
  BY <1>5 DEF SessionReply, Next
<1>6. CASE UartTaskStep
  <2>1. CASE UartStep \/ Reopen
    BY <2>1 DEF UartStep, Reopen, Next, uart_satcom_task
  <2>2. CASE StoreOutbound \/ StoreWaiting \/ StoreText \/ HandleRing
    BY <2>2 DEF StoreOutbound, StoreWaiting, StoreText, HandleRing
  <2>. QED BY <1>6, <2>1, <2>2 DEF UartTaskStep
<1>7. CASE UNCHANGED svars
  BY <1>7 DEF svars
<1>. QED BY <1>1, <1>2, <1>3, <1>4, <1>5, <1>6, <1>7 DEF SessionNext

\* The functions of the library and the ring task use the command channel as
\* IridiumLink says its callers may (235-310, 443-477 on 324-441).
THEOREM SessionImplementsLink == SessionSpec => Spec
<1>1. SessionInit => Init
  BY DEF SessionInit
<1>. QED BY <1>1, SessionStepIsLinkStep, PTL DEF SessionSpec, Spec

\* No command of a transmission, a configuration or a ring session is on the
\* UART twice for one call of iridium_send (209-227, 591).
THEOREM SessionSendsOnce == SessionSpec => []AtMostOnce
BY SessionImplementsLink, NoRequestTwice, PTL

-----------------------------------------------------------------------------
\* Where the application's functions and ring_satcom_task can be.
AppPlaces == {"idle", "AT_SBDWT", "AT_SBDIX", "decide", "return", "AT_SBDMTA", "AT_W0", "AT_K0",
              "AT_SBDMTAQ", "AT_CGMI", "AT_CGMM"}
RingPlaces == {"idle", "AT_CRIS", "AT_SBDIXA", "outbound", "waiting", "AT_SBDRT", "last", "end"}

Report == [outbound : Nat, text : Nat, waiting : Int]

Places ==
  /\ at \in [Tasks -> AppPlaces \cup RingPlaces]
  /\ at[App] \in AppPlaces /\ at[Ring] \in RingPlaces
  /\ ring_task_running = (IF at[Ring] = "idle" THEN 0 ELSE 1)
  /\ todo \in Seq(DOMAIN Start)
Counts ==
  /\ tries \in 0 .. MaxTries - 1
  /\ draft \in Nat /\ draft <= msg[App].call
Gateway ==
  /\ stored \in {"none", "outbound", "all"}
  /\ taken \in Nat /\ arrived \in Nat /\ taken <= arrived
  /\ replies \in Seq(Report) /\ Len(replies) = Len(rx)
STInv == Places /\ Counts /\ Gateway

\* The tasks.
LEMMA TwoTasks == App \in Tasks /\ Ring \in Tasks /\ App # Ring /\ Tasks = {App, Ring}
                  /\ App \in Procs /\ Ring \in Procs /\ BufferTask \in Procs
                  /\ App # BufferTask /\ Ring # BufferTask
BY SessionAssumption, LinkAssumption DEF Procs

LEMMA PlacesStep ==
  ASSUME Places, SessionNext
  PROVE  Places'
<1> USE TwoTasks DEF Places
<1>1. CASE Begin
  <2>1. /\ todo # <<>> /\ at' = [at EXCEPT ![App] = Start[Head(todo)]] /\ todo' = Tail(todo)
        /\ UNCHANGED ring_task_running
    BY <1>1 DEF Begin, Move
  <2>2. Head(todo) \in DOMAIN Start /\ todo' \in Seq(DOMAIN Start)
    BY <2>1
  <2>3. Start[Head(todo)] \in AppPlaces
    BY <2>2 DEF Start, AppPlaces
  <2> QED BY <2>1, <2>2, <2>3
<1>2. ASSUME NEW t \in Tasks, SendNext(t) PROVE Places'
  <2>1. at' = [at EXCEPT ![t] = Then[at[t]]] /\ at[t] \in DOMAIN Then
        /\ UNCHANGED <<todo, ring_task_running>>
    BY <1>2 DEF SendNext, Move
  <2>2. CASE t = App
    <3>1. Then[at[t]] \in AppPlaces
      BY <2>1, <2>2 DEF Then, AppPlaces
    <3> QED BY <2>1, <2>2, <3>1
  <2>3. CASE t = Ring
    <3>1. Then[at[t]] \in RingPlaces \ {"idle"} /\ at[t] # "idle"
      BY <2>1, <2>3 DEF Then, RingPlaces
    <3> QED BY <2>1, <2>3, <3>1
  <2> QED BY <2>2, <2>3
<1>3. CASE Decide \/ Return
  <2>1. /\ \E place \in AppPlaces : at' = [at EXCEPT ![App] = place]
        /\ UNCHANGED <<todo, ring_task_running>>
    BY <1>3 DEF Decide, Return, Move, AppPlaces
  <2> QED BY <2>1
<1>4. CASE RingDecide
  <2>1. /\ \E place \in RingPlaces \ {"idle"} : at' = [at EXCEPT ![Ring] = place]
        /\ at[Ring] # "idle"
        /\ UNCHANGED <<todo, ring_task_running>>
    BY <1>4 DEF RingDecide, Move, Place, RingPlaces
  <2> QED BY <2>1
<1>5. CASE RingEnd
  <2>1. at' = [at EXCEPT ![Ring] = "idle"] /\ ring_task_running' = 0 /\ todo' = todo
    BY <1>5 DEF RingEnd, Move
  <2>2. "idle" \in RingPlaces
    BY DEF RingPlaces
  <2> QED BY <2>1, <2>2
<1>6. CASE HandleRing
  <2>1. CASE ring_task_running = 0
    <3>1. at' = [at EXCEPT ![Ring] = "AT_CRIS"] /\ ring_task_running' = 1 /\ todo' = todo
      BY <1>6, <2>1 DEF HandleRing, Move
    <3>2. "AT_CRIS" \in RingPlaces
      BY DEF RingPlaces
    <3> QED BY <3>1, <3>2
  <2>2. CASE ring_task_running # 0
    BY <1>6, <2>2 DEF HandleRing
  <2> QED BY <2>1, <2>2
<1>7. CASE UNCHANGED <<at, todo, ring_task_running>>
  BY <1>7
<1>8. \/ Begin \/ Decide \/ Return \/ RingDecide \/ RingEnd \/ HandleRing
      \/ \E t \in Tasks : SendNext(t)
      \/ UNCHANGED <<at, todo, ring_task_running>>
  BY DEF SessionNext, AppStep, RingStep, BufferStep, UartTaskStep, Elsewhere, Arrive,
         SessionReply, UartStep, StoreOutbound, StoreWaiting, StoreText, Reopen, progress
<1> QED BY <1>1, <1>2, <1>3, <1>4, <1>5, <1>6, <1>7, <1>8

\* No step takes a number back; only a call takes the next one.
LEMMA CallNumbers ==
  ASSUME TypeOK, NEW t \in Tasks,
         (\E u \in Tasks : TaskStep(u)) \/ buffer_satcom_task \/ ModemReply \/ uart_satcom_task
  PROVE  msg'[t].call = msg[t].call /\ msg'[t].command = msg[t].command
<1>1. ASSUME NEW u \in Tasks, NEW n, msg' = [msg EXCEPT ![u] = [@ EXCEPT !.nonce = n]]
      PROVE  msg'[t].call = msg[t].call /\ msg'[t].command = msg[t].command
  BY <1>1 DEF TypeOK, Message, Procs
<1>2. ASSUME NEW m, msg' = [msg EXCEPT ![BufferTask] = m]
      PROVE  msg'[t].call = msg[t].call /\ msg'[t].command = msg[t].command
  BY <1>2, TwoTasks
<1>3. \/ \E u \in Tasks : \E n : msg' = [msg EXCEPT ![u] = [@ EXCEPT !.nonce = n]]
      \/ \E m : msg' = [msg EXCEPT ![BufferTask] = m]
      \/ msg' = msg
  <2>1. CASE \E u \in Tasks : NonceStore(u) \/ NonceReread(u)
    BY <2>1 DEF NonceStore, NonceReread
  <2>2. CASE BufferReceive
    BY <2>2 DEF BufferReceive
  <2>3. CASE \/ \E p \in Procs : SendRaw(p)
             \/ \E u \in Tasks : WaitTest(u) \/ WaitPoll(u) \/ CopyResult(u)
             \/ BufferPoll \/ ModemReply \/ uart_satcom_task
    BY <2>3 DEF SendRaw, CheckStatus, Enqueue, EnqueueTimeout, WriteBytes, UpdateIqsWaiting,
                UpdatePNonce, WaitTest, WaitPoll, CopyResult, BufferPoll, ModemReply,
                uart_satcom_task, UartReceive, UartCopied, UpdateIqsOpen, locals
  <2> QED BY <2>1, <2>2, <2>3, TwoTasks DEF TaskStep, IridiumSend, buffer_satcom_task, Procs
<1> QED BY <1>1, <1>2, <1>3

LEMMA CountsStep ==
  ASSUME TypeOK, Places, Counts, SessionNext
  PROVE  Counts'
<1> USE TwoTasks DEF Counts
<1>0. MaxTries \in Nat \ {0} /\ msg[App].call \in Nat
  BY SessionAssumption DEF TypeOK, Message
<1>1. CASE Begin
  BY <1>0, <1>1 DEF Begin, vars
<1>2. ASSUME NEW t \in Tasks, SendNext(t) PROVE Counts'
  <2>1. /\ \E c : msg' = [msg EXCEPT ![t] = [task |-> t, call |-> msg[t].call + 1,
                                              command |-> c, nonce |-> c_nonce]]
        /\ tries' = tries
        /\ draft' = IF at[t] = "AT_SBDWT" THEN msg'[t].call ELSE draft
    BY <1>2 DEF SendNext, Call
  <2>2. CASE t = App
    <3>1. msg'[App].call = msg[App].call + 1
      BY <2>1, <2>2 DEF TypeOK
    <3> QED BY <1>0, <2>1, <2>2, <3>1
  <2>3. CASE t = Ring
    <3>1. msg'[App] = msg[App] /\ at[Ring] # "AT_SBDWT"
      BY <2>1, <2>3 DEF Places, RingPlaces
    <3> QED BY <1>0, <2>1, <2>3, <3>1
  <2> QED BY <2>2, <2>3
<1>3. CASE Decide
  <2>1. tries' = tries \/ (tries + 1 # MaxTries /\ tries' = tries + 1)
    BY <1>3 DEF Decide
  <2>2. draft' = draft /\ msg' = msg
    BY <1>3 DEF Decide, vars
  <2> QED BY <1>0, <2>1, <2>2
<1>4. CASE /\ UNCHANGED <<tries, draft>>
           /\ (\E u \in Tasks : TaskStep(u)) \/ buffer_satcom_task \/ ModemReply \/ uart_satcom_task
  <2>1. msg'[App].call = msg[App].call
    BY <1>4, CallNumbers
  <2> QED BY <1>4, <2>1
<1>5. CASE UNCHANGED <<tries, draft, msg>>
  BY <1>5
<1>6. \/ Begin \/ Decide \/ \E t \in Tasks : SendNext(t)
      \/ /\ UNCHANGED <<tries, draft>>
         /\ (\E u \in Tasks : TaskStep(u)) \/ buffer_satcom_task \/ ModemReply \/ uart_satcom_task
      \/ UNCHANGED <<tries, draft, msg>>
  BY DEF SessionNext, AppStep, RingStep, BufferStep, UartTaskStep, Elsewhere, Arrive, Return,
         SessionReply, UartStep, StoreOutbound, StoreWaiting, StoreText, Reopen, HandleRing,
         RingDecide, RingEnd, uart_satcom_task, progress, vars
<1> QED BY <1>1, <1>2, <1>3, <1>4, <1>5, <1>6

\* A reply of the modem: rx and replies grow together.
LEMMA ReplyCases ==
  ASSUME TypeOK, Gateway, SessionReply, NEW m, m = written[answered + 1]
  PROVE  /\ taken' \in Nat /\ taken' <= arrived
         /\ \E s \in Nat :
              /\ \/ Final # "ERROR" /\ Perform(m, s)
                 \/ Final # "OK" /\ UNCHANGED <<mo, transmitted, taken, failures, misjudged>>
              /\ IsSession(m) => s \in MOStatuses
              /\ \/ UNCHANGED <<rx, replies>>
                 \/ \E r \in Report : /\ r.outbound = s /\ r.text = taken
                                      /\ replies' = Append(replies, r)
                                      /\ rx' = Append(rx, [msg |-> m, final |-> Final])
<1> USE DEF Gateway
<1>1. /\ rx \in Seq([msg : Message, final : {"OK", "ERROR"}])
      /\ \E p \in {"OK"} \cup Faults :
           rx' = IF p = "SILENT" THEN rx ELSE Append(rx, [msg |-> m, final |-> p])
  BY DEF SessionReply, ModemReply, TypeOK
<1>2. PICK s \in IF IsSession(m) THEN MOStatuses ELSE {0} :
        /\ \/ Final # "ERROR" /\ Perform(m, s)
           \/ Final # "OK" /\ UNCHANGED <<mo, transmitted, taken, failures, misjudged>>
        /\ replies' = IF Final = "SILENT" THEN replies
                      ELSE Append(replies, [outbound |-> s, text |-> taken,
                                            waiting |-> IF Transfers(s) THEN arrived - taken' ELSE 0])
  BY DEF SessionReply
<1>3. taken' \in Nat /\ taken' <= arrived
  <2>1. CASE Perform(m, s)
    BY <2>1 DEF Perform
  <2>2. CASE taken' = taken
    BY <2>2
  <2> QED BY <1>2, <2>1, <2>2
<1>4. s \in Nat
  BY <1>2, SessionAssumption
<1> DEFINE r == [outbound |-> s, text |-> taken,
                 waiting |-> IF Transfers(s) THEN arrived - taken' ELSE 0]
<1>5. r \in Report /\ r.outbound = s /\ r.text = taken
  BY <1>3, <1>4 DEF Report
<1> HIDE DEF r
<1>6. CASE rx' = rx
  <2>1. replies' = replies
    BY <1>2, <1>6 DEF Final
  <2> QED BY <1>2, <1>3, <1>4, <1>6, <2>1
<1>7. CASE rx' # rx
  <2>1. PICK p : p # "SILENT" /\ rx' = Append(rx, [msg |-> m, final |-> p])
    BY <1>1, <1>7
  <2>2. rx'[Len(rx')].final = p
    BY <1>1, <2>1
  <2>3. Final = p
    BY <1>7, <2>2 DEF Final
  <2>4. replies' = Append(replies, r)
    BY <1>2, <2>1, <2>3 DEF r
  <2> QED BY <1>2, <1>3, <1>4, <1>5, <2>1, <2>3, <2>4
<1> QED BY <1>6, <1>7

LEMMA ReplyGateway ==
  ASSUME TypeOK, Gateway, SessionReply
  PROVE  Gateway'
<1> USE DEF Gateway
<1>1. UNCHANGED <<stored, arrived>> /\ taken' \in Nat /\ taken' <= arrived
  BY ReplyCases DEF SessionReply, fields
<1>2. CASE UNCHANGED <<rx, replies>>
  BY <1>1, <1>2
<1>3. CASE \E m, o : \E r \in Report :
             replies' = Append(replies, r) /\ rx' = Append(rx, [msg |-> m, final |-> o])
  <2>1. PICK m, o : \E r \in Report :
               replies' = Append(replies, r) /\ rx' = Append(rx, [msg |-> m, final |-> o])
    BY <1>3
  <2>2. PICK r \in Report : replies' = Append(replies, r)
    BY <2>1
  <2>3. replies' \in Seq(Report) /\ Len(replies') = Len(replies) + 1
    BY <2>2
  <2> DEFINE e == [msg |-> m, final |-> o]
             E == [msg : Message, final : {"OK", "ERROR"}]
  <2>4. rx' = Append(rx, e)
    BY ONLY <2>1
  <2>5. rx \in Seq(E)
    BY DEF TypeOK
  <2> HIDE DEF e, E
  <2>6. Len(rx') = Len(rx) + 1
    BY ONLY <2>4, <2>5
  <2>7. Len(replies) = Len(rx)
    OBVIOUS
  <2>8. stored' \in {"none", "outbound", "all"} /\ arrived' \in Nat /\ taken' <= arrived'
    BY <1>1
  <2> QED BY ONLY <1>1, <2>3, <2>6, <2>7, <2>8 DEF Gateway
<1>4. \/ UNCHANGED <<rx, replies>>
      \/ \E m, o : \E r \in Report :
             replies' = Append(replies, r) /\ rx' = Append(rx, [msg |-> m, final |-> o])
  <2> HIDE DEF Gateway
  <2> QED BY ReplyCases
<1> HIDE DEF Gateway
<1> QED BY <1>2, <1>3, <1>4

LEMMA GatewayStep ==
  ASSUME TypeOK, Gateway, SessionNext
  PROVE  Gateway'
<1> USE DEF Gateway
<1>1. CASE SessionReply
  BY <1>1, ReplyGateway
<1>2. CASE Arrive
  <2>1. arrived' = arrived + 1 /\ UNCHANGED <<stored, taken, replies, rx>>
    BY <1>2 DEF Arrive, fields, vars
  <2> QED BY <2>1
<1>3. CASE UartStep \/ StoreOutbound \/ StoreWaiting \/ StoreText
  <2>1. /\ stored' \in {"none", "outbound", "all"}
        /\ UNCHANGED <<arrived, taken, replies, rx>>
    BY <1>3 DEF UartStep, StoreOutbound, StoreWaiting, StoreText, StoreStep, gateway, vars,
                UartReceive, UartCopied
  <2> QED BY <2>1
<1>4. CASE Reopen
  <2>1. rx' = Tail(rx) /\ rx # <<>> /\ rx \in Seq([msg : Message, final : {"OK", "ERROR"}])
        /\ replies' = Tail(replies) /\ UNCHANGED <<stored, arrived, taken>>
    BY <1>4 DEF Reopen, UpdateIqsOpen, TypeOK, fields, gateway
  <2>2. replies # <<>>
    BY <2>1
  <2>3. Len(rx') = Len(rx) - 1 /\ replies' \in Seq(Report) /\ Len(replies') = Len(replies) - 1
    BY <2>1, <2>2
  <2> QED BY <2>1, <2>3
<1>5. CASE UNCHANGED <<stored, arrived, taken, replies, rx>>
  BY <1>5
<1>6. \/ SessionReply \/ Arrive \/ UartStep \/ StoreOutbound \/ StoreWaiting \/ StoreText \/ Reopen
      \/ UNCHANGED <<stored, arrived, taken, replies, rx>>
  <2>1. ASSUME \E t \in Tasks : TaskStep(t) \/ SendNext(t) PROVE UNCHANGED rx
    BY <2>1 DEF TaskStep, SendNext, Call, IridiumSend, NonceStore, NonceReread, WaitTest, WaitPoll,
                CopyResult, SendRaw, CheckStatus, Enqueue, EnqueueTimeout, WriteBytes,
                UpdateIqsWaiting, UpdatePNonce, uart
  <2>2. ASSUME buffer_satcom_task PROVE UNCHANGED rx
    BY <2>2 DEF buffer_satcom_task, BufferPoll, BufferReceive, SendRaw, CheckStatus, Enqueue,
                EnqueueTimeout, WriteBytes, UpdateIqsWaiting, UpdatePNonce, uart
  <2> QED BY <2>1, <2>2, TwoTasks
          DEF SessionNext, AppStep, RingStep, BufferStep, UartTaskStep, Elsewhere, SendNext,
              Begin, Decide, Return, RingDecide, RingEnd, HandleRing, fields, gateway, vars
<1> QED BY <1>1, <1>2, <1>3, <1>4, <1>5, <1>6

LEMMA SessionInvariant == SessionSpec => [](TypeOK /\ STInv)
<1>1. ASSUME SessionInit PROVE STInv
  <2> USE TwoTasks, <1>1 DEF SessionInit
  <2>1. Places
    <3>1. \E s \in Scenarios : todo = s.calls
      BY DEF SessionInit
    <3> QED BY <3>1, SessionAssumption DEF Places, AppPlaces, RingPlaces
  <2>2. Counts
    BY SessionAssumption DEF Counts, Init, Unset
  <2>3. Gateway
    BY DEF Gateway, Init
  <2> QED BY <2>1, <2>2, <2>3 DEF STInv
<1>2. ASSUME TypeOK, STInv, [SessionNext]_svars PROVE STInv'
  <2>1. CASE SessionNext
    BY <1>2, <2>1, PlacesStep, CountsStep, GatewayStep DEF STInv
  <2>2. CASE UNCHANGED svars
    BY <1>2, <2>2 DEF svars, progress, fields, gateway, vars, STInv, Places, Counts, Gateway
  <2> QED BY <1>2, <2>1, <2>2
<1> QED BY <1>1, <1>2, SessionImplementsLink, TypeCorrect, PTL DEF SessionSpec

\* Every variable has its type; the flag of the ring task says whether it runs,
\* and there is one report for each reply (iridium_tx_message, ring_satcom_task).
THEOREM SessionTypeCorrect == SessionSpec => []SessionTypeOK
<1>1. ASSUME TypeOK, STInv PROVE SessionTypeOK
  <2>1. AppPlaces \cup RingPlaces \in
          SUBSET (DOMAIN Then \cup {"idle", "decide", "return", "outbound", "waiting", "end"})
    BY DEF AppPlaces, RingPlaces, Then
  <2>2. msg[App].call \in Nat
    BY <1>1, TwoTasks DEF TypeOK, Message
  <2> QED BY <1>1, <2>1, <2>2 DEF STInv, Places, Counts, Gateway, SessionTypeOK
<1> QED BY <1>1, SessionInvariant, PTL

-----------------------------------------------------------------------------
(***************************************************************************)
(* One function, and no message that arrives meanwhile: what a function    *)
(* has set is there when its next command relies on it, and a success it   *)
(* reports is one.  Its first command finds the channel open and is on the *)
(* UART when it returns; what follows may be parked, overtake each other   *)
(* and return at once.                                                     *)
(***************************************************************************)
\* The requests that are on the UART, parked or in a hand.
Held(m) ==
  \/ \E i \in 1 .. Len(written) : m = written[i]
  \/ \E i \in 1 .. Len(buffer_queue) : m = buffer_queue[i]
  \/ \E p \in Procs : Carries(p) /\ m = msg[p]
Like(m, n) == m.task = n.task /\ m.call = n.call /\ m.command = n.command

\* A step takes a request from one place to another.
LEMMA HeldFrame ==
  ASSUME UNCHANGED <<written, buffer_queue>>,
         \A p \in Procs : Carries(p)' => Carries(p) /\ Like(msg[p], msg'[p]),
         NEW m, Held(m)'
  PROVE  \E n : Held(n) /\ Like(n, m)
BY DEF Held, Like

LEMMA HeldRaw ==
  ASSUME TypeOK, NEW p \in Procs, SendRaw(p), NEW m, Held(m)'
  PROVE  \E n : Held(n) /\ Like(n, m)
<1> USE DEF Goto
<1>1. /\ msg' = msg /\ Like(m, m)
      /\ \A q \in Procs : Carries(q)' => Carries(q)
  BY DEF SendRaw, CheckStatus, Enqueue, EnqueueTimeout, WriteBytes, UpdateIqsWaiting,
         UpdatePNonce, Carries, TypeOK, AfterRaw, AfterSwitch, Like
<1>2. CASE WriteBytes(p)
  <2>1. /\ Carries(p) /\ UNCHANGED buffer_queue
        /\ \A i \in 1 .. Len(written') :
             (i \in 1 .. Len(written) /\ written'[i] = written[i]) \/ written'[i] = msg[p]
    BY <1>2 DEF WriteBytes, Carries, TypeOK
  <2> QED BY <1>1, <2>1 DEF Held
<1>3. CASE Enqueue(p)
  <2>1. /\ Carries(p) /\ UNCHANGED written
        /\ \A i \in 1 .. Len(buffer_queue') :
             \/ i \in 1 .. Len(buffer_queue) /\ buffer_queue'[i] = buffer_queue[i]
             \/ buffer_queue'[i] = msg[p]
    BY <1>3 DEF Enqueue, Carries, TypeOK, modem
  <2> QED BY <1>1, <2>1 DEF Held
<1>4. CASE UNCHANGED <<written, buffer_queue>>
  BY <1>1, <1>4 DEF Held
<1>5. WriteBytes(p) \/ Enqueue(p) \/ UNCHANGED <<written, buffer_queue>>
  BY DEF SendRaw, CheckStatus, EnqueueTimeout, UpdateIqsWaiting, UpdatePNonce, modem
<1> QED BY <1>2, <1>3, <1>4, <1>5

LEMMA HeldStep ==
  ASSUME TypeOK, NEW m, Held(m)',
         (\E u \in Tasks : TaskStep(u)) \/ buffer_satcom_task \/ ModemReply \/ uart_satcom_task
  PROVE  \E n : Held(n) /\ Like(n, m)
<1> USE DEF Goto
<1>1. CASE \E p \in Procs : SendRaw(p)
  BY <1>1, HeldRaw
<1>2. CASE \E u \in Tasks : NonceStore(u) \/ NonceReread(u)
  <2>1. PICK u \in Tasks : NonceStore(u) \/ NonceReread(u)
    BY <1>2
  <2>2. PICK n : msg' = [msg EXCEPT ![u] = [@ EXCEPT !.nonce = n]]
    BY <2>1 DEF NonceStore, NonceReread
  <2>3. u \in Procs /\ msg \in [Procs -> Message]
    BY DEF Procs, TypeOK
  <2>4. \A p \in Procs : Like(msg[p], msg'[p])
    <3>1. msg[u] \in Message
      BY <2>3
    <3>2. Like(msg[u], [msg[u] EXCEPT !.nonce = n])
      BY <3>1 DEF Message, Like
    <3>3. \A p \in Procs : msg'[p] = IF p = u THEN [msg[u] EXCEPT !.nonce = n] ELSE msg[p]
      BY <2>2, <2>3
    <3> QED BY <3>2, <3>3 DEF Like
  <2>5. \A p \in Procs : Carries(p)' => Carries(p)
    BY <2>1 DEF NonceStore, NonceReread, Carries, TypeOK
  <2>6. UNCHANGED <<written, buffer_queue>>
    BY <2>1 DEF NonceStore, NonceReread, modem
  <2> QED BY <2>4, <2>5, <2>6, HeldFrame
<1>3. CASE BufferReceive /\ buffer_queue # <<>>
  <2>1. /\ BufferTask \in Procs /\ buffer_queue' = Tail(buffer_queue) /\ UNCHANGED written
        /\ msg' = [msg EXCEPT ![BufferTask] = Head(buffer_queue)]
        /\ \A p \in Procs \ {BufferTask} : Carries(p)' => Carries(p)
    BY <1>3 DEF BufferReceive, Carries, TypeOK, modem, Procs
  <2>2. /\ \A i \in 1 .. Len(buffer_queue') : i + 1 \in 1 .. Len(buffer_queue)
                                              /\ buffer_queue'[i] = buffer_queue[i + 1]
        /\ 1 \in 1 .. Len(buffer_queue) /\ Head(buffer_queue) = buffer_queue[1]
    BY <1>3, <2>1 DEF TypeOK
  <2>3. msg'[BufferTask] = buffer_queue[1] /\ \A p \in Procs \ {BufferTask} : msg'[p] = msg[p]
    BY <2>1, <2>2 DEF TypeOK
  <2>4. Held(m)
    BY <2>1, <2>2, <2>3 DEF Held
  <2> QED BY <2>4 DEF Like
<1>4. CASE \/ \E u \in Tasks : WaitTest(u) \/ WaitPoll(u) \/ CopyResult(u)
           \/ BufferPoll \/ ModemReply \/ uart_satcom_task
           \/ BufferReceive /\ buffer_queue = <<>>
  <2>1. /\ UNCHANGED <<written, buffer_queue, msg>>
        /\ \A p \in Procs : Carries(p)' => Carries(p)
    BY <1>4 DEF WaitTest, WaitPoll, CopyResult, BufferPoll, BufferReceive, ModemReply, modem,
                uart_satcom_task, UartReceive, UartCopied, UpdateIqsOpen, locals, Carries, TypeOK
  <2> QED BY <2>1, HeldFrame DEF Like
<1> QED BY <1>1, <1>2, <1>3, <1>4, TwoTasks DEF TaskStep, IridiumSend, buffer_satcom_task, Procs

\* A call adds its request.
LEMMA HeldCall ==
  ASSUME TypeOK, NEW t \in Tasks, NEW c, Call(t, c, TRUE), NEW m, Held(m)'
  PROVE  \/ Held(m)
         \/ m.task = t /\ m.command = c /\ m.call = msg'[t].call
<1> DEFINE r == [task |-> t, call |-> msg[t].call + 1, command |-> c, nonce |-> c_nonce]
<1>1. /\ msg' = [msg EXCEPT ![t] = r] /\ UNCHANGED <<written, buffer_queue>> /\ t \in Procs
      /\ \A p \in Procs \ {t} : Carries(p)' => Carries(p)
  BY DEF Call, Goto, Carries, modem, TypeOK, Procs
<1>2. msg'[t] = r /\ \A p \in Procs \ {t} : msg'[p] = msg[p]
  BY <1>1 DEF TypeOK
<1> QED BY <1>1, <1>2 DEF Held

-----------------------------------------------------------------------------
\* A task between two calls makes no step of iridium_send.
LEMMA IdleTask == ASSUME NEW t, pc[t] = "idle" PROVE ~TaskStep(t)
BY DEF TaskStep, IridiumSend, NonceStore, NonceReread, WaitTest, WaitPoll, CopyResult, SendRaw,
       CheckStatus, Enqueue, EnqueueTimeout, WriteBytes, UpdateIqsWaiting, UpdatePNonce, Goto

\* The steps of the others leave a task where it is.
LEMMA OthersSteps ==
  ASSUME TypeOK, NEW t \in Tasks,
         \/ \E u \in Tasks \ {t} : TaskStep(u) \/ SendNext(u)
         \/ buffer_satcom_task \/ ModemReply \/ uart_satcom_task
  PROVE  pc'[t] = pc[t]
<1> USE DEF Goto
<1>1. \/ \E p \in Procs \ {t} : \E place : pc' = [pc EXCEPT ![p] = place]
      \/ pc' = pc
  <2>1. CASE \E p \in Procs \ {t} : SendRaw(p)
    BY <2>1 DEF SendRaw, CheckStatus, Enqueue, EnqueueTimeout, WriteBytes, UpdateIqsWaiting,
                UpdatePNonce
  <2>2. CASE \E u \in Tasks \ {t} : IridiumSend(u) \/ SendNext(u)
    BY <2>2, TwoTasks DEF Procs, SendNext, Call, IridiumSend, NonceStore, NonceReread, WaitTest,
                          WaitPoll, CopyResult
  <2>3. CASE BufferPoll \/ BufferReceive
    BY <2>3, TwoTasks DEF BufferPoll, BufferReceive
  <2>4. CASE ModemReply \/ uart_satcom_task
    BY <2>4 DEF ModemReply, uart_satcom_task, UartReceive, UartCopied, UpdateIqsOpen, locals
  <2> QED BY <2>1, <2>2, <2>3, <2>4, TwoTasks DEF TaskStep, buffer_satcom_task, Procs
<1> QED BY <1>1 DEF TypeOK, Procs

\* No function is called: the ring task has the channel to itself.
RingOnly == todo = <<>> /\ at[App] = "idle" /\ pc[App] = "idle" /\ results = {}

LEMMA RingOnlyStep ==
  ASSUME TypeOK, STInv, RingOnly, SessionNext
  PROVE  RingOnly'
<1> USE TwoTasks DEF RingOnly
<1>1. "idle" \notin DOMAIN Then
  BY DEF Then
<1>2. ~Begin /\ ~TaskStep(App) /\ ~SendNext(App) /\ ~Decide /\ ~Return
  BY <1>1, IdleTask DEF Begin, SendNext, Decide, Return, Place
<1>3. UNCHANGED <<todo, results>> /\ at'[App] = at[App]
  <2>1. \/ UNCHANGED <<todo, results, at>>
        \/ UNCHANGED <<todo, results>> /\ \E place : at' = [at EXCEPT ![Ring] = place]
    BY <1>2 DEF SessionNext, AppStep, RingStep, BufferStep, UartTaskStep, Elsewhere, Arrive,
         SessionReply, UartStep, StoreOutbound, StoreWaiting, StoreText, Reopen, HandleRing,
         RingDecide, RingEnd, SendNext, Move, progress
  <2> QED BY <2>1 DEF STInv, Places
<1>4. pc'[App] = pc[App]
  <2>1. CASE RingStep /\ (TaskStep(Ring) \/ SendNext(Ring))
    BY <2>1, OthersSteps
  <2>2. CASE BufferStep \/ SessionReply \/ UartStep \/ Reopen
    BY <2>2, OthersSteps DEF BufferStep, SessionReply, UartStep, Reopen, uart_satcom_task
  <2>3. CASE UNCHANGED vars
    BY <2>3 DEF vars
  <2> QED BY <1>2, <2>1, <2>2, <2>3
          DEF SessionNext, AppStep, RingStep, UartTaskStep, Arrive, StoreOutbound, StoreWaiting,
              StoreText, HandleRing, RingDecide, RingEnd
<1> QED BY <1>3, <1>4

\* One function is called, or may be, and nothing arrives.
RingIdle == arrivals = 0 /\ rings = 0 /\ at[Ring] = "idle" /\ pc[Ring] = "idle"
Firsts == {"AT_SBDWT", "AT_SBDMTA", "AT_CGMI"}
Going(c) ==
  CASE c = "AT_SBDWT" -> {"AT_SBDIX", "decide", "return", "idle"}
    [] c = "AT_SBDMTA" -> {"AT_W0", "AT_K0", "AT_SBDMTAQ", "return", "idle"}
    [] c = "AT_CGMI" -> {"AT_CGMM", "return", "idle"}
Wrote(c) == written # <<>> /\ written[1].task = App /\ written[1].command = c

Quiet ==
  /\ written = <<>> /\ answered = 0 /\ rx = <<>> /\ uart_pc = "receive"
  /\ buffer_queue = <<>> /\ status = "IQS_OPEN" /\ pc[BufferTask] \in {"idle", "receive"}
NotBegun ==
  /\ Quiet /\ pc[App] = "idle"
  /\ \/ at[App] = "idle" /\ Len(todo) <= 1
     \/ at[App] \in Firsts /\ todo = <<>>
FirstInHand ==
  /\ Quiet /\ pc[App] \in {"store", "reread", "check", "write"} /\ todo = <<>>
  /\ msg[App].task = App /\ msg[App].command \in Firsts /\ at[App] = Then[msg[App].command]
UnderWay == todo = <<>> /\ \E c \in Firsts : Wrote(c) /\ at[App] \in Going(c)
AppOnly == RingIdle /\ (NotBegun \/ FirstInHand \/ UnderWay)

LEMMA RingIdleStep ==
  ASSUME TypeOK, STInv, RingIdle, SessionNext
  PROVE  RingIdle' /\ ~RingStep /\ ~HandleRing /\ ~Arrive
<1> USE TwoTasks DEF RingIdle
<1>1. "idle" \notin DOMAIN Then
  BY DEF Then
<1>2. ~Arrive /\ ~TaskStep(Ring) /\ ~SendNext(Ring) /\ ~RingDecide /\ ~RingEnd /\ ~HandleRing
  <2>1. ~TaskStep(Ring)
    BY IdleTask
  <2>2. ~SendNext(Ring) /\ ~RingDecide /\ ~RingEnd
    BY <1>1 DEF SendNext, RingDecide, RingEnd, Place
  <2>3. ~Arrive /\ ~HandleRing
    BY DEF Arrive, HandleRing
  <2> QED BY <2>1, <2>2, <2>3
<1>3. UNCHANGED <<arrivals, rings>> /\ at'[Ring] = at[Ring]
  <2>1. \/ UNCHANGED <<arrivals, rings, at>>
        \/ UNCHANGED <<arrivals, rings>> /\ \E place : at' = [at EXCEPT ![App] = place]
    BY <1>2 DEF SessionNext, AppStep, RingStep, BufferStep, UartTaskStep, Elsewhere, SendNext,
         SessionReply, UartStep, StoreOutbound, StoreWaiting, StoreText, Reopen, Begin, Decide,
         Return, Move, progress, gateway
  <2> QED BY <2>1 DEF STInv, Places
<1>4. pc'[Ring] = pc[Ring]
  <2>1. CASE AppStep /\ (TaskStep(App) \/ SendNext(App))
    BY <2>1, OthersSteps
  <2>2. CASE BufferStep \/ SessionReply \/ UartStep \/ Reopen
    BY <2>2, OthersSteps DEF BufferStep, SessionReply, UartStep, Reopen, uart_satcom_task
  <2>3. CASE UNCHANGED vars
    BY <2>3 DEF vars
  <2> QED BY <1>2, <2>1, <2>2, <2>3
          DEF SessionNext, AppStep, RingStep, UartTaskStep, StoreOutbound, StoreWaiting,
              StoreText, Begin, Decide, Return
<1> QED BY <1>2, <1>3, <1>4 DEF RingStep

\* Nothing but the application moves while nothing is written or parked.
LEMMA QuietStep ==
  ASSUME TypeOK, STInv, Quiet, RingIdle, SessionNext
  PROVE  \/ Begin \/ AppStep
         \/ BufferStep /\ Quiet' /\ UNCHANGED <<written, msg, at, todo>> /\ pc'[App] = pc[App]
<1> USE TwoTasks DEF Quiet
<1>1. ~SessionReply
  BY DEF SessionReply, ModemReply
<1>2. ~UartTaskStep
  BY RingIdleStep DEF UartTaskStep, UartStep, UartReceive, UartCopied, StoreOutbound, StoreWaiting,
                      StoreText, StoreStep, Reopen, UpdateIqsOpen
<1>3. ASSUME BufferStep
      PROVE  Quiet' /\ UNCHANGED <<written, msg, at, todo>> /\ pc'[App] = pc[App]
  <2>1. BufferPoll \/ BufferReceive
    BY <1>3 DEF BufferStep, buffer_satcom_task, SendRaw, CheckStatus, Enqueue, EnqueueTimeout,
                WriteBytes, UpdateIqsWaiting, UpdatePNonce, Goto
  <2>2. /\ UNCHANGED <<written, answered, rx, uart_pc, status, buffer_queue, msg, at, todo>>
        /\ pc' \in {[pc EXCEPT ![BufferTask] = "idle"], [pc EXCEPT ![BufferTask] = "receive"]}
    BY <1>3, <2>1 DEF BufferStep, BufferPoll, BufferReceive, Goto, Elsewhere, progress, satcom,
                      modem, uart
  <2> QED BY <2>2 DEF TypeOK
<1> QED BY <1>1, <1>2, <1>3, RingIdleStep DEF SessionNext

\* The first command is sent while nothing is on its way.
LEMMA NotBegunStep ==
  ASSUME TypeOK, STInv, RingIdle, NotBegun, SessionNext
  PROVE  NotBegun' \/ FirstInHand'
<1> USE TwoTasks
<1>1. CASE Begin
  <2>1. /\ todo # <<>> /\ at' = [at EXCEPT ![App] = Start[Head(todo)]] /\ todo' = Tail(todo)
        /\ UNCHANGED vars /\ at[App] = "idle" /\ Len(todo) <= 1
    BY <1>1 DEF Begin, Move, Place, NotBegun, Firsts
  <2>2. Head(todo) \in DOMAIN Start /\ todo' = <<>>
    BY <2>1 DEF STInv, Places
  <2>3. Start[Head(todo)] \in Firsts
    BY <2>2 DEF Start, Firsts
  <2>4. at'[App] = Start[Head(todo)]
    BY <2>1 DEF STInv, Places
  <2> QED BY <2>1, <2>2, <2>3, <2>4 DEF NotBegun, Quiet, vars
<1>2. CASE AppStep
  <2>1. SendNext(App)
    BY <1>2, IdleTask DEF AppStep, Decide, Return, Place, NotBegun, Firsts
  <2>2. at[App] \in Firsts /\ todo = <<>> /\ CommandAt(at[App]) = at[App]
    BY <2>1 DEF NotBegun, SendNext, Then, Firsts, CommandAt
  <2>3. /\ at' = [at EXCEPT ![App] = Then[at[App]]] /\ UNCHANGED todo
        /\ Call(App, at[App], TRUE)
    BY <2>1, <2>2 DEF SendNext, Move
  <2>4. /\ UNCHANGED <<written, answered, rx, uart_pc, status, buffer_queue>>
        /\ pc' = [pc EXCEPT ![App] = "store"]
        /\ \E n : msg' = [msg EXCEPT ![App] = [task |-> App, call |-> msg[App].call + 1,
                                               command |-> at[App], nonce |-> n]]
    BY <2>3 DEF Call, Goto, satcom, modem, uart
  <2>5. msg'[App].task = App /\ msg'[App].command = at[App] /\ pc'[App] = "store"
        /\ pc'[BufferTask] = pc[BufferTask]
    BY <2>4 DEF TypeOK
  <2>6. at'[App] = Then[at[App]]
    BY <2>3 DEF STInv, Places
  <2> QED BY <2>2, <2>3, <2>4, <2>5, <2>6 DEF FirstInHand, NotBegun, Quiet
<1>3. CASE BufferStep /\ Quiet' /\ UNCHANGED <<written, msg, at, todo>> /\ pc'[App] = pc[App]
  BY <1>3 DEF NotBegun
<1> QED BY <1>1, <1>2, <1>3, QuietStep DEF NotBegun

\* It goes to the UART at once.
LEMMA FirstInHandStep ==
  ASSUME TypeOK, STInv, RingIdle, FirstInHand, SessionNext
  PROVE  FirstInHand' \/ UnderWay'
<1> USE TwoTasks
<1>1. ~Begin
  BY DEF Begin, FirstInHand
<1>2. CASE AppStep
  <2>1. TaskStep(App) /\ UNCHANGED <<at, todo>>
    BY <1>2 DEF AppStep, SendNext, Call, Decide, Return, Place, FirstInHand, Goto, Elsewhere,
                progress
  <2>2. CASE NonceStore(App) \/ NonceReread(App)
    <3>1. \E n : msg' = [msg EXCEPT ![App] = [@ EXCEPT !.nonce = n]]
      BY <2>2 DEF NonceStore, NonceReread
    <3>2. msg'[App].task = App /\ msg'[App].command = msg[App].command
      BY <3>1 DEF FirstInHand, TypeOK, Message
    <3>3. msg[App].command \notin HasNoCase
      BY DEF FirstInHand, Firsts, HasNoCase
    <3>4. /\ UNCHANGED <<written, answered, rx, uart_pc, status, buffer_queue>>
          /\ pc' \in {[pc EXCEPT ![App] = "reread"], [pc EXCEPT ![App] = "check"]}
      BY <2>2, <3>3 DEF NonceStore, NonceReread, Goto, satcom, modem, uart
    <3>5. pc'[App] \in {"reread", "check"} /\ pc'[BufferTask] = pc[BufferTask]
      BY <3>4 DEF TypeOK
    <3> QED BY <2>1, <3>2, <3>4, <3>5 DEF FirstInHand, Quiet
  <2>3. CASE CheckStatus(App)
    <3>1. /\ UNCHANGED <<written, answered, rx, uart_pc, status, buffer_queue, msg>>
          /\ pc' = [pc EXCEPT ![App] = "write"]
      BY <2>3 DEF CheckStatus, Goto, satcom, modem, uart, FirstInHand, Quiet
    <3>2. pc'[App] = "write" /\ pc'[BufferTask] = pc[BufferTask]
      BY <3>1 DEF TypeOK
    <3> QED BY <2>1, <3>1, <3>2 DEF FirstInHand, Quiet
  <2>4. CASE WriteBytes(App)
    <3>1. written' = <<msg[App]>> /\ UNCHANGED msg
      BY <2>4 DEF WriteBytes, FirstInHand, Quiet
    <3>2. at[App] \in Going(msg[App].command)
      BY DEF FirstInHand, Firsts, Then, Going
    <3>3. written' # <<>> /\ written'[1] = msg[App]
      BY <3>1
    <3> QED BY <2>1, <3>2, <3>3 DEF UnderWay, Wrote, FirstInHand
  <2> QED BY <2>1, <2>2, <2>3, <2>4
          DEF TaskStep, IridiumSend, SendRaw, WaitTest, WaitPoll, CopyResult, Enqueue,
              EnqueueTimeout, UpdateIqsWaiting, UpdatePNonce, Goto, FirstInHand
<1>3. CASE BufferStep /\ Quiet' /\ UNCHANGED <<written, msg, at, todo>> /\ pc'[App] = pc[App]
  BY <1>3 DEF FirstInHand
<1> QED BY <1>1, <1>2, <1>3, QuietStep DEF FirstInHand

\* What is written first stays first.
LEMMA WroteStep ==
  ASSUME TypeOK, SessionNext, NEW c, Wrote(c)
  PROVE  Wrote(c)'
<1>1. written' = written \/ \E m : written' = Append(written, m)
  <2>1. ASSUME [Next]_vars PROVE written' = written \/ \E m : written' = Append(written, m)
    BY <2>1 DEF Next, Calls, Call, TaskStep, IridiumSend, NonceStore, NonceReread, WaitTest,
                WaitPoll, CopyResult, SendRaw, CheckStatus, Enqueue, EnqueueTimeout, WriteBytes,
                UpdateIqsWaiting, UpdatePNonce, buffer_satcom_task, BufferPoll, BufferReceive,
                ModemReply, uart_satcom_task, UartReceive, UartCopied, UpdateIqsOpen, modem, vars
  <2> QED BY <2>1, SessionStepIsLinkStep
<1>2. written' # <<>> /\ written'[1] = written[1]
  <2>1. written \in Seq(Message) /\ written # <<>>
    BY DEF TypeOK, Wrote
  <2> QED BY ONLY <1>1, <2>1
<1> QED BY <1>2 DEF Wrote

\* Then the function goes its way and calls no other.
LEMMA UnderWayStep ==
  ASSUME TypeOK, STInv, RingIdle, UnderWay, SessionNext
  PROVE  UnderWay'
<1> USE TwoTasks
<1>1. PICK c \in Firsts : Wrote(c) /\ at[App] \in Going(c)
  BY DEF UnderWay
<1>2. todo' = todo /\ todo = <<>> /\ at'[App] \in Going(c)
  <2>1. todo = <<>> /\ ~Begin
    BY DEF UnderWay, Begin
  <2>2. CASE SendNext(App)
    <3>1. at' = [at EXCEPT ![App] = Then[at[App]]] /\ UNCHANGED todo /\ at[App] \in DOMAIN Then
      BY <2>2 DEF SendNext, Move
    <3>2. Then[at[App]] \in Going(c)
      BY <1>1, <3>1 DEF Then, Going, Firsts
    <3> QED BY <2>1, <3>1, <3>2 DEF STInv, Places
  <2>3. CASE Decide
    <3>1. /\ at[App] = "decide" /\ UNCHANGED todo
          /\ at' \in {[at EXCEPT ![App] = "return"], [at EXCEPT ![App] = "AT_SBDIX"]}
      BY <2>3 DEF Decide, Place, Move
    <3>2. at'[App] \in {"return", "AT_SBDIX"}
      BY <3>1 DEF STInv, Places
    <3>3. c = "AT_SBDWT"
      BY <1>1, <3>1 DEF Going, Firsts
    <3> QED BY <2>1, <3>1, <3>2, <3>3 DEF Going
  <2>4. CASE Return
    <3>1. UNCHANGED todo /\ at'[App] = "idle"
      BY <2>4 DEF Return, Move, STInv, Places
    <3> QED BY <1>1, <2>1, <3>1 DEF Going, Firsts
  <2>5. CASE UNCHANGED <<at, todo>>
    BY <1>1, <2>1, <2>5
  <2>6. SendNext(App) \/ Decide \/ Return \/ UNCHANGED <<at, todo>>
    BY <2>1, RingIdleStep
       DEF SessionNext, AppStep, BufferStep, UartTaskStep, Elsewhere, SessionReply, UartStep,
           StoreOutbound, StoreWaiting, StoreText, Reopen, progress
  <2> QED BY <2>2, <2>3, <2>4, <2>5, <2>6
<1>3. Wrote(c)'
  BY <1>1, WroteStep
<1> QED BY <1>2, <1>3 DEF UnderWay

-----------------------------------------------------------------------------
\* What a request relies on is on the UART.
Based(m) == \A c \in ReliesOn(m.command) : m.task = App /\ Wrote(c)
AllBased == \A m : Held(m) => Based(m)
PhaseInv == (AppOnly \/ RingOnly) /\ AllBased

LEMMA BasedStep ==
  ASSUME TypeOK, STInv, PhaseInv, SessionNext
  PROVE  AllBased'
<1> USE TwoTasks
<1> SUFFICES ASSUME NEW m, Held(m)' PROVE Based(m)'
  BY DEF AllBased
<1>1. ASSUME NEW n, Based(n), Like(n, m) PROVE Based(m)'
  BY <1>1, WroteStep DEF Based, Like
<1>2. CASE \E n : Held(n) /\ Like(n, m)
  BY <1>1, <1>2 DEF PhaseInv, AllBased
<1>3. ASSUME NEW t \in Tasks, SendNext(t) PROVE Based(m)'
  <2> DEFINE c == CommandAt(at[t])
  <2>1. Call(t, c, TRUE) /\ at[t] \in DOMAIN Then /\ pc[t] = "idle"
    BY <1>3 DEF SendNext, Call, Goto
  <2>2. Held(m) \/ (m.task = t /\ m.command = c)
    <3> HIDE DEF c
    <3>1. Held(m)' /\ t \in Tasks /\ TypeOK /\ Call(t, c, TRUE)
      BY <2>1
    <3>2. Held(m) \/ (m.task = t /\ m.command = c /\ m.call = msg'[t].call)
      BY ONLY <3>1, HeldCall, Zenon
    <3> QED BY ONLY <3>2
  <2>3. CASE Held(m)
    BY <1>1, <2>3 DEF PhaseInv, AllBased, Like
  <2>4. CASE m.task = t /\ m.command = c /\ ReliesOn(c) = {}
    BY <2>4 DEF Based
  <2>5. ReliesOn(c) # {} => c = at[t] /\ at[t] \in {"AT_SBDIX", "AT_W0"}
    BY <2>1 DEF ReliesOn, CommandAt
  <2>6. CASE m.task = t /\ m.command = c /\ at[t] \in {"AT_SBDIX", "AT_W0"} /\ c = at[t]
    <3>1. t = App
      BY <2>6 DEF STInv, Places, RingPlaces
    <3>2. UnderWay
      BY <2>1, <2>6, <3>1 DEF PhaseInv, AppOnly, RingOnly, NotBegun, FirstInHand, Firsts
    <3>3. PICK b \in Firsts : Wrote(b) /\ at[App] \in Going(b)
      BY <3>2 DEF UnderWay
    <3>4. ReliesOn(c) = {b}
      BY <2>6, <3>1, <3>3 DEF Going, Firsts, ReliesOn
    <3>5. Wrote(b)'
      BY <3>3, WroteStep
    <3> QED BY <2>6, <3>1, <3>4, <3>5 DEF Based
  <2> QED BY <2>2, <2>3, <2>4, <2>5, <2>6
<1>4. CASE (\E u \in Tasks : TaskStep(u)) \/ buffer_satcom_task \/ ModemReply \/ uart_satcom_task
  BY <1>2, <1>4, HeldStep
<1>5. CASE UNCHANGED vars
  BY <1>2, <1>5 DEF Held, Carries, Like, vars
<1> QED BY <1>3, <1>4, <1>5
        DEF SessionNext, AppStep, RingStep, BufferStep, UartTaskStep, Begin, Decide, Return,
            RingDecide, RingEnd, Arrive, HandleRing, SessionReply, UartStep, Reopen,
            StoreOutbound, StoreWaiting, StoreText, uart_satcom_task

\* One function is called or messages arrive.
Undisturbed == \A s \in Scenarios : Len(s.calls) <= 1 /\ (s.calls = <<>> \/ s.arrivals = 0)

LEMMA PhaseInit == ASSUME Undisturbed, SessionInit PROVE PhaseInv
<1> USE TwoTasks DEF SessionInit
<1>1. /\ written = <<>> /\ answered = 0 /\ rx = <<>> /\ uart_pc = "receive" /\ buffer_queue = <<>>
      /\ status = "IQS_OPEN" /\ \A p \in Procs : pc[p] = "idle"
  BY DEF Init
<1>2. \A m : ~Held(m)
  BY <1>1 DEF Held, Carries
<1>3. PICK s \in Scenarios : todo = s.calls /\ arrivals = s.arrivals
  OBVIOUS
<1>4. \A t \in Tasks : at[t] = "idle" /\ rings = 0 /\ results = {}
  OBVIOUS
<1>5. CASE s.calls = <<>>
  BY <1>1, <1>2, <1>3, <1>4, <1>5 DEF PhaseInv, AllBased, RingOnly
<1>6. CASE s.arrivals = 0
  BY <1>1, <1>2, <1>3, <1>4, <1>6 DEF PhaseInv, AllBased, AppOnly, RingIdle, NotBegun, Quiet,
                                      Undisturbed
<1> QED BY <1>3, <1>5, <1>6 DEF Undisturbed

LEMMA PhaseInvariant ==
  ASSUME Undisturbed PROVE SessionSpec => [](TypeOK /\ STInv /\ PhaseInv)
<1>1. ASSUME TypeOK, STInv, PhaseInv, [SessionNext]_svars PROVE PhaseInv'
  <2>1. CASE SessionNext
    <3>1. AppOnly' \/ RingOnly'
      BY <1>1, <2>1, RingOnlyStep, RingIdleStep, NotBegunStep, FirstInHandStep, UnderWayStep
         DEF PhaseInv, AppOnly
    <3> QED BY <1>1, <2>1, <3>1, BasedStep DEF PhaseInv
  <2>2. CASE UNCHANGED svars
    BY <1>1, <2>2 DEF svars, progress, gateway, vars, PhaseInv, AppOnly, RingOnly, RingIdle,
                      NotBegun, FirstInHand, UnderWay, Quiet, Wrote, AllBased, Based, Held, Carries
  <2> QED BY <1>1, <2>1, <2>2
<1> QED BY <1>1, PhaseInit, SessionInvariant, PTL DEF SessionSpec

\* A session finds the message of AT_SBDWT in the modem, and W0 saves what
\* AT_SBDMTA set, although the functions do not wait for the command before
\* (iridium_tx_message, iridium_config_ring), if no other function or task sends
\* at the same time.
THEOREM SetIsUsed ==
  ASSUME Undisturbed
  PROVE  SessionSpec => []SetBeforeUsed
<1>1. TypeOK /\ PhaseInv => SetBeforeUsed
  <2> SUFFICES ASSUME TypeOK, PhaseInv, NEW i \in DOMAIN written,
                      NEW c \in ReliesOn(written[i].command)
               PROVE  \E j \in 1 .. i - 1 : written[j].command = c
                                            /\ written[j].task = written[i].task
    BY DEF SetBeforeUsed
  <2>1. i \in 1 .. Len(written)
    BY DEF TypeOK
  <2>2. Held(written[i])
    BY <2>1 DEF Held
  <2>3. written[i].task = App /\ Wrote(c)
    BY <2>2 DEF PhaseInv, AllBased, Based
  <2>4. c # written[i].command
    BY DEF ReliesOn
  <2>5. i # 1
    BY <2>3, <2>4 DEF Wrote
  <2>6. 1 \in 1 .. i - 1
    BY <2>1, <2>5
  <2> QED BY <2>3, <2>6 DEF Wrote
<1> QED BY <1>1, PhaseInvariant, PTL

-----------------------------------------------------------------------------
\* What holds of the one message while it is sent.
Plain(m) == m.command # "AT_SBDIXA" /\ (m.command = "AT_SBDWT" => m.call = draft /\ draft # 0)
Kept == mo = draft \/ draft \in transmitted
FirstStoring == pc[App] = "set_waiting" /\ Len(written) = 1 /\ buffer_queue = <<>>
                /\ pc[BufferTask] \in {"idle", "receive"}

HeldPlain == \A m : Held(m) => Plain(m)
Unsent == written = <<>> => ~heard /\ results = {}
OkInHand == uart_pc \in {"copy", "open"} => Head(rx).final = "OK"
\* Nothing follows AT_SBDWT to the modem before it holds the message: the
\* channel opens with the OK of AT_SBDWT, except while it is being closed.
Sending ==
  Wrote("AT_SBDWT") =>
    /\ Len(written) >= 2 => Kept
    /\ status = "IQS_OPEN" => Kept \/ FirstStoring
    /\ \A p \in Procs : pc[p] = "write" => Kept
    /\ \A k \in 1 .. Len(rx) : rx[k].final = "OK" => Kept
Reported ==
  \A k \in 1 .. Len(rx) :
    rx[k].final = "OK" /\ IsSession(rx[k].msg) /\ Transfers(replies[k].outbound)
      => draft \in transmitted
OutboundSent == heard /\ status_outbound \in MO_TRANSFERRED => draft \in transmitted

SuccessInv ==
  /\ AppOnly /\ AllBased
  /\ HeldPlain /\ Unsent /\ OkInHand /\ Sending /\ Reported /\ OutboundSent /\ HeardSuccessIsSent

\* Before the first command is written the channel is quiet, then the function
\* is under way.
LEMMA WrittenPhase ==
  ASSUME AppOnly
  PROVE  /\ RingIdle
         /\ written = <<>> => Quiet /\ (NotBegun \/ FirstInHand)
         /\ written # <<>> => UnderWay
BY DEF AppOnly, NotBegun, FirstInHand, UnderWay, Wrote, Quiet

\* The draft is chosen before anything is written.
LEMMA DraftStep ==
  ASSUME TypeOK, STInv, AppOnly, SessionNext
  PROVE  /\ written # <<>> => draft' = draft
         /\ \A x \in transmitted : x \in transmitted'
<1> USE TwoTasks
<1>1. ASSUME written # <<>> PROVE draft' = draft
  <2>1. at[App] # "AT_SBDWT" /\ ~Begin
    BY <1>1, WrittenPhase DEF UnderWay, Going, Firsts, Begin
  <2>2. ~RingStep /\ ~HandleRing /\ ~Arrive
    BY WrittenPhase, RingIdleStep
  <2> QED BY <2>1, <2>2
          DEF SessionNext, AppStep, BufferStep, UartTaskStep, Elsewhere, SendNext, Decide, Return,
              SessionReply, UartStep, StoreOutbound, StoreWaiting, StoreText, Reopen, progress
<1>2. \A x \in transmitted : x \in transmitted'
  BY DEF SessionNext, AppStep, RingStep, BufferStep, UartTaskStep, Elsewhere, SendNext, Decide,
         Return, RingDecide, RingEnd, HandleRing, Arrive, Begin, gateway,
         SessionReply, Perform, UartStep, StoreOutbound, StoreWaiting, StoreText, Reopen
<1> QED BY <1>1, <1>2

\* What the modem holds or has transmitted it holds or has transmitted after
\* whatever it is told.
LEMMA PerformKeeps ==
  ASSUME HeldPlain, draft # 0, Kept, draft' = draft, NEW m, Held(m), NEW s, Perform(m, s)
  PROVE  /\ Kept'
         /\ IsSession(m) /\ Transfers(s) => draft \in transmitted'
<1>1. m.command = "AT_SBDWT" => m.call = draft
  BY DEF HeldPlain, Plain
<1> QED BY <1>1 DEF Perform, Kept, IsSession

LEMMA HeldPlainStep ==
  ASSUME TypeOK, STInv, SuccessInv, SessionNext
  PROVE  HeldPlain'
<1> USE TwoTasks
<1> SUFFICES ASSUME NEW m, Held(m)' PROVE Plain(m)'
  BY DEF HeldPlain
<1>1. RingIdle /\ ~RingStep /\ ~HandleRing /\ ~Arrive
  BY WrittenPhase, RingIdleStep DEF SuccessInv
<1>2. CASE draft' = draft /\ \E n : Held(n) /\ Like(n, m)
  BY <1>2 DEF SuccessInv, HeldPlain, Plain, Like
<1>3. CASE SendNext(App)
  <2> DEFINE c == CommandAt(at[App])
  <2>1. /\ Call(App, c, TRUE) /\ at[App] \in AppPlaces /\ at[App] \in DOMAIN Then
        /\ pc[App] = "idle"
        /\ draft' = IF at[App] = "AT_SBDWT" THEN msg'[App].call ELSE draft
    BY <1>3 DEF SendNext, STInv, Places, Call, Goto
  <2>2. c = at[App] /\ c # "AT_SBDIXA"
    BY <2>1 DEF CommandAt, AppPlaces
  <2>3. Held(m) \/ (m.task = App /\ m.command = c /\ m.call = msg'[App].call)
    <3> HIDE DEF c
    <3>1. Held(m)' /\ App \in Tasks /\ TypeOK /\ Call(App, c, TRUE)
      BY <2>1
    <3> QED BY ONLY <3>1, HeldCall, Zenon
  <2>4. CASE Held(m)
    <3>1. written # <<>>
      <4>1. ASSUME written = <<>> PROVE FALSE
        <5>1. Quiet
          BY <4>1, WrittenPhase DEF SuccessInv
        <5>2. \A p \in Procs : ~Carries(p)
          BY <2>1, <5>1, <1>1 DEF Quiet, Carries, RingIdle, Procs
        <5> QED BY <2>4, <5>1, <5>2 DEF Held, Quiet
      <4> QED BY <4>1
    <3>2. draft' = draft
      BY <3>1, DraftStep DEF SuccessInv
    <3> QED BY <1>2, <2>4, <3>2 DEF Like
  <2>5. CASE m.task = App /\ m.command = c /\ m.call = msg'[App].call
    <3>1. msg'[App].call = msg[App].call + 1 /\ msg[App].call \in Nat
      BY <2>1 DEF Call, TypeOK, Message
    <3> QED BY <2>1, <2>2, <2>5, <3>1 DEF Plain
  <2> QED BY <2>3, <2>4, <2>5
<1>4. CASE (TaskStep(App) /\ Elsewhere) \/ BufferStep \/ SessionReply \/ UartStep \/ Reopen
  <2>1. draft' = draft
    BY <1>4 DEF Elsewhere, BufferStep, SessionReply, UartStep, Reopen, progress
  <2>2. \E n : Held(n) /\ Like(n, m)
    BY <1>4, HeldStep DEF BufferStep, SessionReply, UartStep, Reopen, uart_satcom_task
  <2> QED BY <1>2, <2>1, <2>2
<1>5. CASE Begin \/ Decide \/ Return \/ StoreOutbound \/ StoreWaiting \/ StoreText
  <2>1. draft' = draft /\ UNCHANGED vars
    BY <1>5 DEF Begin, Decide, Return, StoreOutbound, StoreWaiting, StoreText, progress
  <2> QED BY <1>2, <2>1 DEF Held, Carries, Like, vars
<1> QED BY <1>1, <1>3, <1>4, <1>5 DEF SessionNext, AppStep, UartTaskStep

LEMMA FirstStays ==
  ASSUME NEW S, NEW s \in Seq(S), s # <<>>, NEW r, r = s \/ \E m : r = Append(s, m)
  PROVE  r # <<>> /\ r[1] = s[1]
OBVIOUS

\* The steps of iridium_send and of buffer_satcom_task.
LEMMA SendingRaw ==
  ASSUME TypeOK, STInv, SuccessInv, written # <<>>,
         NEW p \in Procs, SendRaw(p), UNCHANGED <<draft, mo, transmitted>>
  PROVE  Sending'
<1> USE TwoTasks DEF Goto
<1>1. Kept' = Kept /\ rx' = rx
  BY DEF Kept, SendRaw, CheckStatus, Enqueue, EnqueueTimeout, WriteBytes, UpdateIqsWaiting,
         UpdatePNonce, uart
<1> SUFFICES ASSUME Wrote("AT_SBDWT")', ~Kept PROVE Sending'
  BY <1>1 DEF Sending
<1>2. Wrote("AT_SBDWT")
  <2>1. written' = written \/ \E m : written' = Append(written, m)
    BY DEF SendRaw, CheckStatus, Enqueue, EnqueueTimeout, WriteBytes, UpdateIqsWaiting,
           UpdatePNonce, modem
  <2>2. written'[1] = written[1] /\ written' # <<>>
    <3>1. written \in Seq(Message)
      BY DEF TypeOK
    <3> QED BY <2>1, <3>1, FirstStays
  <2> QED BY <2>2 DEF Wrote
<1>3. /\ Len(written) < 2
      /\ status = "IQS_OPEN" => FirstStoring
      /\ \A q \in Procs : pc[q] # "write"
      /\ \A k \in 1 .. Len(rx) : rx[k].final # "OK"
      /\ Len(written) \in Nat
  BY <1>2 DEF SuccessInv, Sending, TypeOK
<1>4. ~WriteBytes(p)
  BY <1>3 DEF WriteBytes
<1>5. CASE UpdateIqsWaiting(p)
  BY <1>1, <1>3, <1>5 DEF UpdateIqsWaiting, Sending, modem, TypeOK
<1>6. CASE CheckStatus(p)
  <2>1. ~FirstStoring
    BY <1>6, WrittenPhase DEF CheckStatus, FirstStoring, SuccessInv, RingIdle, Procs
  <2>2. status = "IQS_WAITING" /\ pc' = [pc EXCEPT ![p] = "enqueue"]
        /\ UNCHANGED <<status, written>>
    BY <1>3, <1>6, <2>1 DEF CheckStatus, TypeOK, satcom, modem
  <2> QED BY <1>1, <1>3, <2>2 DEF Sending, TypeOK
<1>7. CASE Enqueue(p) \/ EnqueueTimeout(p) \/ UpdatePNonce(p)
  <2>1. ~FirstStoring
    BY <1>7, WrittenPhase DEF Enqueue, EnqueueTimeout, UpdatePNonce, FirstStoring, SuccessInv,
                              RingIdle, Procs
  <2>2. /\ status = "IQS_WAITING" /\ UNCHANGED <<status, written>>
        /\ pc' \in {[pc EXCEPT ![p] = "idle"], [pc EXCEPT ![p] = "wait"]}
    BY <1>3, <1>7, <2>1, AfterRawType
       DEF Enqueue, EnqueueTimeout, UpdatePNonce, TypeOK, satcom, modem
  <2> QED BY <1>1, <1>3, <2>2 DEF Sending, TypeOK
<1> QED BY <1>4, <1>5, <1>6, <1>7 DEF SendRaw

LEMMA SendingApp ==
  ASSUME TypeOK, STInv, SuccessInv, written # <<>>,
         IridiumSend(App) \/ BufferPoll \/ BufferReceive \/ SendNext(App),
         UNCHANGED <<draft, mo, transmitted>>
  PROVE  Sending'
<1> USE TwoTasks DEF Goto
<1>1. /\ Kept' = Kept /\ UNCHANGED <<rx, written, status>>
  BY DEF Kept, SendNext, Call, IridiumSend, NonceStore, NonceReread, WaitTest, WaitPoll, CopyResult,
         BufferPoll, BufferReceive, uart, modem, satcom
<1>2. \A q \in Procs : pc'[q] = "write" => pc[q] = "write"
  BY DEF SendNext, Call, IridiumSend, NonceStore, NonceReread, WaitTest, WaitPoll, CopyResult,
         BufferPoll, BufferReceive, AfterSwitch, TypeOK
<1>3. FirstStoring => FirstStoring'
  <2> SUFFICES ASSUME FirstStoring PROVE FirstStoring'
    OBVIOUS
  <2>1. BufferPoll \/ BufferReceive
    BY DEF FirstStoring, SendNext, Call, IridiumSend, NonceStore, NonceReread, WaitTest, WaitPoll,
           CopyResult
  <2>2. /\ buffer_queue' = <<>>
        /\ pc' \in {[pc EXCEPT ![BufferTask] = "idle"], [pc EXCEPT ![BufferTask] = "receive"]}
    BY <2>1 DEF BufferPoll, BufferReceive, FirstStoring
  <2> QED BY <1>1, <2>2 DEF FirstStoring, TypeOK
<1> QED BY <1>1, <1>2, <1>3 DEF SuccessInv, Sending, Wrote

\* Nothing is stored and nothing reported before the first command is written.
LEMMA UnwrittenStep ==
  ASSUME TypeOK, STInv, SuccessInv, SessionNext, written = <<>>
  PROVE  /\ UNCHANGED <<heard, results>> /\ rx' = <<>> /\ uart_pc' = "receive"
         /\ Sending'
<1> USE TwoTasks
<1>1. Quiet /\ RingIdle /\ (NotBegun \/ FirstInHand)
  BY WrittenPhase DEF SuccessInv
<1>2. CASE Begin \/ (BufferStep /\ Quiet')
  <2>1. Quiet' /\ UNCHANGED <<heard, results>>
    BY <1>1, <1>2 DEF Begin, BufferStep, Elsewhere, fields, progress, vars, Quiet
  <2> QED BY <2>1 DEF Quiet, Sending, Wrote
<1>3. CASE AppStep
  <2>1. (TaskStep(App) /\ Elsewhere) \/ SendNext(App)
    BY <1>1, <1>3 DEF AppStep, Decide, Return, Place, NotBegun, FirstInHand, Firsts
  <2>2. UNCHANGED <<heard, results>>
    BY <2>1 DEF SendNext, Elsewhere, fields, progress
  <2>3. UNCHANGED <<rx, uart_pc>>
    BY <2>1 DEF SendNext, Call, TaskStep, IridiumSend, NonceStore, NonceReread, WaitTest, WaitPoll,
                CopyResult, SendRaw, CheckStatus, Enqueue, EnqueueTimeout, WriteBytes,
                UpdateIqsWaiting, UpdatePNonce, uart
  <2>4. CASE ~WriteBytes(App)
    <3>1. written' = <<>>
      BY <2>1, <2>4 DEF SendNext, Call, TaskStep, IridiumSend, NonceStore, NonceReread, WaitTest,
                        WaitPoll, CopyResult, SendRaw, CheckStatus, Enqueue, EnqueueTimeout,
                        UpdateIqsWaiting, UpdatePNonce, modem
    <3> QED BY <1>1, <2>2, <2>3, <3>1 DEF Quiet, Sending, Wrote
  <2>5. CASE WriteBytes(App)
    <3>1. /\ pc' = [pc EXCEPT ![App] = "set_waiting"] /\ Len(written') = 1
          /\ UNCHANGED buffer_queue
      BY <2>5 DEF WriteBytes, Goto
    <3>2. pc'[App] = "set_waiting" /\ pc'[BufferTask] = pc[BufferTask] /\ pc'[Ring] = pc[Ring]
      BY <3>1 DEF TypeOK
    <3>3. FirstStoring' /\ \A p \in Procs : pc'[p] # "write"
      BY <1>1, <3>1, <3>2 DEF FirstStoring, Quiet, RingIdle, Procs
    <3>4. rx' = <<>> /\ uart_pc' = "receive"
      BY <1>1, <2>3 DEF Quiet
    <3> QED BY <2>2, <3>1, <3>3, <3>4 DEF Sending
  <2> QED BY <2>4, <2>5
<1> QED BY <1>1, <1>2, <1>3, QuietStep

\* The modem's answer to AT_SBDWT is OK only if it holds the message then, and
\* to a session after it only if it transmits the message.
LEMMA ReplyKeeps ==
  ASSUME TypeOK, STInv, SuccessInv, SessionNext, SessionReply, Wrote("AT_SBDWT"),
         NEW m, m = written[answered + 1], NEW s,
         \/ Final # "ERROR" /\ Perform(m, s)
         \/ Final # "OK" /\ UNCHANGED <<mo, transmitted, taken, failures, misjudged>>
  PROVE  /\ Kept' \/ (Final # "OK" /\ UNCHANGED <<mo, transmitted>>)
         /\ Final = "OK" /\ IsSession(m) /\ Transfers(s) => draft \in transmitted'
<1>1. /\ written # <<>> /\ answered \in Nat /\ answered < Len(written) /\ Len(written) \in Nat
      /\ answered + 1 \in 1 .. Len(written)
  BY DEF SessionReply, ModemReply, TypeOK, Wrote
<1>2. Held(m)
  BY <1>1 DEF Held
<1>3. draft' = draft
  BY <1>1, DraftStep DEF SuccessInv
<1>4. Held(written[1])
  BY <1>1 DEF Held
<1>5. draft # 0 /\ written[1].call = draft
  BY <1>4 DEF SuccessInv, HeldPlain, Plain, Wrote
<1>6. CASE answered = 0
  <2>1. m = written[1]
    BY <1>6
  <2>2. m.command = "AT_SBDWT" /\ m.call = draft
    BY <1>5, <2>1 DEF Wrote
  <2>3. ~IsSession(m)
    BY <2>2 DEF IsSession
  <2>4. Perform(m, s) => mo' = draft
    BY <2>2, <2>3 DEF Perform
  <2> QED BY <1>3, <2>3, <2>4 DEF Kept
<1>7. CASE answered # 0
  <2>1. Len(written) >= 2
    BY <1>1, <1>7
  <2>2. Kept
    BY <2>1 DEF SuccessInv, Sending
  <2>3. ASSUME Perform(m, s) PROVE Kept' /\ (IsSession(m) /\ Transfers(s) => draft \in transmitted')
    BY <1>2, <1>3, <1>5, <2>2, <2>3, PerformKeeps DEF SuccessInv
  <2>4. UNCHANGED <<mo, transmitted, taken, failures>> => Kept'
    BY <1>3, <2>2 DEF Kept
  <2> QED BY <2>3, <2>4
<1> QED BY <1>6, <1>7

LEMMA ReplySuccess ==
  ASSUME TypeOK, STInv, SuccessInv, SessionNext, SessionReply
  PROVE  Sending' /\ Reported' /\ OkInHand'
<1> DEFINE m == written[answered + 1]
<1>1. PICK s \in Nat :
        /\ \/ Final # "ERROR" /\ Perform(m, s)
           \/ Final # "OK" /\ UNCHANGED <<mo, transmitted, taken, failures, misjudged>>
        /\ \/ UNCHANGED <<rx, replies>>
           \/ \E r \in Report : /\ r.outbound = s /\ replies' = Append(replies, r)
                                /\ rx' = Append(rx, [msg |-> m, final |-> Final])
  BY ReplyCases DEF STInv
<1>2. /\ UNCHANGED <<written, status, pc, uart_pc, buffer_queue>>
      /\ written # <<>> /\ answered + 1 \in 1 .. Len(written)
  BY DEF SessionReply, ModemReply, satcom, locals, TypeOK
<1>3. /\ draft' = draft
      /\ \A x \in transmitted : x \in transmitted'
  BY <1>2, DraftStep DEF SuccessInv
<1>4. Held(m)
  BY <1>2 DEF Held
<1> HIDE DEF m
<1>5. /\ rx \in Seq([msg : Message, final : {"OK", "ERROR"}]) /\ replies \in Seq(Report)
      /\ Len(rx) = Len(replies)
  BY DEF TypeOK, STInv, Gateway
<1>6. OkInHand'
  <2>1. uart_pc \in {"copy", "open"} => rx # <<>>
    BY DEF TypeOK
  <2>2. rx # <<>> => Head(rx') = Head(rx)
    BY <1>1, <1>5
  <2> QED BY <1>2, <2>1, <2>2 DEF SuccessInv, OkInHand
<1>7. Sending'
  <2> SUFFICES ASSUME Wrote("AT_SBDWT") PROVE Sending'
    BY <1>2 DEF Sending, Wrote
  <2>1. CASE Kept'
    BY <2>1 DEF Sending
  <2>2. CASE Final # "OK" /\ UNCHANGED <<mo, transmitted>>
    <3>1. Kept' = Kept /\ FirstStoring' = FirstStoring
      BY <1>2, <1>3, <2>2 DEF Kept, FirstStoring
    <3>2. ASSUME NEW k \in 1 .. Len(rx'), rx'[k].final = "OK" PROVE Kept
      <4>1. \/ rx' = rx
            \/ rx' = Append(rx, [msg |-> m, final |-> Final])
        BY <1>1
      <4>2. CASE rx' = rx
        BY <3>2, <4>2 DEF SuccessInv, Sending
      <4>3. CASE rx' = Append(rx, [msg |-> m, final |-> Final])
        <5>1. Len(rx') = Len(rx) + 1 /\ rx'[Len(rx) + 1].final = Final /\ Len(rx) \in Nat
          BY <1>5, <4>3
        <5>2. k \in 1 .. Len(rx)
          BY <2>2, <3>2, <5>1
        <5>3. rx'[k] = rx[k]
          BY <1>5, <4>3, <5>2
        <5> QED BY <3>2, <5>2, <5>3 DEF SuccessInv, Sending
      <4> QED BY <4>1, <4>2, <4>3
    <3> QED BY <1>2, <3>1, <3>2 DEF SuccessInv, Sending
  <2> QED BY <1>1, <2>1, <2>2, ReplyKeeps DEF m
<1>8. Reported'
  <2> SUFFICES ASSUME NEW k \in 1 .. Len(rx'), rx'[k].final = "OK", IsSession(rx'[k].msg),
                      Transfers(replies'[k].outbound)
               PROVE  draft \in transmitted'
    BY <1>3 DEF Reported
  <2>1. CASE k \in 1 .. Len(rx)
    <3>1. /\ rx' = rx \/ \E e : rx' = Append(rx, e)
          /\ replies' = replies \/ \E e : replies' = Append(replies, e)
      BY <1>1
    <3>2. rx'[k] = rx[k]
      BY <1>5, <2>1, <3>1
    <3>3. replies'[k] = replies[k]
      BY <1>5, <2>1, <3>1
    <3> QED BY <1>3, <2>1, <3>2, <3>3 DEF SuccessInv, Reported
  <2>2. CASE k \notin 1 .. Len(rx)
    <3>1. rx'[k] = [msg |-> m, final |-> Final] /\ replies'[k].outbound = s
      BY <1>1, <1>5, <2>2
    <3>2. IsSession(m) /\ Final = "OK" /\ Transfers(s)
      BY <3>1
    <3>3. m.command = "AT_SBDIX"
      BY <1>4, <3>2 DEF SuccessInv, HeldPlain, Plain, IsSession
    <3>4. Wrote("AT_SBDWT")
      BY <1>4, <3>3 DEF SuccessInv, AllBased, Based, ReliesOn
    <3> QED BY <1>1, <3>2, <3>4, ReplyKeeps DEF m
  <2> QED BY <2>1, <2>2
<1> QED BY <1>6, <1>7, <1>8

LEMMA ReopenSuccess ==
  ASSUME TypeOK, STInv, SuccessInv, SessionNext, Reopen
  PROVE  Sending' /\ Reported' /\ OkInHand'
<1>1. /\ rx' = Tail(rx) /\ replies' = Tail(replies) /\ uart_pc = "open" /\ uart_pc' = "receive"
      /\ UNCHANGED <<written, pc, buffer_queue, draft, mo, transmitted>>
  BY DEF Reopen, UpdateIqsOpen, locals, modem, progress, gateway
<1>2. /\ rx \in Seq([msg : Message, final : {"OK", "ERROR"}]) /\ replies \in Seq(Report)
      /\ Len(rx) = Len(replies) /\ rx # <<>>
  BY <1>1 DEF TypeOK, STInv, Gateway
<1>3. 1 \in 1 .. Len(rx) /\ rx[1].final = "OK"
  BY <1>1, <1>2 DEF SuccessInv, OkInHand
<1>4. ASSUME NEW k \in 1 .. Len(rx')
      PROVE  k + 1 \in 1 .. Len(rx) /\ rx'[k] = rx[k + 1] /\ replies'[k] = replies[k + 1]
  <2>1. k + 1 \in 1 .. Len(rx) /\ rx'[k] = rx[k + 1]
    BY <1>1, <1>2
  <2>2. k \in 1 .. Len(Tail(replies)) /\ replies # <<>>
    BY <1>2, <2>1
  <2>3. replies'[k] = replies[k + 1]
    BY <1>1, <1>2, <2>2
  <2> QED BY <2>1, <2>3
<1>5. Kept' = Kept
  BY <1>1 DEF Kept
<1>6. Wrote("AT_SBDWT")' => Kept
  BY <1>1, <1>3 DEF SuccessInv, Sending, Wrote
<1>7. Sending'
  BY <1>5, <1>6 DEF Sending
<1>8. Reported'
  BY <1>1, <1>4 DEF SuccessInv, Reported
<1> QED BY <1>1, <1>7, <1>8 DEF OkInHand

\* The steps of iridium_send and of buffer_satcom_task, and the decisions of
\* the function.
LEMMA QuietSuccess ==
  ASSUME TypeOK, STInv, SuccessInv, SessionNext, written # <<>>,
         AppStep \/ BufferStep \/ UartStep \/ StoreOutbound \/ StoreWaiting \/ StoreText
  PROVE  Sending' /\ Reported' /\ OkInHand'
<1> USE TwoTasks
<1>1. draft' = draft
  BY DraftStep DEF SuccessInv
<1>2. UNCHANGED <<mo, transmitted, replies>>
  BY DEF AppStep, SendNext, Decide, Return, BufferStep, Elsewhere, UartStep, StoreOutbound,
         StoreWaiting, StoreText, gateway
<1>3. rx' = rx
  BY DEF AppStep, SendNext, Call, Decide, Return, BufferStep, UartStep, StoreOutbound,
         StoreWaiting, StoreText, TaskStep, IridiumSend, NonceStore, NonceReread, WaitTest,
         WaitPoll, CopyResult, SendRaw, CheckStatus, Enqueue, EnqueueTimeout, WriteBytes,
         UpdateIqsWaiting, UpdatePNonce, buffer_satcom_task, BufferPoll, BufferReceive,
         UartReceive, UartCopied, uart, vars
<1>4. uart_pc' = uart_pc \/ (uart_pc' \in {"copy", "open"} /\ Head(rx).final = "OK")
      \/ uart_pc' = "spin"
  BY DEF AppStep, SendNext, Call, Decide, Return, BufferStep, UartStep, StoreOutbound,
         StoreWaiting, StoreText, TaskStep, IridiumSend, NonceStore, NonceReread, WaitTest,
         WaitPoll, CopyResult, SendRaw, CheckStatus, Enqueue, EnqueueTimeout, WriteBytes,
         UpdateIqsWaiting, UpdatePNonce, buffer_satcom_task, BufferPoll, BufferReceive,
         UartReceive, UartCopied, uart, vars, SuccessInv, OkInHand
<1>5. Reported' /\ OkInHand'
  BY <1>1, <1>2, <1>3, <1>4 DEF SuccessInv, Reported, OkInHand
<1>6. Sending'
  <2>1. CASE \E p \in Procs : SendRaw(p)
    BY <1>1, <1>2, <2>1, SendingRaw
  <2>2. CASE IridiumSend(App) \/ BufferPoll \/ BufferReceive \/ SendNext(App)
    BY <1>1, <1>2, <2>2, SendingApp
  <2>3. CASE UNCHANGED <<pc, written, status, buffer_queue>>
    BY <1>1, <1>2, <1>3, <2>3 DEF SuccessInv, Sending, Wrote, Kept, FirstStoring
  <2>4. Decide \/ Return \/ UartStep \/ StoreOutbound \/ StoreWaiting \/ StoreText
        => UNCHANGED <<pc, written, status, buffer_queue>>
    BY DEF Decide, Return, UartStep, StoreOutbound, StoreWaiting, StoreText, UartReceive,
           UartCopied, vars, locals, modem
  <2> QED BY <2>1, <2>2, <2>3, <2>4 DEF AppStep, BufferStep, TaskStep, buffer_satcom_task
<1> QED BY <1>5, <1>6

LEMMA WrittenStep ==
  ASSUME TypeOK, STInv, SuccessInv, SessionNext, written # <<>>
  PROVE  /\ Sending' /\ Reported' /\ OkInHand'
         /\ OutboundSent' /\ HeardSuccessIsSent' /\ Unsent'
<1> USE TwoTasks
<1>1. /\ draft' = draft
      /\ \A x \in transmitted : x \in transmitted'
  BY DraftStep DEF SuccessInv
<1>2. written' # <<>>
  BY WrittenPhase, WroteStep DEF SuccessInv, UnderWay, Wrote
<1>3. \/ AppStep \/ BufferStep \/ UartStep \/ StoreOutbound \/ StoreWaiting \/ StoreText
      \/ SessionReply \/ Reopen
  BY WrittenPhase, RingIdleStep DEF SuccessInv, SessionNext, UartTaskStep, Begin, UnderWay
<1>4. Sending' /\ Reported' /\ OkInHand'
  BY <1>3, QuietSuccess, ReplySuccess, ReopenSuccess
<1>5. OutboundSent'
  <2>1. CASE StoreOutbound
    <3>1. /\ uart_pc = "open" /\ IsSession(Head(rx).msg)
          /\ status_outbound' = Head(replies).outbound
      BY <2>1 DEF StoreOutbound, StoreStep
    <3>2. /\ 1 \in 1 .. Len(rx) /\ Head(rx) = rx[1] /\ Head(replies) = replies[1]
      BY <3>1 DEF TypeOK, STInv, Gateway
    <3>3. \A x \in MO_TRANSFERRED : Transfers(x)
      BY DEF MO_TRANSFERRED, Transfers
    <3> QED BY <1>1, <3>1, <3>2, <3>3 DEF SuccessInv, OkInHand, Reported, OutboundSent
  <2>2. CASE UNCHANGED <<status_outbound, heard>>
    BY <1>1, <2>2 DEF SuccessInv, OutboundSent
  <2>3. StoreOutbound \/ UNCHANGED <<status_outbound, heard>>
    BY <1>3 DEF AppStep, SendNext, Decide, Return, BufferStep, Elsewhere, UartStep, StoreWaiting,
                StoreText, SessionReply, Reopen, fields
  <2> QED BY <2>1, <2>2, <2>3
<1>6. HeardSuccessIsSent'
  <2>1. CASE Decide
    <3>1. \A r \in results' :
            r \in results \/ (r.message = draft /\ (r.success /\ r.heard => draft \in transmitted))
      <4> DEFINE sent == status_outbound \in MO_TRANSFERRED
      <4>1. heard /\ sent => draft \in transmitted
        BY DEF SuccessInv, OutboundSent
      <4> HIDE DEF sent
      <4>2. LET r == Result(sent)
            IN  r.message = draft /\ r.success = sent /\ r.heard = heard
        BY DEF Result
      <4>3. results' = results \/ results' = results \cup {Result(sent)}
        BY <2>1 DEF Decide, sent
      <4> QED BY <4>1, <4>2, <4>3
    <3> QED BY <1>1, <3>1 DEF SuccessInv, HeardSuccessIsSent
  <2>2. CASE UNCHANGED results
    BY <1>1, <2>2 DEF SuccessInv, HeardSuccessIsSent
  <2>3. Decide \/ UNCHANGED results
    BY <1>3 DEF AppStep, SendNext, Return, BufferStep, Elsewhere, UartStep, StoreOutbound,
                StoreWaiting, StoreText, SessionReply, Reopen, progress
  <2> QED BY <2>1, <2>2, <2>3
<1> QED BY <1>2, <1>4, <1>5, <1>6 DEF Unsent

LEMMA SuccessStep ==
  ASSUME TypeOK, STInv, SuccessInv, PhaseInv', SessionNext
  PROVE  SuccessInv'
<1>1. AppOnly'
  <2>1. RingIdle'
    BY RingIdleStep, WrittenPhase DEF SuccessInv
  <2> QED BY <2>1, NotBegunStep, FirstInHandStep, UnderWayStep DEF SuccessInv, AppOnly
<1>2. AllBased' /\ HeldPlain'
  BY HeldPlainStep DEF PhaseInv
<1>3. CASE written # <<>>
  BY <1>1, <1>2, <1>3, WrittenStep DEF SuccessInv
<1>4. CASE written = <<>>
  <2>1. /\ UNCHANGED <<heard, results>> /\ rx' = <<>> /\ uart_pc' = "receive"
        /\ Sending'
    BY <1>4, UnwrittenStep
  <2>2. ~heard' /\ results' = {}
    BY <1>4, <2>1 DEF SuccessInv, Unsent
  <2> QED BY <1>1, <1>2, <2>1, <2>2
          DEF SuccessInv, Unsent, OkInHand, Reported, OutboundSent, HeardSuccessIsSent
<1> QED BY <1>3, <1>4

\* A success that iridium_tx_message reports is one, if no other function or
\* task sends at the same time and a session has ended before the function
\* decides (298): the message of its AT_SBDWT has left the modem, however late
\* the SBDIX that transmits it was written (277-310 on 104-113 and 401).  Only
\* what malloc left in status_outbound (618) can make it say so of a message
\* that is still to be sent.
THEOREM SuccessIsSent ==
  ASSUME Undisturbed
  PROVE  SessionSpec => []HeardSuccessIsSent
<1> DEFINE Alone == (RingOnly \/ SuccessInv) /\ AllBased
<1>1. ASSUME SessionInit PROVE Alone
  <2> USE TwoTasks
  <2>1. /\ written = <<>> /\ rx = <<>> /\ uart_pc = "receive" /\ buffer_queue = <<>>
        /\ \A p \in Procs : pc[p] = "idle"
    BY <1>1 DEF SessionInit, Init
  <2>2. \A m : ~Held(m)
    BY <2>1 DEF Held, Carries
  <2>3. ~heard /\ results = {}
    BY <1>1 DEF SessionInit
  <2>4. PhaseInv
    BY <1>1, PhaseInit
  <2> QED BY <2>1, <2>2, <2>3, <2>4
          DEF PhaseInv, SuccessInv, HeldPlain, Unsent, OkInHand, Sending, Wrote, Reported,
              OutboundSent, HeardSuccessIsSent
<1>2. ASSUME TypeOK, STInv, PhaseInv, PhaseInv', Alone, [SessionNext]_svars PROVE Alone'
  <2>1. CASE SessionNext
    BY <1>2, <2>1, RingOnlyStep, SuccessStep DEF PhaseInv
  <2>2. CASE UNCHANGED svars
    BY <1>2, <2>2
       DEF svars, vars, progress, fields, gateway, RingOnly, SuccessInv, AppOnly, AllBased, Based,
           Held, Carries, HeldPlain, Plain, Unsent, OkInHand, Sending, Wrote, Kept, FirstStoring,
           Reported, OutboundSent, HeardSuccessIsSent, RingIdle, NotBegun, FirstInHand, UnderWay,
           Quiet
  <2> QED BY <1>2, <2>1, <2>2
<1>3. Alone => HeardSuccessIsSent
  BY DEF RingOnly, SuccessInv, HeardSuccessIsSent
<1> QED BY <1>1, <1>2, <1>3, PhaseInvariant, PTL DEF SessionSpec

-----------------------------------------------------------------------------
(***************************************************************************)
(* The ring session alone.  ring_satcom_task sends its next command when   *)
(* the reply to the last one has been handled, so every command finds the  *)
(* channel open, nothing is parked, and a session starts when the text     *)
(* before it was read.  When a reply is lost the task waits for ever.      *)
(***************************************************************************)
Done(k) == Fetched(k) \/ k \in misjudged
AllFetched == \A k \in 1 .. taken : Done(k)
OldFetched == \A k \in 1 .. taken - 1 : Done(k)
\* A session that failed brought nothing, or what it brought is given up.
Concluded(s) == s \in MO_TRANSFERRED \/ AllFetched

ChannelFree == answered = Len(written) /\ rx = <<>> /\ uart_pc = "receive"
\* The reply to the command of ring_satcom_task has been handled.
Handled ==
  /\ ChannelFree /\ status = "IQS_OPEN"
  /\ IF msg[Ring].command = "AT_SBDIXA" THEN Concluded(status_outbound) ELSE AllFetched

\* Between two commands, and which command takes the task where.
RingPlace ==
  /\ pc[Ring] = "idle" =>
       /\ at[Ring] \in {"idle", "AT_CRIS", "AT_SBDIXA", "end"} => AllFetched
       /\ at[Ring] = "outbound" => Concluded(status_outbound)
  /\ pc[Ring] # "idle" =>
       \/ msg[Ring].command = "AT_CRIS" /\ at[Ring] = "AT_SBDIXA"
       \/ msg[Ring].command = "AT_SBDIXA" /\ at[Ring] = "outbound"
       \/ msg[Ring].command = "AT_SBDRT" /\ at[Ring] \in {"AT_SBDIXA", "end"}

RingSends ==
  /\ buffer_queue = <<>> /\ pc[BufferTask] \in {"idle", "receive"}
  /\ pc[Ring] \in {"idle", "store", "reread", "check", "write"} =>
       ChannelFree /\ status = "IQS_OPEN"
  /\ pc[Ring] \notin {"enqueue", "receive"}
  /\ pc[Ring] # "idle" => waits[Ring]
  /\ pc[Ring] \in {"store", "reread", "check", "write", "set_waiting", "set_nonce", "poll"} =>
       t_status[Ring] # "IQS_OPEN"
  /\ pc[Ring] \in {"wait", "poll", "copy"} => p_nonce = msg[Ring].nonce
  /\ pc[Ring] \in {"set_nonce", "wait", "poll"} /\ status = "IQS_OPEN" => Handled
  /\ pc[Ring] = "wait" /\ t_status[Ring] = "IQS_OPEN" => Handled
  /\ pc[Ring] = "copy" => Handled

Asked == pc[Ring] \in {"store", "reread", "check", "write"} \/ answered < Len(written)
\* What the OK reply to command c says, and what of it is stored.
Answer(c) ==
  /\ c = "AT_SBDIXA" =>
       /\ Concluded(replies[1].outbound)
       /\ uart_pc = "open" /\ stored # "none" => status_outbound = replies[1].outbound
  /\ c = "AT_SBDRT" =>
       /\ replies[1].text = taken
       /\ uart_pc = "open" /\ stored # "none" => AllFetched
  /\ c \notin {"AT_SBDIXA", "AT_SBDRT"} => AllFetched

RingReads ==
  /\ fetched \in Seq(Nat) /\ OldFetched
  /\ Asked /\ msg[Ring].command # "AT_SBDRT" => AllFetched
  /\ answered < Len(written) =>
       answered + 1 = Len(written) /\ written[answered + 1] = msg[Ring] /\ rx = <<>>
  /\ rx # <<>> => Len(rx) = 1 /\ rx[1].msg = msg[Ring]
  /\ rx # <<>> /\ rx[1].final = "OK" => Answer(msg[Ring].command)
  /\ uart_pc \in {"copy", "open"} => rx[1].final = "OK"

InboundInv == RingPlace /\ RingSends /\ RingReads

\* A step that changes nothing of the channel but where ring_satcom_task is.
LEMMA RingTaskStep ==
  ASSUME TypeOK, STInv, InboundInv, TaskStep(Ring), Elsewhere
  PROVE  InboundInv'
<1> USE TwoTasks DEF Goto
<1>1. UNCHANGED <<taken, fetched, misjudged, replies, stored, status_outbound, at>>
  BY DEF Elsewhere, progress, fields, gateway
<1>2. AllFetched' = AllFetched /\ OldFetched' = OldFetched
  BY <1>1 DEF AllFetched, OldFetched, Done, Fetched
<1>3. \A s : Concluded(s)' = Concluded(s)
  BY <1>2 DEF Concluded
<1>4. \A c : uart_pc' = uart_pc => Answer(c)' = Answer(c)
  BY <1>1, <1>2, <1>3 DEF Answer
<1>5. CASE NonceStore(Ring) \/ NonceReread(Ring)
  <2>1. /\ pc[Ring] \in {"store", "reread"}
        /\ msg[Ring].command \in {"AT_CRIS", "AT_SBDIXA", "AT_SBDRT"}
    BY <1>5 DEF NonceStore, NonceReread, InboundInv, RingPlace
  <2>2. \E n : msg' = [msg EXCEPT ![Ring] = [@ EXCEPT !.nonce = n]]
    BY <1>5 DEF NonceStore, NonceReread
  <2>3. msg'[Ring].command = msg[Ring].command
    BY <2>2 DEF TypeOK, Message
  <2>4. /\ UNCHANGED <<written, answered, rx, uart_pc, status, buffer_queue, waits, t_status>>
        /\ pc' \in {[pc EXCEPT ![Ring] = "reread"], [pc EXCEPT ![Ring] = "check"]}
    BY <1>5, <2>1 DEF NonceStore, NonceReread, HasNoCase, satcom, modem, uart
  <2>5. pc'[Ring] \in {"reread", "check"} /\ pc'[BufferTask] = pc[BufferTask]
    BY <2>4 DEF TypeOK
  <2> QED BY <1>1, <1>2, <1>3, <2>1, <2>3, <2>4, <2>5
          DEF InboundInv, RingPlace, RingSends, RingReads, ChannelFree, Asked
<1>6. CASE CheckStatus(Ring)
  <2>1. /\ UNCHANGED <<written, answered, rx, uart_pc, status, buffer_queue, waits, t_status, msg>>
        /\ pc[Ring] = "check" /\ pc' = [pc EXCEPT ![Ring] = "write"]
    BY <1>6 DEF CheckStatus, InboundInv, RingSends, satcom, modem, uart
  <2>2. pc'[Ring] = "write" /\ pc'[BufferTask] = pc[BufferTask]
    BY <2>1 DEF TypeOK
  <2> QED BY <1>1, <1>2, <1>3, <2>1, <2>2
          DEF InboundInv, RingPlace, RingSends, RingReads, ChannelFree, Asked
<1>7. CASE WriteBytes(Ring)
  <2>1. /\ UNCHANGED <<answered, rx, uart_pc, status, buffer_queue, waits, t_status, msg>>
        /\ pc[Ring] = "write" /\ pc' = [pc EXCEPT ![Ring] = "set_waiting"]
        /\ written' = Append(written, msg[Ring])
    BY <1>7 DEF WriteBytes, satcom, uart
  <2>2. pc'[Ring] = "set_waiting" /\ pc'[BufferTask] = pc[BufferTask]
    BY <2>1 DEF TypeOK
  <2>3. Len(written') = Len(written) + 1 /\ written'[Len(written) + 1] = msg[Ring]
        /\ Len(written) \in Nat
    BY <2>1 DEF TypeOK
  <2>4. /\ answered' + 1 = Len(written') /\ written'[answered' + 1] = msg'[Ring] /\ rx' = <<>>
        /\ uart_pc' = "receive"
    BY <2>1, <2>3 DEF InboundInv, RingSends, ChannelFree
  <2> QED BY <1>1, <1>2, <1>3, <2>1, <2>2, <2>4
          DEF InboundInv, RingPlace, RingSends, RingReads, Asked
<1>8. CASE UpdateIqsWaiting(Ring)
  <2>1. /\ UNCHANGED <<written, answered, rx, uart_pc, buffer_queue, waits, t_status, msg>>
        /\ pc[Ring] = "set_waiting" /\ pc' = [pc EXCEPT ![Ring] = "set_nonce"]
        /\ status' = "IQS_WAITING"
    BY <1>8 DEF UpdateIqsWaiting, modem, uart
  <2>2. pc'[Ring] = "set_nonce" /\ pc'[BufferTask] = pc[BufferTask]
    BY <2>1 DEF TypeOK
  <2> QED BY <1>1, <1>2, <1>3, <1>4, <2>1, <2>2
          DEF InboundInv, RingPlace, RingSends, RingReads, Asked
<1>9. CASE UpdatePNonce(Ring)
  <2>1. AfterRaw(Ring) = "wait"
    BY <1>9 DEF UpdatePNonce, AfterRaw, AfterSwitch, InboundInv, RingPlace, RingSends,
                ReturnsAfterRaw
  <2>2. /\ UNCHANGED <<written, answered, rx, uart_pc, status, buffer_queue, waits, t_status, msg>>
        /\ pc[Ring] = "set_nonce" /\ pc' = [pc EXCEPT ![Ring] = "wait"]
        /\ p_nonce' = msg[Ring].nonce
    BY <1>9, <2>1 DEF UpdatePNonce, modem, uart
  <2>3. pc'[Ring] = "wait" /\ pc'[BufferTask] = pc[BufferTask]
    BY <2>2 DEF TypeOK
  <2> QED BY <1>1, <1>2, <1>3, <1>4, <2>2, <2>3
          DEF InboundInv, RingPlace, RingSends, RingReads, ChannelFree, Handled, Asked
<1>10. CASE WaitTest(Ring) \/ WaitPoll(Ring)
  <2>1. /\ UNCHANGED <<written, answered, rx, uart_pc, status, buffer_queue, waits, msg, p_nonce>>
    BY <1>10 DEF WaitTest, WaitPoll, satcom, modem, uart
  <2>2. \/ /\ pc[Ring] = "poll" /\ pc' = [pc EXCEPT ![Ring] = "wait"]
           /\ t_status' = [t_status EXCEPT ![Ring] = status]
        \/ /\ pc[Ring] = "wait" /\ t_status[Ring] # "IQS_OPEN"
           /\ pc' = [pc EXCEPT ![Ring] = "poll"] /\ t_status' = t_status
        \/ /\ pc[Ring] = "wait" /\ t_status[Ring] = "IQS_OPEN"
           /\ pc' = [pc EXCEPT ![Ring] = "copy"] /\ t_status' = t_status
    BY <1>10 DEF WaitTest, WaitPoll, InboundInv, RingSends
  <2>3. /\ pc'[BufferTask] = pc[BufferTask]
        /\ \/ pc[Ring] = "poll" /\ pc'[Ring] = "wait" /\ t_status'[Ring] = status
           \/ pc[Ring] = "wait" /\ t_status[Ring] # "IQS_OPEN" /\ pc'[Ring] = "poll"
              /\ t_status' = t_status
           \/ pc[Ring] = "wait" /\ t_status[Ring] = "IQS_OPEN" /\ pc'[Ring] = "copy"
              /\ t_status' = t_status
    BY <2>2 DEF TypeOK
  <2>4. RingPlace' /\ RingReads'
    BY <1>1, <1>2, <1>3, <1>4, <2>1, <2>3 DEF InboundInv, RingPlace, RingReads, Asked
  <2>5. Handled' = Handled /\ ChannelFree' = ChannelFree
    BY <1>2, <1>3, <1>1, <2>1 DEF Handled, ChannelFree
  <2>6. RingSends'
    <3> USE DEF InboundInv, RingSends
    <3>1. CASE pc[Ring] = "poll" /\ pc'[Ring] = "wait" /\ t_status'[Ring] = status
      BY <2>1, <2>3, <2>5, <3>1
    <3>2. CASE pc[Ring] = "wait" /\ t_status[Ring] # "IQS_OPEN" /\ pc'[Ring] = "poll"
               /\ t_status' = t_status
      BY <2>1, <2>3, <2>5, <3>2
    <3>3. CASE pc[Ring] = "wait" /\ t_status[Ring] = "IQS_OPEN" /\ pc'[Ring] = "copy"
               /\ t_status' = t_status
      BY <2>1, <2>3, <2>5, <3>3
    <3> QED BY <2>3, <3>1, <3>2, <3>3
  <2> QED BY <2>4, <2>6 DEF InboundInv
<1>11. CASE CopyResult(Ring)
  <2>1. /\ UNCHANGED <<written, answered, rx, uart_pc, status, buffer_queue, msg, waits>>
        /\ pc[Ring] = "copy" /\ pc' = [pc EXCEPT ![Ring] = "idle"]
    BY <1>11 DEF CopyResult, satcom, modem, uart
  <2>2. pc'[Ring] = "idle" /\ pc'[BufferTask] = pc[BufferTask]
    BY <2>1 DEF TypeOK
  <2> QED BY <1>1, <1>2, <1>3, <1>4, <2>1, <2>2
          DEF InboundInv, RingPlace, RingSends, RingReads, ChannelFree, Handled, Asked
<1>12. ~Enqueue(Ring) /\ ~EnqueueTimeout(Ring)
  BY DEF Enqueue, EnqueueTimeout, InboundInv, RingSends
<1> QED BY <1>5, <1>6, <1>7, <1>8, <1>9, <1>10, <1>11, <1>12 DEF TaskStep, IridiumSend, SendRaw

\* The next command of ring_satcom_task.
LEMMA RingCallStep ==
  ASSUME TypeOK, STInv, InboundInv, SendNext(Ring)
  PROVE  InboundInv'
<1> USE TwoTasks
<1> DEFINE c == CommandAt(at[Ring])
<1>1. /\ UNCHANGED <<fields, gateway, fetched, replies>> /\ at[Ring] \in DOMAIN Then
      /\ at' = [at EXCEPT ![Ring] = Then[at[Ring]]] /\ Call(Ring, c, TRUE)
  BY DEF SendNext, Move
<1>2. /\ pc[Ring] = "idle" /\ pc' = [pc EXCEPT ![Ring] = "store"]
      /\ \E m : m.command = c /\ msg' = [msg EXCEPT ![Ring] = m]
      /\ waits' = [waits EXCEPT ![Ring] = TRUE]
      /\ t_status' = [t_status EXCEPT ![Ring] = "IQS_NONE"]
      /\ UNCHANGED <<buffer_queue, written, answered, rx, uart_pc, status>>
  <2> HIDE DEF c
  <2> QED BY <1>1 DEF Call, Goto, satcom, modem, uart
<1>3. /\ pc'[Ring] = "store" /\ pc'[BufferTask] = pc[BufferTask] /\ msg'[Ring].command = c
      /\ waits'[Ring] /\ t_status'[Ring] # "IQS_OPEN" /\ at'[Ring] = Then[at[Ring]]
  <2> HIDE DEF c
  <2> QED BY <1>1, <1>2 DEF TypeOK, STInv, Places
<1>4. AllFetched' = AllFetched /\ OldFetched' = OldFetched
  BY <1>1 DEF AllFetched, OldFetched, Done, Fetched, gateway
<1>5. at[Ring] \in {"AT_CRIS", "AT_SBDIXA", "AT_SBDRT", "last"}
  BY <1>1 DEF STInv, Places, RingPlaces, Then
<1>6. RingPlace'
  BY <1>3, <1>5 DEF RingPlace, CommandAt, Then
<1>7. c # "AT_SBDRT" => AllFetched
  BY <1>2, <1>5 DEF CommandAt, InboundInv, RingPlace
<1> HIDE DEF c
<1>8. ChannelFree /\ status = "IQS_OPEN"
  BY <1>2 DEF InboundInv, RingSends
<1>9. ChannelFree' /\ status' = "IQS_OPEN"
  BY <1>2, <1>8 DEF ChannelFree
<1>10. RingSends'
  BY <1>2, <1>3, <1>9 DEF InboundInv, RingSends
<1>11. RingReads'
  <2>1. rx' = <<>> /\ ~(answered' < Len(written')) /\ uart_pc' = "receive"
    BY <1>9 DEF ChannelFree, TypeOK
  <2> QED BY <1>1, <1>3, <1>4, <1>7, <2>1 DEF InboundInv, RingReads
<1> QED BY <1>6, <1>10, <1>11 DEF InboundInv

\* ring_satcom_task between its commands, a SBDRING, a message that arrives.
LEMMA RingMoveStep ==
  ASSUME TypeOK, STInv, InboundInv, RingDecide \/ RingEnd \/ HandleRing \/ Arrive
  PROVE  InboundInv'
<1> USE TwoTasks
<1>1. UNCHANGED <<vars, taken, fetched, misjudged, replies, stored, status_outbound>>
  BY DEF RingDecide, RingEnd, HandleRing, Arrive, gateway, fields
<1>2. UNCHANGED vars
  BY <1>1
<1>3. AllFetched' = AllFetched /\ OldFetched' = OldFetched /\ \A s : Concluded(s)' = Concluded(s)
  BY <1>1 DEF AllFetched, OldFetched, Done, Fetched, Concluded
<1>4. RingSends'
  BY <1>1, <1>2, <1>3 DEF InboundInv, RingSends, Handled, ChannelFree, vars
<1>5. RingReads'
  BY <1>1, <1>2, <1>3 DEF InboundInv, RingReads, Answer, Asked, vars
<1>6. RingPlace'
  <2>1. UNCHANGED <<pc, msg>>
    BY <1>2 DEF vars
  <2>2. CASE at' = at
    BY <1>1, <1>3, <2>1, <2>2 DEF InboundInv, RingPlace
  <2>3. CASE at' # at
    <3>1. \/ at[Ring] = "outbound" /\ pc[Ring] = "idle" /\ at'[Ring] = "waiting"
          \/ at[Ring] = "outbound" /\ pc[Ring] = "idle" /\ at'[Ring] = "AT_SBDIXA"
             /\ status_outbound \notin MO_TRANSFERRED
          \/ at[Ring] = "waiting" /\ pc[Ring] = "idle" /\ at'[Ring] \in {"last", "AT_SBDRT"}
          \/ at[Ring] = "end" /\ pc[Ring] = "idle" /\ at'[Ring] = "idle"
          \/ at[Ring] = "idle" /\ at'[Ring] = "AT_CRIS"
      <4>1. \E place : at' = [at EXCEPT ![Ring] = place]
                       /\ \/ at[Ring] = "outbound" /\ pc[Ring] = "idle" /\ place = "waiting"
                          \/ at[Ring] = "outbound" /\ pc[Ring] = "idle" /\ place = "AT_SBDIXA"
                             /\ status_outbound \notin MO_TRANSFERRED
                          \/ at[Ring] = "waiting" /\ pc[Ring] = "idle"
                             /\ place \in {"last", "AT_SBDRT"}
                          \/ at[Ring] = "end" /\ pc[Ring] = "idle" /\ place = "idle"
                          \/ ring_task_running = 0 /\ place = "AT_CRIS"
        BY <2>3 DEF RingDecide, RingEnd, HandleRing, Arrive, Place, Move, progress
      <4>2. ring_task_running = 0 => at[Ring] = "idle"
        BY DEF STInv, Places
      <4> QED BY <4>1, <4>2 DEF STInv, Places
    <3>2. at[Ring] = "idle" => pc[Ring] = "idle"
      BY DEF InboundInv, RingPlace
    <3> QED BY <1>1, <1>3, <2>1, <3>1, <3>2 DEF InboundInv, RingPlace, Concluded
  <2> QED BY <2>2, <2>3
<1> QED BY <1>4, <1>5, <1>6 DEF InboundInv

\* buffer_satcom_task finds nothing parked.
LEMMA RingBufferStep ==
  ASSUME TypeOK, STInv, InboundInv, BufferStep
  PROVE  InboundInv'
<1> USE TwoTasks
<1>1. BufferPoll \/ BufferReceive
  BY DEF BufferStep, buffer_satcom_task, SendRaw, CheckStatus, Enqueue, EnqueueTimeout, WriteBytes,
         UpdateIqsWaiting, UpdatePNonce, Goto, InboundInv, RingSends
<1>2. /\ UNCHANGED <<c_nonce, p_nonce, status, buffer_data, buffer_queue, msg, waits, t_status,
                     written, answered, rx, uart_pc>>
      /\ pc' \in {[pc EXCEPT ![BufferTask] = "idle"], [pc EXCEPT ![BufferTask] = "receive"]}
  BY <1>1 DEF BufferPoll, BufferReceive, Goto, InboundInv, RingSends, satcom, modem, uart
<1>3. pc'[Ring] = pc[Ring] /\ pc'[BufferTask] \in {"idle", "receive"}
  BY <1>2 DEF TypeOK
<1>4. UNCHANGED <<at, taken, fetched, misjudged, replies, stored, status_outbound>>
  BY DEF BufferStep, Elsewhere, progress, gateway, fields
<1>5. AllFetched' = AllFetched /\ OldFetched' = OldFetched /\ \A s : Concluded(s)' = Concluded(s)
  BY <1>4 DEF AllFetched, OldFetched, Done, Fetched, Concluded
<1>6. RingPlace'
  BY <1>2, <1>3, <1>4, <1>5 DEF InboundInv, RingPlace
<1>7. RingSends'
  BY <1>2, <1>3, <1>4, <1>5 DEF InboundInv, RingSends, Handled, ChannelFree
<1>8. RingReads'
  BY <1>2, <1>3, <1>4, <1>5 DEF InboundInv, RingReads, Answer, Asked
<1> QED BY <1>6, <1>7, <1>8 DEF InboundInv

\* The task waits while a command is with the modem or its reply is handled.
LEMMA RingBusy ==
  ASSUME InboundInv, ~ChannelFree
  PROVE  /\ pc[Ring] \notin {"idle", "store", "reread", "check", "write", "copy"}
         /\ ~Handled
BY DEF InboundInv, RingSends, Handled

LEMMA RingReplyStep ==
  ASSUME TypeOK, STInv, InboundInv, SessionReply
  PROVE  InboundInv'
<1> USE TwoTasks
<1> DEFINE m == written[answered + 1]
<1>1. /\ answered < Len(written) /\ answered \in Nat /\ Len(written) \in Nat
      /\ answered' = answered + 1
      /\ UNCHANGED <<p_nonce, status, pc, msg, waits, t_status, written, buffer_queue, uart_pc>>
      /\ UNCHANGED <<at, status_outbound, stored, fetched>>
  BY DEF SessionReply, ModemReply, satcom, locals, TypeOK, progress, fields
<1>2. answered + 1 = Len(written) /\ m = msg[Ring] /\ rx = <<>> /\ uart_pc = "receive"
  BY <1>1 DEF InboundInv, RingReads, TypeOK
<1>3. /\ pc[Ring] \notin {"idle", "store", "reread", "check", "write", "copy"} /\ ~Handled
  BY <1>1, RingBusy DEF ChannelFree
<1>4. RingPlace'
  BY <1>1, <1>3 DEF InboundInv, RingPlace
<1>5. RingSends'
  <2>1. /\ pc[Ring] \in {"set_nonce", "wait", "poll"} => status # "IQS_OPEN"
        /\ pc[Ring] = "wait" => t_status[Ring] # "IQS_OPEN"
    BY <1>3 DEF InboundInv, RingSends
  <2> QED BY <1>1, <1>3, <2>1 DEF InboundInv, RingSends
<1> HIDE DEF m
<1>6. PICK s \in Nat :
        /\ \/ Final # "ERROR" /\ Perform(m, s)
           \/ Final # "OK" /\ UNCHANGED <<mo, transmitted, taken, failures, misjudged>>
        /\ IsSession(m) => s \in MOStatuses
        /\ \/ UNCHANGED <<rx, replies>>
           \/ \E r \in Report : /\ r.outbound = s /\ r.text = taken
                                /\ replies' = Append(replies, r)
                                /\ rx' = Append(rx, [msg |-> m, final |-> Final])
  BY ReplyCases DEF m, STInv
<1>7. /\ taken \in Nat /\ arrived \in Nat /\ replies = <<>>
  BY <1>2 DEF STInv, Gateway
<1>8. taken' = taken \/ (IsSession(m) /\ Transfers(s) /\ taken' = taken + 1)
  BY <1>6 DEF Perform
<1>8a. \A k : k \in misjudged => k \in misjudged'
  BY <1>6 DEF Perform
<1>9. IsSession(m) => m.command = "AT_SBDIXA"
  BY <1>2, <1>3 DEF InboundInv, RingPlace, IsSession
<1>10. m.command # "AT_SBDRT" => AllFetched
  BY <1>1, <1>2 DEF InboundInv, RingReads, Asked
<1>11. OldFetched'
  <2>1. CASE taken' = taken
    BY <1>1, <1>8a, <2>1 DEF InboundInv, RingReads, OldFetched, Done, Fetched
  <2>2. CASE IsSession(m) /\ taken' = taken + 1
    <3>1. AllFetched
      BY <1>9, <1>10, <2>2
    <3>2. taken' - 1 = taken
      BY <1>7, <2>2
    <3> QED BY <1>1, <1>8a, <3>1, <3>2 DEF AllFetched, OldFetched, Done, Fetched
  <2> QED BY <1>8, <2>1, <2>2
<1>12. /\ taken' = taken /\ AllFetched => AllFetched'
       /\ s \notin MO_TRANSFERRED /\ AllFetched => AllFetched'
  <2>1. ASSUME s \notin MO_TRANSFERRED, taken' # taken, NEW k \in 1 .. taken'
        PROVE  k \in 1 .. taken \/ k \in misjudged'
    <3>1. misjudged' = misjudged \cup (taken + 1 .. taken') /\ taken' \in Nat
      BY <1>6, <1>7, <1>8, <2>1 DEF Perform
    <3> QED BY <1>7, <3>1
  <2> QED BY <1>1, <1>8a, <2>1 DEF AllFetched, Done, Fetched
<1>13. ASSUME rx' # rx PROVE
         /\ Len(rx') = 1 /\ rx'[1].msg = m /\ rx'[1].final = Final
         /\ replies'[1].outbound = s /\ replies'[1].text = taken
  <2>1. PICK r : /\ r.outbound = s /\ r.text = taken
                 /\ replies' = Append(<<>>, r)
                 /\ rx' = Append(<<>>, [msg |-> m, final |-> Final])
    BY <1>2, <1>6, <1>7, <1>13
  <2> QED BY <2>1
<1>14. ASSUME rx' # rx, Final = "OK", NEW c, c = m.command PROVE Answer(c)'
  <2>1. uart_pc' = "receive" /\ replies'[1].outbound = s /\ replies'[1].text = taken
    BY <1>1, <1>2, <1>13, <1>14
  <2>2. ASSUME m.command = "AT_SBDIXA" PROVE Concluded(s)'
    <3>1. AllFetched
      BY <1>10, <2>2
    <3> QED BY <1>12, <3>1 DEF Concluded
  <2>3. m.command # "AT_SBDIXA" => taken' = taken
    BY <1>8, <1>9
  <2> QED BY <1>10, <1>12, <1>14, <2>1, <2>2, <2>3 DEF Answer, Concluded
<1>15. RingReads'
  <2>1. ~(answered' < Len(written')) /\ ~Asked'
    BY <1>1, <1>2, <1>3 DEF Asked
  <2>2. rx' # <<>> => Len(rx') = 1 /\ rx'[1].msg = msg'[Ring]
    BY <1>1, <1>2, <1>13
  <2>3. rx' # <<>> /\ rx'[1].final = "OK" => \A c : c = msg'[Ring].command => Answer(c)'
    BY <1>1, <1>2, <1>13, <1>14
  <2>4. uart_pc' = "receive"
    BY <1>1, <1>2
  <2> QED BY <1>1, <1>11, <2>1, <2>2, <2>3, <2>4 DEF InboundInv, RingReads, Answer
<1> QED BY <1>4, <1>5, <1>15 DEF InboundInv

\* uart_satcom_task handles the reply.
LEMMA RingUartStep ==
  ASSUME TypeOK, STInv, InboundInv, uart_satcom_task, UartStep \/ Reopen
  PROVE  InboundInv'
<1> USE TwoTasks
<1>1. /\ rx # <<>>
      /\ UNCHANGED <<p_nonce, pc, msg, waits, t_status, written, answered, buffer_queue>>
      /\ UNCHANGED <<at, status_outbound, fetched, taken, misjudged>>
  BY DEF UartStep, Reopen, UartReceive, UartCopied, UpdateIqsOpen, locals, modem, TypeOK,
         progress, gateway, fields
<1>2. /\ answered = Len(written) /\ Len(rx) = 1 /\ rx[1].msg = msg[Ring] /\ ~Asked
      /\ pc[Ring] \notin {"idle", "store", "reread", "check", "write", "copy"} /\ ~Handled
  BY <1>1, RingBusy DEF ChannelFree, InboundInv, RingReads, TypeOK, Asked
<1>3. AllFetched' = AllFetched /\ OldFetched' = OldFetched /\ \A s : Concluded(s)' = Concluded(s)
  BY <1>1 DEF AllFetched, OldFetched, Done, Fetched, Concluded
<1>4. RingPlace'
  BY <1>1, <1>2 DEF InboundInv, RingPlace
<1>5. pc[Ring] = "wait" => t_status[Ring] # "IQS_OPEN"
  BY <1>2 DEF InboundInv, RingSends
<1>6. ~Asked'
  BY <1>1, <1>2 DEF Asked
<1>7. CASE UartStep
  <2>1. /\ UNCHANGED <<rx, status, replies>> /\ stored' = "none"
        /\ uart_pc' \in {"spin", "copy", "open"}
        /\ uart_pc' # "spin" => rx[1].final = "OK"
    BY <1>1, <1>7 DEF UartStep, UartReceive, UartCopied, satcom, InboundInv, RingReads, TypeOK
  <2>2. RingSends'
    BY <1>1, <1>2, <1>5, <2>1 DEF InboundInv, RingSends
  <2>3. RingReads'
    BY <1>1, <1>2, <1>3, <1>6, <2>1 DEF InboundInv, RingReads, Answer
  <2> QED BY <1>4, <2>2, <2>3 DEF InboundInv
<1>8. CASE Reopen
  <2>1. /\ rx' = Tail(rx) /\ uart_pc = "open" /\ uart_pc' = "receive" /\ status' = "IQS_OPEN"
        /\ stored = "all" \/ ~(IsSession(rx[1].msg) \/ rx[1].msg.command = "AT_SBDRT")
    BY <1>1, <1>8 DEF Reopen, UpdateIqsOpen, TypeOK
  <2>2. rx' = <<>>
    BY <1>2, <2>1 DEF TypeOK
  <2>3. Answer(msg[Ring].command)
    BY <1>1, <2>1 DEF InboundInv, RingReads
  <2>4. Handled'
    <3>1. ChannelFree' /\ status' = "IQS_OPEN"
      BY <1>1, <1>2, <2>1, <2>2 DEF ChannelFree
    <3>2. CASE msg[Ring].command = "AT_SBDIXA"
      BY <1>1, <1>2, <1>3, <2>1, <2>3, <3>1, <3>2 DEF Answer, Handled, IsSession
    <3>3. CASE msg[Ring].command # "AT_SBDIXA"
      BY <1>1, <1>2, <1>3, <2>1, <2>3, <3>1, <3>3 DEF Answer, Handled, IsSession
    <3> QED BY <3>2, <3>3
  <2>5. RingSends'
    BY <1>1, <1>2, <2>4 DEF InboundInv, RingSends, Handled
  <2>6. RingReads'
    BY <1>1, <1>2, <1>3, <1>6, <2>1, <2>2 DEF InboundInv, RingReads
  <2> QED BY <1>4, <2>5, <2>6 DEF InboundInv
<1> QED BY <1>7, <1>8

LEMMA RingStoreStep ==
  ASSUME TypeOK, STInv, InboundInv, StoreOutbound \/ StoreWaiting \/ StoreText
  PROVE  InboundInv'
<1> USE TwoTasks
<1>1. /\ UNCHANGED vars /\ UNCHANGED <<at, taken, misjudged, replies>> /\ uart_pc = "open"
      /\ stored' # "none"
  BY DEF StoreOutbound, StoreWaiting, StoreText, StoreStep, progress, gateway
<1>2. /\ rx # <<>> /\ Len(rx) = 1 /\ rx[1].msg = msg[Ring] /\ ~Asked
      /\ answered = Len(written)
      /\ Head(rx) = rx[1] /\ Head(replies) = replies[1] /\ replies[1] \in Report
      /\ pc[Ring] \notin {"idle", "store", "reread", "check", "write", "copy"} /\ ~Handled
  <2>1. rx # <<>> /\ ~ChannelFree
    BY <1>1 DEF TypeOK, ChannelFree
  <2>2. Len(rx) = 1 /\ rx[1].msg = msg[Ring] /\ answered = Len(written)
    BY <2>1 DEF InboundInv, RingReads, TypeOK
  <2>3. Head(rx) = rx[1] /\ Head(replies) = replies[1] /\ replies[1] \in Report
    <3>1. replies \in Seq(Report) /\ Len(replies) = 1
      BY <2>2 DEF STInv, Gateway
    <3>2. replies[1] \in Report
      BY <3>1
    <3> QED BY <3>2
  <2> QED BY <2>1, <2>2, <2>3, RingBusy DEF Asked, TypeOK
<1>3. Answer(msg[Ring].command)
  BY <1>1, <1>2 DEF InboundInv, RingReads
<1>4. \/ /\ stored # "none" /\ UNCHANGED <<status_outbound, fetched>>
      \/ /\ msg[Ring].command # "AT_SBDRT" /\ status_outbound' = replies[1].outbound
         /\ UNCHANGED fetched
      \/ /\ msg[Ring].command = "AT_SBDRT"
         /\ fetched' = Append(fetched, replies[1].text)
  BY <1>2 DEF StoreOutbound, StoreWaiting, StoreText, StoreStep, IsSession
<1>5. /\ \A k : Done(k) => Done(k)'
      /\ msg[Ring].command = "AT_SBDRT" => AllFetched'
      /\ fetched' \in Seq(Nat)
  <2>1. CASE UNCHANGED fetched /\ (stored # "none" \/ msg[Ring].command # "AT_SBDRT")
    BY <1>1, <1>3, <2>1 DEF Done, Fetched, Answer, AllFetched, InboundInv, RingReads
  <2>2. CASE msg[Ring].command = "AT_SBDRT" /\ fetched' = Append(fetched, replies[1].text)
    <3>1. fetched \in Seq(Nat) /\ replies[1].text \in Nat /\ replies[1].text = taken
      BY <1>2, <1>3, <2>2 DEF InboundInv, RingReads, Answer, Report
    <3>2. /\ fetched' \in Seq(Nat) /\ Len(fetched') = Len(fetched) + 1
          /\ DOMAIN fetched' = 1 .. Len(fetched) + 1 /\ fetched'[Len(fetched) + 1] = taken
          /\ \A i \in 1 .. Len(fetched) : fetched'[i] = fetched[i]
      BY <2>2, <3>1
    <3>3. Done(taken)'
      BY <1>1, <3>1, <3>2 DEF Done, Fetched
    <3>4. \A k : Done(k) => Done(k)'
      <4>1. DOMAIN fetched = 1 .. Len(fetched) /\ Len(fetched) \in Nat
        BY <3>1
      <4>2. \A i \in DOMAIN fetched : i \in DOMAIN fetched' /\ fetched'[i] = fetched[i]
        BY ONLY <3>2, <4>1
      <4> QED BY <1>1, <4>2 DEF Done, Fetched
    <3>5. \A k \in 1 .. taken : k = taken \/ k \in 1 .. taken - 1
      BY <3>1
    <3>6. OldFetched
      BY DEF InboundInv, RingReads
    <3>7. \A k \in 1 .. taken : Done(k)'
      BY <1>1, <3>3, <3>4, <3>5, <3>6 DEF OldFetched
    <3>8. AllFetched'
      BY <1>1, <3>7 DEF AllFetched
    <3> QED BY <3>2, <3>4, <3>8
  <2> QED BY <1>4, <2>1, <2>2
<1>6. (AllFetched => AllFetched') /\ (OldFetched => OldFetched')
  BY <1>1, <1>5 DEF AllFetched, OldFetched
<1>7. RingPlace'
  BY <1>1, <1>2 DEF InboundInv, RingPlace, vars
<1>8. RingSends'
  <2>1. /\ pc[Ring] \in {"set_nonce", "wait", "poll"} => status # "IQS_OPEN"
        /\ pc[Ring] = "wait" => t_status[Ring] # "IQS_OPEN"
    BY <1>2 DEF InboundInv, RingSends
  <2> QED BY <1>1, <1>2, <2>1 DEF InboundInv, RingSends, vars
<1>9. \A c : c = msg[Ring].command => Answer(c)'
  BY <1>1, <1>3, <1>4, <1>5, <1>6 DEF Answer, Concluded
<1>10. RingReads'
  BY <1>1, <1>2, <1>5, <1>6, <1>9 DEF InboundInv, RingReads, Asked, vars
<1> QED BY <1>7, <1>8, <1>10 DEF InboundInv

\* Only ring_satcom_task sends.
LEMMA InboundStep ==
  ASSUME TypeOK, STInv, RingOnly, InboundInv, [SessionNext]_svars
  PROVE  InboundInv'
<1> USE TwoTasks
<1>1. CASE SessionNext
  <2>1. ~Begin /\ ~AppStep
    BY IdleTask DEF RingOnly, Begin, AppStep, SendNext, Then, Decide, Return, Place
  <2>2. CASE RingStep
    BY <2>2, RingTaskStep, RingCallStep, RingMoveStep DEF RingStep
  <2>3. CASE Arrive
    BY <2>3, RingMoveStep
  <2>4. CASE UartTaskStep
    BY <2>4, RingUartStep, RingStoreStep, RingMoveStep
       DEF UartTaskStep, UartStep, Reopen, uart_satcom_task
  <2> QED BY <1>1, <2>1, <2>2, <2>3, <2>4, RingBufferStep, RingReplyStep DEF SessionNext
<1>2. CASE UNCHANGED svars
  <2>1. UNCHANGED <<vars, at, taken, fetched, misjudged, replies, stored, status_outbound>>
    BY <1>2 DEF svars, progress, gateway, fields
  <2> QED BY <2>1 DEF InboundInv, RingPlace, RingSends, RingReads, Answer, Asked, Handled,
                      ChannelFree, Concluded, AllFetched, OldFetched, Done, Fetched, vars
<1> QED BY <1>1, <1>2

\* No message that arrives is overwritten in the modem or left there: if no
\* function runs at the same time, ring_satcom_task has read every message but
\* the last when it begins a session, and that one too when it ends, whatever
\* replies are lost and whatever sessions fail (443-477).  Given up are those,
\* and only those, that come with a session whose status the code takes for a
\* failure though the modem has transferred, 3 and 4 (455, iridium.h:130): the
\* session after one overwrites its message.
THEOREM InboundIsKept ==
  ASSUME Undisturbed
  PROVE  SessionSpec => []InboundKept
<1> DEFINE Alone == (RingOnly /\ InboundInv) \/ (RingIdle /\ taken = 0 /\ arrived = 0)
<1>1. ASSUME SessionInit PROVE Alone
  <2> USE TwoTasks
  <2>1. /\ written = <<>> /\ answered = 0 /\ rx = <<>> /\ uart_pc = "receive" /\ buffer_queue = <<>>
        /\ status = "IQS_OPEN" /\ \A p \in Procs : pc[p] = "idle"
    BY <1>1 DEF SessionInit, Init
  <2>2. /\ taken = 0 /\ arrived = 0 /\ fetched = <<>> /\ rings = 0 /\ results = {}
        /\ at[App] = "idle" /\ at[Ring] = "idle"
    BY <1>1 DEF SessionInit
  <2>3. PICK s \in Scenarios : todo = s.calls /\ arrivals = s.arrivals
    BY <1>1 DEF SessionInit
  <2>4. CASE s.arrivals = 0
    BY <2>1, <2>2, <2>3, <2>4 DEF RingIdle
  <2>5. CASE s.calls = <<>>
    <3>1. RingOnly
      BY <2>1, <2>2, <2>3, <2>5 DEF RingOnly
    <3>2. AllFetched /\ OldFetched
      BY <2>2 DEF AllFetched, OldFetched
    <3>3. InboundInv
      BY <2>1, <2>2, <3>2
         DEF InboundInv, RingPlace, RingSends, RingReads, Asked, ChannelFree
    <3> QED BY <3>1, <3>3
  <2> QED BY <2>4, <2>5 DEF Undisturbed
<1>2. ASSUME TypeOK, STInv, Alone, [SessionNext]_svars PROVE Alone'
  <2>1. CASE RingOnly /\ InboundInv
    BY <1>2, <2>1, InboundStep, RingOnlyStep DEF RingOnly, svars, progress, vars
  <2>2. CASE RingIdle /\ taken = 0 /\ arrived = 0
    <3>1. CASE UNCHANGED svars
      BY <2>2, <3>1 DEF svars, vars, gateway, progress, RingIdle
    <3>2. CASE SessionNext
      <4>1. RingIdle' /\ ~Arrive
        BY <1>2, <2>2, <3>2, RingIdleStep
      <4>2. UNCHANGED arrived
        BY <3>2, <4>1 DEF SessionNext, Begin, AppStep, RingStep, BufferStep, UartTaskStep, Elsewhere,
              SendNext, Decide, Return, RingDecide, RingEnd, HandleRing, SessionReply, UartStep,
              StoreOutbound, StoreWaiting, StoreText, Reopen, gateway
      <4>3. taken' \in Nat /\ taken' <= arrived'
        BY <1>2, <3>2, GatewayStep DEF STInv, Gateway
      <4> QED BY <2>2, <4>1, <4>2, <4>3
    <3> QED BY <1>2, <3>1, <3>2
  <2> QED BY <1>2, <2>1, <2>2
<1>3. ASSUME STInv, Alone PROVE InboundKept
  <2>1. CASE RingIdle /\ taken = 0
    BY <2>1 DEF InboundKept
  <2>2. CASE InboundInv
    <3> SUFFICES ASSUME NEW k \in 1 .. taken, ~Done(k)
                 PROVE  k = taken /\ ~Place(Ring, "idle") /\ ~Place(Ring, "end")
      BY DEF InboundKept, Done
    <3>1. k = taken
      <4>1. k \notin 1 .. taken - 1
        BY <2>2 DEF InboundInv, RingReads, OldFetched
      <4> QED BY <1>3, <4>1 DEF STInv, Gateway
    <3>2. ~AllFetched
      BY DEF AllFetched
    <3> QED BY <2>2, <3>1, <3>2 DEF InboundInv, RingPlace, Place
  <2> QED BY <1>3, <2>1, <2>2
<1> QED BY <1>1, <1>2, <1>3, SessionInvariant, PTL DEF SessionSpec
=============================================================================
