------------------------------- MODULE Session -------------------------------
(***************************************************************************)
(* The functions of iridium.c that are made of several commands, on the    *)
(* command channel of IridiumLink: iridium_tx_message, iridium_config_ring *)
(* and iridium_system_spec, which the application calls, and               *)
(* ring_satcom_task, which a SBDRING starts.  They decide on fields that   *)
(* uart_satcom_task stores when it handles some reply, their own or not.   *)
(*                                                                         *)
(* Every step is a step of IridiumLink with more said, or leaves the       *)
(* channel alone.  An outbound message is named by the number of the call  *)
(* that sent its AT_SBDWT, an inbound one by its place in the gateway.     *)
(***************************************************************************)
EXTENDS IridiumLink, FiniteSets

CONSTANTS
  App, Ring,      \* the application's task and ring_satcom_task
  Scenarios,      \* what happens: functions App calls, messages that arrive
  FreshOutbound,  \* what status_outbound may hold in fresh malloc memory
  MOStatuses,     \* the MO statuses a session may end with
  MaxTries,       \* tries of the loop of iridium_tx_message, 5 in the code
  MaxFailures     \* how many failing sessions SessionsEnd allows for

\* Faulty variant: "no network service" is taken for a transfer.
MO_TRANSFERRED_OR_32 == {0, 1, 2, 32}

\* What iridium_tx_message and ring_satcom_task take for a transfer: the
\* modem transfers with MO status 0 to 4.
MO_TRANSFERRED == {0, 1, 2}
Transfers(s) == s \in 0 .. 4

\* Faulty variant: iridium_config_ring saves the configuration first.
StartSavesFirst ==
  [iridium_tx_message |-> "AT_SBDWT", iridium_config_ring |-> "AT_W0",
   iridium_system_spec |-> "AT_CGMI"]

\* A function or task is where it will send its next command, or at a
\* decision.  iridium_send only returns SAT_OK, so the tests of it that
\* return or break do not.
Start == [iridium_tx_message |-> "AT_SBDWT", iridium_config_ring |-> "AT_SBDMTA",
          iridium_system_spec |-> "AT_CGMI"]
Then == [AT_SBDWT |-> "AT_SBDIX", AT_SBDIX |-> "decide",
         AT_SBDMTA |-> "AT_W0", AT_W0 |-> "AT_K0", AT_K0 |-> "AT_SBDMTAQ",
         AT_SBDMTAQ |-> "return", AT_CGMI |-> "AT_CGMM", AT_CGMM |-> "return",
         AT_CRIS |-> "AT_SBDIXA", AT_SBDIXA |-> "outbound", AT_SBDRT |-> "AT_SBDIXA",
         last |-> "end"]
CommandAt(place) == IF place = "last" THEN "AT_SBDRT" ELSE place

ASSUME SessionAssumption ==
  /\ Tasks = {App, Ring} /\ App # Ring
  /\ \A t \in Tasks : {CommandAt(c) : c \in DOMAIN Then} \subseteq Commands[t]
  /\ TRUE \in WaitFlags
  /\ \A s \in Scenarios : s.calls \in Seq(DOMAIN Start) /\ s.arrivals \in Nat
  /\ FreshOutbound \subseteq Nat /\ MOStatuses \subseteq Nat
  /\ MaxTries \in Nat \ {0} /\ MaxFailures \in Nat

VARIABLES
  todo, arrivals,                    \* of the scenario: what is still to come
  at, draft, tries, results,         \* places; AT_SBDWT and i of the call; its results
  status_outbound, messages_waiting, \* fields of iridium_t
  stored,                            \* how much of the reply in hand is in them
  heard,                             \* history: status_outbound is a session's, and
                                     \* no longer what malloc left there
  ring_task_running, rings,          \* the flag; SBDRINGs not yet handled
  mo, transmitted, failures,         \* outbound buffer of the modem, messages out;
                                     \* history: sessions the code takes for failures
  arrived, taken, fetched,           \* inbound messages, by number; 'taken' is in
                                     \* the inbound buffer, 'fetched' was read
  misjudged,                         \* history: inbound messages that came with a
                                     \* session the code takes for a failure
  replies                            \* what the replies of rx say

progress == <<todo, at, draft, tries, results>>
fields == <<status_outbound, messages_waiting, stored, heard>>
gateway == <<arrivals, mo, transmitted, failures, arrived, taken, misjudged>>
svars == <<vars, progress, fields, gateway, ring_task_running, rings, fetched, replies>>

SessionInit ==
  /\ Init
  /\ \E s \in Scenarios : todo = s.calls /\ arrivals = s.arrivals
  /\ at = [t \in Tasks |-> "idle"] /\ draft = 0 /\ tries = 0 /\ results = {}
  /\ status_outbound \in FreshOutbound /\ messages_waiting = 0 /\ stored = "none"
  /\ heard = FALSE /\ misjudged = {}
  /\ ring_task_running = 0 /\ rings = 0
  /\ mo = 0 /\ transmitted = {} /\ failures = 0
  /\ arrived = 0 /\ taken = 0 /\ fetched = <<>> /\ replies = <<>>

Place(t, place) == at[t] = place /\ pc[t] = "idle"
Move(t, place) == at' = [at EXCEPT ![t] = place]

-----------------------------------------------------------------------------
\* The application calls a function.
Begin ==
  /\ Place(App, "idle") /\ todo # <<>>
  /\ Move(App, Start[Head(todo)])
  /\ todo' = Tail(todo) /\ tries' = 0
  /\ UNCHANGED <<vars, draft, results, fields, gateway, ring_task_running, rings,
                 fetched, replies>>

\* The next iridium_send of a function or task, with wait_response.
SendNext(t) ==
  /\ at[t] \in DOMAIN Then
  /\ Call(t, CommandAt(at[t]), TRUE)
  /\ Move(t, Then[at[t]])
  /\ draft' = IF at[t] = "AT_SBDWT" THEN msg'[t].call ELSE draft
  /\ UNCHANGED <<todo, tries, results, fields, gateway, ring_task_running, rings,
                 fetched, replies>>

\* The retry loop of iridium_tx_message.  result.status is what the memory
\* held ("unset") unless a try before this one failed.
Result(success) ==
  [message |-> draft, success |-> success, heard |-> heard,
   status |-> IF success /\ tries = 0 THEN "unset" ELSE "SAT_ERROR"]

Decide ==
  /\ Place(App, "decide")
  /\ IF status_outbound \in MO_TRANSFERRED \/ tries + 1 = MaxTries
       THEN /\ Move(App, "return")
            /\ results' = results \cup {Result(status_outbound \in MO_TRANSFERRED)}
            /\ UNCHANGED tries
       ELSE /\ Move(App, "AT_SBDIX")
            /\ tries' = tries + 1
            /\ UNCHANGED results
  /\ UNCHANGED <<vars, todo, draft, fields, gateway, ring_task_running, rings,
                 fetched, replies>>

Return ==
  /\ Place(App, "return") /\ Move(App, "idle")
  /\ UNCHANGED <<vars, todo, draft, tries, results, fields, gateway,
                 ring_task_running, rings, fetched, replies>>

\* Faulty variant: the next session comes before the message of this one is read.
RingDecideUnread ==
  /\ Place(Ring, "waiting")
     \/ (Place(Ring, "outbound") /\ status_outbound \in MO_TRANSFERRED)
  /\ Move(Ring, IF messages_waiting = 0 THEN "last" ELSE "AT_SBDIXA")
  /\ UNCHANGED <<vars, todo, draft, tries, results, fields, gateway,
                 ring_task_running, rings, fetched, replies>>

\* ring_satcom_task between its commands: the two fields are read one by one.
RingDecide ==
  /\ \/ /\ Place(Ring, "outbound")
        /\ Move(Ring, IF status_outbound \in MO_TRANSFERRED THEN "waiting" ELSE "AT_SBDIXA")
     \/ /\ Place(Ring, "waiting")
        /\ Move(Ring, IF messages_waiting = 0 THEN "last" ELSE "AT_SBDRT")
  /\ UNCHANGED <<vars, todo, draft, tries, results, fields, gateway,
                 ring_task_running, rings, fetched, replies>>

\* Faulty variant: the flag stays set.
RingEndFlagged ==
  /\ Place(Ring, "end") /\ Move(Ring, "idle")
  /\ UNCHANGED <<vars, todo, draft, tries, results, fields, gateway,
                 ring_task_running, rings, fetched, replies>>

RingEnd ==
  /\ Place(Ring, "end") /\ Move(Ring, "idle")
  /\ ring_task_running' = 0
  /\ UNCHANGED <<vars, todo, draft, tries, results, fields, gateway, rings,
                 fetched, replies>>

-----------------------------------------------------------------------------
(***************************************************************************)
(* The modem and the gateway behind it (external).  A session transfers    *)
(* the outbound buffer, if it holds a message, and the oldest message of   *)
(* the gateway, and says how many are left there.  Whether the buffer      *)
(* keeps the message afterwards is left open.                              *)
(***************************************************************************)
Arrive ==
  /\ arrivals > 0
  /\ arrivals' = arrivals - 1 /\ arrived' = arrived + 1 /\ rings' = rings + 1
  /\ UNCHANGED <<vars, progress, fields, mo, transmitted, failures, taken, misjudged,
                 ring_task_running, fetched, replies>>

IsSession(m) == m.command \in {"AT_SBDIX", "AT_SBDIXA"}

Perform(m, s) ==
  /\ mo' \in CASE m.command = "AT_SBDWT" -> {m.call}
               [] IsSession(m) /\ Transfers(s) -> {mo, 0}
               [] OTHER -> {mo}
  /\ transmitted' = IF IsSession(m) /\ Transfers(s)
                      THEN transmitted \cup ({mo} \ {0}) ELSE transmitted
  /\ taken' = IF IsSession(m) /\ Transfers(s) /\ arrived > taken THEN taken + 1 ELSE taken
  /\ failures' = IF IsSession(m) /\ s \notin MO_TRANSFERRED THEN failures + 1 ELSE failures
  /\ misjudged' = IF s \in MO_TRANSFERRED THEN misjudged
                  ELSE misjudged \cup (taken + 1 .. taken')

\* The modem does not do what it answers with ERROR.  Of a command whose final
\* line is lost it may have done it or not.
Final == IF rx' = rx THEN "SILENT" ELSE rx'[Len(rx')].final

SessionReply ==
  /\ ModemReply
  /\ LET m == written[answered + 1]
     IN \E s \in IF IsSession(m) THEN MOStatuses ELSE {0} :
          /\ \/ Final # "ERROR" /\ Perform(m, s)
             \/ Final # "OK" /\ UNCHANGED <<mo, transmitted, taken, failures, misjudged>>
          /\ replies' = IF Final = "SILENT" THEN replies
                        ELSE Append(replies, [outbound |-> s, text |-> taken,
                                              waiting |-> IF Transfers(s) THEN arrived - taken' ELSE 0])
  /\ UNCHANGED <<progress, fields, arrivals, arrived, ring_task_running, rings, fetched>>

-----------------------------------------------------------------------------
(***************************************************************************)
(* uart_satcom_task.  iridium_satcom_process_result stores the fields one  *)
(* after the other, then the channel opens.  An inbound text goes to       *)
(* message_queue (UartReceiver has its way from there).  An empty one      *)
(* fails the assertion of str_split: the task gets no further.             *)
(***************************************************************************)
UartStep ==
  /\ UartReceive \/ UartCopied
  /\ stored' = "none"
  /\ UNCHANGED <<progress, status_outbound, messages_waiting, heard, gateway,
                 ring_task_running, rings, fetched, replies>>

StoreStep(from, to) == uart_pc = "open" /\ stored = from /\ stored' = to

StoreOutbound ==
  /\ StoreStep("none", "outbound") /\ IsSession(Head(rx).msg)
  /\ status_outbound' = Head(replies).outbound /\ heard' = TRUE
  /\ UNCHANGED <<vars, progress, messages_waiting, gateway, ring_task_running, rings,
                 fetched, replies>>

StoreWaiting ==
  /\ StoreStep("outbound", "all")
  /\ messages_waiting' = Head(replies).waiting
  /\ UNCHANGED <<vars, progress, status_outbound, heard, gateway, ring_task_running, rings,
                 fetched, replies>>

StoreText ==
  /\ StoreStep("none", "all") /\ Head(rx).msg.command = "AT_SBDRT"
  /\ Head(replies).text # 0
  /\ fetched' = Append(fetched, Head(replies).text)
  /\ UNCHANGED <<vars, progress, status_outbound, messages_waiting, heard, gateway,
                 ring_task_running, rings, replies>>

Reopen ==
  /\ UpdateIqsOpen
  /\ stored = "all" \/ ~(IsSession(Head(rx).msg) \/ Head(rx).msg.command = "AT_SBDRT")
  /\ replies' = Tail(replies)
  /\ UNCHANGED <<progress, fields, gateway, ring_task_running, rings, fetched>>

\* A SBDRING in an event of its own.
HandleRing ==
  /\ uart_pc = "receive" /\ rings > 0 /\ rings' = rings - 1
  /\ IF ring_task_running = 0
       THEN ring_task_running' = 1 /\ Move(Ring, "AT_CRIS")
       ELSE UNCHANGED <<ring_task_running, at>>
  /\ UNCHANGED <<vars, todo, draft, tries, results, fields, gateway, fetched, replies>>

UartTaskStep == UartStep \/ StoreOutbound \/ StoreWaiting \/ StoreText \/ Reopen \/ HandleRing

-----------------------------------------------------------------------------
\* Steps of the channel that the functions have no part in.
Elsewhere == UNCHANGED <<progress, fields, gateway, ring_task_running, rings, fetched, replies>>

AppStep == (TaskStep(App) /\ Elsewhere) \/ SendNext(App) \/ Decide \/ Return
RingStep == (TaskStep(Ring) /\ Elsewhere) \/ SendNext(Ring) \/ RingDecide \/ RingEnd
BufferStep == buffer_satcom_task /\ Elsewhere

SessionNext ==
  \/ Begin \/ Arrive
  \/ AppStep \/ RingStep \/ BufferStep
  \/ SessionReply \/ UartTaskStep

SessionSpec == SessionInit /\ [][SessionNext]_svars

\* As in IridiumLink.  What the application calls and what arrives is open.
SessionFairness ==
  /\ WF_svars(AppStep) /\ WF_svars(RingStep) /\ WF_svars(BufferStep)
  /\ WF_svars(SessionReply) /\ WF_svars(UartTaskStep)

FairSessionSpec == SessionSpec /\ SessionFairness

-----------------------------------------------------------------------------
SessionTypeOK ==
  /\ TypeOK
  /\ at \in [Tasks -> DOMAIN Then \cup {"idle", "decide", "return", "outbound", "waiting", "end"}]
  /\ tries \in 0 .. MaxTries - 1 /\ draft \in 0 .. msg[App].call
  /\ stored \in {"none", "outbound", "all"}
  /\ ring_task_running = (IF at[Ring] = "idle" THEN 0 ELSE 1)
  /\ taken \in 0 .. arrived /\ Len(replies) = Len(rx)

\* What iridium_tx_message takes for a success was one: the message it was
\* called with has been transmitted.  status_outbound has to be that of a
\* session held after this AT_SBDWT (298 against 291 and 217).
SuccessMeansSent == \A r \in results : r.success => r.message \in transmitted

\* So it is at least once a session has stored status_outbound (298): a
\* transmission by itself is fooled by what malloc left there (618) and by
\* nothing else, although its tries may be parked, be judged by the status of
\* the try before, and go on while a session is still to come.
HeardSuccessIsSent == \A r \in results : r.success /\ r.heard => r.message \in transmitted

\* No inbound message is overwritten in the modem before ring_satcom_task has
\* read it, and none is left there when the task ends, but for those that came
\* with a session which it takes for a failure: with MO status 3 or 4, which
\* iridium.h:130 calls successful and 455 does not.
Fetched(k) == \E i \in DOMAIN fetched : fetched[i] = k
InboundKept ==
  \A k \in 1 .. taken :
    \/ Fetched(k) \/ k \in misjudged
    \/ k = taken /\ ~Place(Ring, "idle") /\ ~Place(Ring, "end")

\* The command a function does not wait for is on the UART before those that
\* rely on it: a session finds the message of AT_SBDWT in the buffer, and W0
\* saves what AT_SBDMTA set.
ReliesOn(c) == CASE c = "AT_SBDIX" -> {"AT_SBDWT"} [] c = "AT_W0" -> {"AT_SBDMTA"} [] OTHER -> {}
SetBeforeUsed ==
  \A i \in DOMAIN written : \A c \in ReliesOn(written[i].command) :
    \E j \in 1 .. i - 1 : written[j].command = c /\ written[j].task = written[i].task

\* A function that has begun ends, unless a reply was lost or has overtaken the
\* writer's stores, or the receiver hangs on an ERROR.  ring_satcom_task has no
\* bound on its tries (450): it ends if no more than MaxFailures sessions fail.
Stuck == \/ uart_pc = "spin"
         \/ status = "IQS_WAITING" /\ ~Outstanding /\ \A p \in Procs : ~Storing(p)
SessionsEnd ==
  /\ at[App] # "idle" ~> at[App] = "idle" \/ Stuck
  /\ at[Ring] # "idle" ~> at[Ring] = "idle" \/ Stuck \/ failures > MaxFailures
=============================================================================
