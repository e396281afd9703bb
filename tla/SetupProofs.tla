----------------------------- MODULE SetupProofs -----------------------------
(***************************************************************************)
(* What iridium_config guarantees however often it is called, also after   *)
(* SAT_OK, whatever fails in it, and whatever the tasks do meanwhile.      *)
(*                                                                         *)
(* That a task is created at most once is not inductive: it rests on the   *)
(* driver, which is installed once and never removed, so that one call     *)
(* alone comes past it.  IInv says how far each place of iridium_config    *)
(* has come, and that there are no tasks without a driver.                 *)
(***************************************************************************)
EXTENDS Setup, TLAPS

QueuesOfThisCall == \A q \in LibraryQueues : queues[q] \in {0, configs}

\* The places behind the driver.
Behind == {"pins", "check", "wait"} \cup LibraryTasks

NotYet(t) ==
  \/ driver = 0
  \/ at \in {"pins", "message_satcom_task"}
  \/ at = "uart_satcom_task" /\ t # "message_satcom_task"
  \/ at = "buffer_satcom_task" /\ t = "buffer_satcom_task"

IInv ==
  /\ \A t \in LibraryTasks : NotYet(t) => tasks[t] = 0
  /\ OneOfEachTask
  /\ at \in DOMAIN After \cup {"wait"} => configs # 0
  /\ at \in {"driver"} \cup Behind => QueuesOfThisCall
  /\ at \in Behind => driver = configs
  /\ returned = "SAT_OK" => at \in {"idle", "abort"}
  /\ OneCallSucceeds

\* pc is a function on the processes, and what SetupTypeOK says of it.
CallsAtWait == DOMAIN pc = Procs /\ (pc[App] # "idle" => at \in {"wait", "abort"})

-----------------------------------------------------------------------------
(***************************************************************************)
(* What the steps of the channel do to pc.                                 *)
(***************************************************************************)
\* A step of iridium_send or iridium_send_raw is one of a process that is in it.
LEMMA SendRawMoves ==
  ASSUME NEW p, SendRaw(p)
  PROVE  pc[p] # "idle" /\ \E to : pc' = [pc EXCEPT ![p] = to]
<1>1. CASE CheckStatus(p)
  BY <1>1 DEF CheckStatus, Goto
<1>2. CASE Enqueue(p)
  BY <1>2 DEF Enqueue, Goto
<1>3. CASE EnqueueTimeout(p)
  BY <1>3 DEF EnqueueTimeout, Goto
<1>4. CASE WriteBytes(p)
  BY <1>4 DEF WriteBytes, Goto
<1>5. CASE UpdateIqsWaiting(p)
  BY <1>5 DEF UpdateIqsWaiting, Goto
<1>6. CASE UpdatePNonce(p)
  BY <1>6 DEF UpdatePNonce, Goto
<1> QED BY <1>1, <1>2, <1>3, <1>4, <1>5, <1>6 DEF SendRaw

LEMMA TaskMoves ==
  ASSUME NEW t, TaskStep(t)
  PROVE  pc[t] # "idle" /\ \E to : pc' = [pc EXCEPT ![t] = to]
<1>1. CASE IridiumSend(t)
  BY <1>1 DEF IridiumSend, NonceStore, NonceReread, WaitTest, WaitPoll, CopyResult, Goto
<1>2. CASE SendRaw(t)
  BY <1>2, SendRawMoves
<1> QED BY <1>1, <1>2 DEF TaskStep

LEMMA BufferMoves ==
  ASSUME buffer_satcom_task
  PROVE  \E to : pc' = [pc EXCEPT ![BufferTask] = to]
<1>1. CASE BufferPoll
  BY <1>1 DEF BufferPoll, Goto
<1>2. CASE BufferReceive
  BY <1>2 DEF BufferReceive, Goto
<1>3. CASE SendRaw(BufferTask)
  BY <1>3, SendRawMoves
<1> QED BY <1>1, <1>2, <1>3 DEF buffer_satcom_task

\* The tasks of the library and the modem move no caller but their own.
LEMMA OthersMove ==
  ASSUME CallsAtWait, RingCalls \/ Sends(Ring) \/ Buffers \/ Receives \/ Replies
  PROVE  DOMAIN pc' = Procs /\ pc'[App] = pc[App]
<1> USE DEF CallsAtWait
<1>1. App \in Procs /\ App # Ring /\ App # BufferTask
  BY SetupAssumption, LinkAssumption DEF Procs
<1>2. ASSUME NEW p, p # App, NEW to, pc' = [pc EXCEPT ![p] = to]
      PROVE  DOMAIN pc' = Procs /\ pc'[App] = pc[App]
  BY <1>1, <1>2
<1>3. CASE RingCalls
  BY <1>1, <1>2, <1>3 DEF RingCalls, Calls, Call, Goto
<1>4. CASE Sends(Ring)
  BY <1>1, <1>2, <1>4, TaskMoves DEF Sends, Aborts, vars
<1>5. CASE Buffers
  BY <1>1, <1>2, <1>5, BufferMoves DEF Buffers, Aborts, vars
<1>6. CASE Receives
  BY <1>6 DEF Receives, uart_satcom_task, UartReceive, UartCopied, UpdateIqsOpen, locals
<1>7. CASE Replies
  BY <1>7 DEF Replies, ModemReply, locals
<1> QED BY <1>3, <1>4, <1>5, <1>6, <1>7

\* They leave what iridium_config has made alone, unless they abort.
ChannelStep == RingCalls \/ (\E t \in Tasks : Sends(t)) \/ Buffers \/ Receives \/ Replies

LEMMA ChannelLeaves ==
  ASSUME ChannelStep
  PROVE  /\ UNCHANGED <<returned, configs, failures, modem_on, slept, queues, driver, tasks>>
         /\ at' \in {at, "abort"}
BY DEF ChannelStep, RingCalls, Sends, Buffers, Receives, Replies, Stays, Aborts, power, made

-----------------------------------------------------------------------------
\* Every step keeps the types, and iridium_config in iridium_send only while it
\* waits.
LEMMA SetupTypeStep ==
  SetupTypeOK /\ CallsAtWait /\ [SetupNext]_uvars => SetupTypeOK' /\ CallsAtWait'
<1> SUFFICES ASSUME SetupTypeOK, CallsAtWait, [SetupNext]_uvars
             PROVE  SetupTypeOK' /\ CallsAtWait'
  OBVIOUS
<1> USE SetupAssumption
    DEF SetupTypeOK, CallsAtWait, After, Passes, Fault, Fails, FailsUnseen
<1>1. CASE Config
  <2>1. \A q \in LibraryQueues : queues[q] \in 0 .. configs + 1
    OBVIOUS
  <2>2. queues' \in [LibraryQueues -> 0 .. configs'] /\ driver' \in 0 .. configs'
    BY <1>1, <2>1 DEF Config, made
  <2>3. UNCHANGED <<pc, failures, modem_on, slept, tasks>>
    BY <1>1 DEF Config, vars, power, made
  <2> QED BY <1>1, <2>2, <2>3 DEF Config
<1>2. CASE SleepPin
  <2>1. UNCHANGED <<pc, configs, queues, driver, tasks>> /\ {modem_on', slept'} \subseteq BOOLEAN
    BY <1>2 DEF SleepPin, locals, power, made
  <2>2. at = "slp" /\ at' \in {"net", "idle"} /\ returned' \in {returned, "SAT_ERROR"}
        /\ failures' \in 0 .. MaxFailures
    BY <1>2 DEF SleepPin
  <2> QED BY <2>1, <2>2
<1>3. CASE NetPin
  <2>1. UNCHANGED <<pc, configs, modem_on, slept, queues, driver, tasks>>
    BY <1>3 DEF NetPin, vars, power, made
  <2>2. at = "net" /\ at' \in {"queues", "idle"} /\ returned' \in {returned, "SAT_ERROR"}
        /\ failures' \in 0 .. MaxFailures
    BY <1>3 DEF NetPin
  <2> QED BY <2>1, <2>2
<1>4. CASE CreateQueues
  <2>1. queues' \in [LibraryQueues -> 0 .. configs]
    BY <1>4 DEF CreateQueues
  <2>2. UNCHANGED <<pc, configs, modem_on, slept, driver, tasks, returned>>
    BY <1>4 DEF CreateQueues, locals, power
  <2>3. at = "queues" /\ at' \in {"driver", "abort"} /\ failures' \in 0 .. MaxFailures
    BY <1>4 DEF CreateQueues
  <2> QED BY <2>1, <2>2, <2>3
<1>5. CASE InstallDriver
  <2>1. UNCHANGED <<pc, configs, modem_on, slept, queues, tasks>>
    BY <1>5 DEF InstallDriver, vars, power
  <2>2. at = "driver" /\ at' \in {"pins", "idle"} /\ returned' \in {returned, "SAT_ERROR"}
        /\ failures' \in 0 .. MaxFailures /\ driver' \in 0 .. configs
    BY <1>5 DEF InstallDriver
  <2> QED BY <2>1, <2>2
<1>6. CASE UartPins
  <2>1. UNCHANGED <<pc, configs, modem_on, slept, queues, driver, tasks>>
    BY <1>6 DEF UartPins, vars, power, made
  <2>2. at = "pins" /\ at' \in {"message_satcom_task", "idle", "abort"}
        /\ returned' \in {returned, "SAT_ERROR"} /\ failures' \in 0 .. MaxFailures
    BY <1>6 DEF UartPins
  <2> QED BY <2>1, <2>2
<1>7. ASSUME NEW t \in LibraryTasks, CreateTask(t) PROVE SetupTypeOK' /\ CallsAtWait'
  <2>1. UNCHANGED <<pc, configs, modem_on, slept, queues, driver, returned>>
    BY <1>7 DEF CreateTask, vars, power
  <2>2. tasks' \in [LibraryTasks -> Nat] /\ failures' \in 0 .. MaxFailures
    BY <1>7 DEF CreateTask
  <2>3. at \in LibraryTasks /\ at' \in {"abort", "uart_satcom_task", "buffer_satcom_task", "check"}
    BY <1>7 DEF CreateTask, LibraryTasks
  <2> QED BY <2>1, <2>2, <2>3 DEF LibraryTasks
<1>8. CASE Check
  <2>1. UNCHANGED <<configs, failures, modem_on, slept, queues, driver, tasks, returned>>
    BY <1>8 DEF Check, power, made
  <2>2. at' = "wait" /\ DOMAIN pc' = DOMAIN pc
    BY <1>8 DEF Check, Call, Goto
  <2> QED BY <2>1, <2>2
<1>9. CASE Checked
  <2>1. UNCHANGED <<pc, configs, failures, modem_on, slept, queues, driver, tasks>>
    BY <1>9 DEF Checked, vars, power, made
  <2> QED BY <1>9, <2>1 DEF Checked
<1>10. CASE ChannelStep
  <2>1. /\ UNCHANGED <<returned, configs, failures, modem_on, slept, queues, driver, tasks>>
        /\ at' \in {at, "abort"}
    BY <1>10, ChannelLeaves
  <2>2. CASE RingCalls \/ Sends(Ring) \/ Buffers \/ Receives \/ Replies
    BY <2>1, <2>2, OthersMove
  <2>3. CASE Sends(App)
    <3>1. CASE Aborts(App)
      BY <2>1, <3>1 DEF Aborts, vars
    <3>2. CASE TaskStep(App)
      <4>1. pc[App] # "idle" /\ DOMAIN pc' = Procs
        BY <3>2, TaskMoves
      <4> QED BY <2>1, <4>1
    <3> QED BY <2>3, <3>1, <3>2 DEF Sends
  <2> QED BY <1>10, <2>2, <2>3 DEF ChannelStep
<1>11. CASE iridium_modem_sleep
  <2>1. UNCHANGED <<pc, at, returned, configs, failures, queues, driver, tasks>>
    BY <1>11 DEF iridium_modem_sleep, vars, made
  <2> QED BY <1>11, <2>1 DEF iridium_modem_sleep
<1>12. CASE UNCHANGED uvars
  BY <1>12 DEF uvars, vars, power, made
<1> QED
  BY <1>1, <1>2, <1>3, <1>4, <1>5, <1>6, <1>7, <1>8, <1>9, <1>10, <1>11, <1>12
     DEF SetupNext, iridium_config, ChannelStep

\* Every variable keeps its type, and iridium_config is in iridium_send only while
\* it waits for the check (676-798).
THEOREM SetupTypeCorrect == SetupSpec => []SetupTypeOK
<1>1. SetupInit => SetupTypeOK /\ CallsAtWait
  <2> SUFFICES ASSUME SetupInit PROVE SetupTypeOK /\ CallsAtWait
    OBVIOUS
  <2>1. DOMAIN pc = Procs /\ pc[App] = "idle"
    BY SetupAssumption DEF SetupInit, Init, Procs
  <2>2. queues \in [LibraryQueues -> 0 .. configs] /\ tasks \in [LibraryTasks -> Nat]
    BY DEF SetupInit
  <2>3. configs \in 0 .. MaxConfigs /\ failures \in 0 .. MaxFailures /\ driver \in 0 .. configs
    BY SetupAssumption DEF SetupInit
  <2> QED BY <2>1, <2>2, <2>3 DEF SetupInit, SetupTypeOK, CallsAtWait
<1> QED BY <1>1, SetupTypeStep, PTL DEF SetupSpec

-----------------------------------------------------------------------------
\* Every step keeps IInv.
LEMMA IInvStep == SetupTypeOK /\ IInv /\ [SetupNext]_uvars => IInv'
<1> SUFFICES ASSUME SetupTypeOK, IInv, [SetupNext]_uvars PROVE IInv'
  OBVIOUS
<1> USE DEF SetupTypeOK, IInv, NotYet, Behind, OneOfEachTask, OneCallSucceeds,
        QueuesOfThisCall, LibraryTasks, LibraryQueues, After, Passes, Fault, Fails, FailsUnseen
<1>1. CASE Config BY <1>1 DEF Config, made
<1>2. CASE SleepPin BY <1>2 DEF SleepPin, made
<1>3. CASE NetPin BY <1>3 DEF NetPin, made
<1>4. CASE CreateQueues BY <1>4 DEF CreateQueues
<1>5. CASE InstallDriver BY <1>5 DEF InstallDriver
<1>6. CASE UartPins BY <1>6 DEF UartPins, made
<1>7. ASSUME NEW t \in LibraryTasks, CreateTask(t) PROVE IInv'
  BY <1>7 DEF CreateTask
<1>8. CASE Check BY <1>8 DEF Check, made
<1>9. CASE Checked BY <1>9 DEF Checked, made
<1>10. CASE ChannelStep
  BY <1>10, ChannelLeaves
<1>11. CASE iridium_modem_sleep BY <1>11 DEF iridium_modem_sleep, made
<1>12. CASE UNCHANGED uvars BY <1>12 DEF uvars, made
<1> QED
  BY <1>1, <1>2, <1>3, <1>4, <1>5, <1>6, <1>7, <1>8, <1>9, <1>10, <1>11, <1>12
     DEF SetupNext, iridium_config, ChannelStep

\* IInv in every state of a behaviour.
LEMMA SetupInvariant == SetupSpec => []IInv
<1>1. SetupInit => IInv
  BY DEF SetupInit, IInv, NotYet, Behind, OneOfEachTask, OneCallSucceeds, QueuesOfThisCall,
         LibraryTasks, After
<1> QED BY <1>1, IInvStep, SetupTypeCorrect, PTL DEF SetupSpec

\* No task of the library is created a second time, by whatever call (743-785).
THEOREM TasksOnce == SetupSpec => []OneOfEachTask
<1>1. IInv => OneOfEachTask
  BY DEF IInv
<1> QED BY <1>1, SetupInvariant, PTL

\* A task is created only behind the driver and the queues of its call (743-785).
THEOREM TasksAfterDriver == SetupSpec => DriverBeforeTasks
<1>1. SetupTypeOK /\ IInv /\ [SetupNext]_uvars =>
        [UNCHANGED tasks \/ (driver = configs /\ QueuesOfThisCall)]_uvars
  <2> SUFFICES ASSUME SetupTypeOK, IInv, SetupNext
               PROVE  UNCHANGED tasks \/ (driver = configs /\ QueuesOfThisCall)
    OBVIOUS
  <2>1. ASSUME NEW t \in LibraryTasks, CreateTask(t)
        PROVE  driver = configs /\ QueuesOfThisCall
    <3>1. at = t
      BY <2>1 DEF CreateTask, FailsUnseen
    <3> QED BY <3>1 DEF IInv, Behind
  <2>2. CASE ChannelStep
    BY <2>2, ChannelLeaves
  <2>3. CASE Config \/ SleepPin \/ NetPin \/ CreateQueues \/ InstallDriver \/ UartPins
             \/ Check \/ Checked \/ iridium_modem_sleep
    BY <2>3 DEF Config, SleepPin, NetPin, CreateQueues, InstallDriver, UartPins, Check,
       Checked, iridium_modem_sleep, made
  <2> QED BY <2>1, <2>2, <2>3 DEF SetupNext, iridium_config, ChannelStep
<1> QED
  BY <1>1, SetupTypeCorrect, SetupInvariant, PTL
     DEF SetupSpec, DriverBeforeTasks, QueuesOfThisCall

\* Of all the calls of iridium_config, the one that installs the driver alone can
\* return SAT_OK (746-752).
THEOREM OneCallOnly == SetupSpec => []OneCallSucceeds
<1>1. IInv => OneCallSucceeds
  BY DEF IInv
<1> QED BY <1>1, SetupInvariant, PTL
=============================================================================
