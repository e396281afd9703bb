-------------------------------- MODULE Setup --------------------------------
(***************************************************************************)
(* iridium_config, as often as the application calls it: it configures the *)
(* pins, creates the queues, installs the driver, starts the three tasks   *)
(* and asks the modem for a sign of life.  Each step may fail; what the    *)
(* steps before it have made stays.  The tasks work as soon as they exist: *)
(* on the channel of IridiumLink, with ring_satcom_task, which a SBDRING   *)
(* may start before the check, as the second one that calls iridium_send.  *)
(***************************************************************************)
EXTENDS IridiumLink

CONSTANTS
  App, Ring,    \* the task that calls iridium_config, and ring_satcom_task
  SetupFaults,  \* what may fail: "gpio", "driver", "pins", a queue, a task
  MaxConfigs,   \* bound: calls of iridium_config
  MaxFailures   \* bound: steps of them that fail

LibraryTasks == {"message_satcom_task", "uart_satcom_task", "buffer_satcom_task"}
LibraryQueues == {"buffer_queue", "message_queue"}

ASSUME SetupAssumption ==
  /\ Tasks = {App, Ring} /\ App # Ring
  /\ "AT" \in Commands[App] /\ TRUE \in WaitFlags
  /\ SetupFaults \subseteq {"gpio", "driver", "pins"} \cup LibraryQueues \cup LibraryTasks
  /\ MaxConfigs \in Nat /\ MaxFailures \in Nat

VARIABLES
  at, returned,           \* place in iridium_config, what it returned
  configs, failures,      \* its calls, and its steps that have failed
  modem_on, slept,        \* the level of the sleep pin; history: put to sleep since
                          \* iridium_config has set it last
  queues, driver,         \* which call made each queue (0: a null handle), and
                          \* which one installed the driver (0: none)
  tasks                   \* how many of each task run

power == <<modem_on, slept>>
made == <<queues, driver, tasks>>
uvars == <<vars, at, returned, configs, failures, power, made>>

\* What malloc left in iridium_t is set before it is used.  The application has
\* given both pins a number; one without is a pin that never fails, of a modem
\* that is always on.
SetupInit ==
  /\ Init
  /\ at = "idle" /\ returned = "none" /\ configs = 0 /\ failures = 0
  /\ modem_on \in BOOLEAN /\ slept = FALSE
  /\ queues = [q \in LibraryQueues |-> 0] /\ driver = 0
  /\ tasks = [t \in LibraryTasks |-> 0]

\* Faulty variant: the tasks are created before the driver is installed.
TasksFirst ==
  [slp |-> "net", net |-> "queues", queues |-> "message_satcom_task",
   message_satcom_task |-> "uart_satcom_task", uart_satcom_task |-> "buffer_satcom_task",
   buffer_satcom_task |-> "driver", driver |-> "pins", pins |-> "check", check |-> "wait"]

\* The order of the steps of iridium_config.
After ==
  [slp |-> "net", net |-> "queues", queues |-> "driver", driver |-> "pins",
   pins |-> "message_satcom_task", message_satcom_task |-> "uart_satcom_task",
   uart_satcom_task |-> "buffer_satcom_task", buffer_satcom_task |-> "check",
   check |-> "wait"]

Passes(step) == at = step /\ at' = After[step] /\ UNCHANGED <<returned, failures>>
Fault(fault) == fault \in SetupFaults /\ failures < MaxFailures /\ failures' = failures + 1
Fails(fault, step) == Fault(fault) /\ at = step /\ at' = "idle" /\ returned' = "SAT_ERROR"
\* Nobody looks at the failure.
FailsUnseen(fault, step) ==
  Fault(fault) /\ at = step /\ at' = After[step] /\ UNCHANGED returned
Runs(t) == tasks[t] > 0

-----------------------------------------------------------------------------
\* The application calls iridium_config, also when it has succeeded before.
Config ==
  /\ at = "idle" /\ configs < MaxConfigs
  /\ at' = "slp" /\ configs' = configs + 1 /\ returned' = "none"
  /\ UNCHANGED <<vars, failures, power, made>>

\* Faulty variant: the modem is not turned on.
SleepPinOnly ==
  /\ \/ Passes("slp") /\ slept' = FALSE
     \/ Fails("gpio", "slp") /\ UNCHANGED slept
  /\ UNCHANGED <<vars, configs, modem_on, made>>

\* A modem that was off has not heard what was written meanwhile.
SleepPin ==
  /\ \/ /\ Passes("slp") /\ modem_on' = TRUE /\ slept' = FALSE
        /\ answered' = IF modem_on THEN answered ELSE Len(written)
     \/ Fails("gpio", "slp") /\ UNCHANGED <<power, answered>>
  /\ UNCHANGED <<satcom, buffer_queue, locals, written, uart, dropped, configs, made>>

NetPin ==
  /\ Passes("net") \/ Fails("gpio", "net")
  /\ UNCHANGED <<vars, configs, power, made>>

\* The fields are reset and the queues created, over those of an earlier
\* call; nobody looks whether xQueueCreate had the memory.  message_satcom_task
\* takes from its queue all the time: on one that is not there it aborts the device.
CreateQueues ==
  /\ \/ Passes("queues") /\ queues' = [q \in LibraryQueues |-> configs]
     \/ \E lost \in LibraryQueues :
          /\ Fault(lost) /\ at = "queues" /\ UNCHANGED returned
          /\ at' = IF lost = "message_queue" /\ Runs("message_satcom_task")
                     THEN "abort" ELSE After["queues"]
          /\ queues' = [q \in LibraryQueues |-> IF q = lost THEN 0 ELSE configs]
  /\ c_nonce' = 0 /\ p_nonce' = 0 /\ status' = "IQS_OPEN"
  /\ buffer_queue' = <<>>
  /\ UNCHANGED <<buffer_data, locals, modem, uart, dropped, configs, power, driver, tasks>>

\* Faulty variants: nobody looks whether the driver could be installed; that it
\* is there already is no error.
InstallDriverIgnored ==
  /\ \/ driver = 0 /\ Passes("driver") /\ driver' = configs
     \/ driver = 0 /\ FailsUnseen("driver", "driver") /\ UNCHANGED driver
     \/ driver # 0 /\ Passes("driver") /\ UNCHANGED driver
  /\ UNCHANGED <<vars, configs, power, queues, tasks>>
InstallDriverOnce ==
  /\ \/ driver = 0 /\ Passes("driver") /\ driver' = configs
     \/ driver # 0 /\ Passes("driver") /\ UNCHANGED driver
     \/ driver = 0 /\ Fails("driver", "driver") /\ UNCHANGED driver
  /\ UNCHANGED <<vars, configs, power, queues, tasks>>

\* uart_driver_install fails on a port that has its driver.
InstallDriver ==
  /\ \/ driver = 0 /\ Passes("driver") /\ driver' = configs
     \/ driver = 0 /\ Fails("driver", "driver") /\ UNCHANGED driver
     \/ /\ driver # 0 /\ at = "driver" /\ at' = "idle" /\ returned' = "SAT_ERROR"
        /\ UNCHANGED <<driver, failures>>
  /\ UNCHANGED <<vars, configs, power, queues, tasks>>

\* uart_set_pin; uart_param_config, which aborts on a failure.
UartPins ==
  /\ \/ Passes("pins")
     \/ Fails("pins", "pins")
     \/ Fault("pins") /\ at = "pins" /\ at' = "abort" /\ UNCHANGED returned
  /\ UNCHANGED <<vars, configs, power, made>>

\* Nobody looks whether xTaskCreate succeeded.
CreateTask(t) ==
  /\ \/ /\ at = t /\ UNCHANGED <<returned, failures>>
        /\ at' = IF t = "message_satcom_task" /\ queues["message_queue"] = 0
                   THEN "abort" ELSE After[t]
        /\ tasks' = [tasks EXCEPT ![t] = @ + 1]
     \/ FailsUnseen(t, t) /\ UNCHANGED tasks
  /\ UNCHANGED <<vars, configs, power, queues, driver>>

\* The AT check, an iridium_send that waits.
Check ==
  /\ Passes("check")
  /\ Call(App, "AT", TRUE)
  /\ UNCHANGED <<configs, power, made>>

\* Faulty variant: the check does not wait.
CheckedAtOnce ==
  /\ at = "wait"
  /\ at' = "idle" /\ returned' = "SAT_OK"
  /\ UNCHANGED <<vars, configs, failures, power, made>>

\* iridium_send has returned, as ever with SAT_OK.
Checked ==
  /\ at = "wait" /\ pc[App] = "idle"
  /\ at' = "idle" /\ returned' = "SAT_OK"
  /\ UNCHANGED <<vars, configs, failures, power, made>>

iridium_config ==
  \/ SleepPin \/ NetPin \/ CreateQueues \/ InstallDriver \/ UartPins
  \/ (\E t \in LibraryTasks : CreateTask(t))
  \/ Check \/ Checked

-----------------------------------------------------------------------------
(***************************************************************************)
(* The tasks, each from its creation on.  A process that uses buffer_queue *)
(* when it is not there aborts the device.                                 *)
(***************************************************************************)
Stays == at # "abort" /\ UNCHANGED <<at, returned, configs, failures, power, made>>
NoQueue(p) == pc[p] \in {"enqueue", "receive"} /\ queues["buffer_queue"] = 0
Aborts(p) ==
  /\ NoQueue(p)
  /\ at # "abort" /\ at' = "abort"
  /\ UNCHANGED <<vars, returned, configs, failures, power, made>>

\* A SBDRING has started ring_satcom_task.
RingCalls == Runs("uart_satcom_task") /\ Calls(Ring) /\ Stays

Sends(t) == \/ ~NoQueue(t) /\ TaskStep(t) /\ Stays
            \/ Aborts(t)
Buffers == \/ ~NoQueue(BufferTask) /\ Runs(BufferTask) /\ buffer_satcom_task /\ Stays
           \/ Aborts(BufferTask)
Receives == Runs(UartTask) /\ uart_satcom_task /\ Stays

\* The modem answers while it is on.
Replies == modem_on /\ ModemReply /\ Stays

\* Any task may call it, also while iridium_config runs.
iridium_modem_sleep ==
  /\ at # "abort" /\ modem_on
  /\ modem_on' = FALSE /\ slept' = TRUE
  /\ UNCHANGED <<vars, at, returned, configs, failures, made>>

SetupNext ==
  \/ Config \/ iridium_config
  \/ RingCalls \/ (\E t \in Tasks : Sends(t)) \/ Buffers \/ Receives
  \/ Replies
  \/ iridium_modem_sleep

SetupSpec == SetupInit /\ [][SetupNext]_uvars

\* The scheduler runs every ready task (iridium_config in that of the
\* application), and the modem answers while it is on.
FairSetupSpec ==
  /\ SetupSpec
  /\ WF_uvars(iridium_config \/ Sends(App)) /\ WF_uvars(Sends(Ring))
  /\ WF_uvars(Buffers) /\ WF_uvars(Receives \/ Replies)

-----------------------------------------------------------------------------
\* The variables of iridium_config have their types, and it is in iridium_send
\* only while it waits.
SetupTypeOK ==
  /\ at \in DOMAIN After \cup {"idle", "wait", "abort"}
  /\ returned \in {"none", "SAT_OK", "SAT_ERROR"}
  /\ configs \in 0 .. MaxConfigs /\ failures \in 0 .. MaxFailures /\ driver \in 0 .. configs
  /\ {modem_on, slept} \subseteq BOOLEAN
  /\ queues \in [LibraryQueues -> 0 .. configs] /\ tasks \in [LibraryTasks -> Nat]
  /\ pc[App] # "idle" => at \in {"wait", "abort"}

\* However often the application calls iridium_config, no task of the library
\* runs twice: two uart_satcom_task would cut each other's replies in pieces.
OneOfEachTask == \A t \in LibraryTasks : tasks[t] <= 1

\* A task is created only by the call that has installed the driver, which makes
\* the queue uart_satcom_task waits on, and with the queues of that call.
DriverBeforeTasks ==
  [][UNCHANGED tasks \/ (/\ driver = configs
                         /\ \A q \in LibraryQueues : queues[q] \in {0, configs})]_uvars

\* Only the call that installed the driver returns SAT_OK: a call that fails
\* behind it, at the UART's pins, leaves a modem that no retry sets up, and a
\* call after SAT_OK fails, when it has replaced the queues and opened the channel
\* under the tasks of the first one (741-744).
OneCallSucceeds == returned = "SAT_OK" => driver = configs

\* SAT_OK (README.md:62) says that the modem has answered this very call,
\* unless ring_satcom_task was on the channel too, behind whose command the AT
\* is parked (211, 430); then, too, it says that uart_satcom_task runs.
OkMeansAnswered ==
  returned = "SAT_OK" =>
    /\ Runs("uart_satcom_task")
    /\ msg[Ring].call = 0 => result[App] = msg[App]

\* iridium_config returns, unless uart_satcom_task could not be created, the
\* modem was put to sleep meanwhile, or the device aborted: it turns on a modem
\* that had been put to sleep before.
ConfigReturns ==
  []<>\/ at \in {"idle", "abort"}
      \/ at = "wait" /\ (slept \/ ~Runs("uart_satcom_task"))
=============================================================================
