# Verification of the ESP32 Iridium modem library

TLA+ models, TLC runs and TLAPS proofs for the library in `src/iridium.c`,
`src/iridium.h`, `src/stack.c` and `src/stack.h`: the FreeRTOS tasks that send
AT commands to an Iridium 9602/9603 modem over a UART, wait for the answers,
park what cannot be sent yet, and fetch incoming messages when the modem rings.
Line numbers below are those of `src/iridium.c` unless another file is named.

## 1. Inventory

| part | state | operations | touched by |
|---|---|---|---|
| command channel | `status`, `c_nonce`, `p_nonce`, `buffer_data`, `buffer_queue` | `iridium_send` (324), `iridium_send_raw` (209), `iridium_update_iqs` (169), `iridium_update_p_nonce` (182), `iridium_get_iqs` (194), `buffer_satcom_task` (579) | any application task, `ring_satcom_task`, `buffer_satcom_task`, `uart_satcom_task` |
| UART receiver | the driver's event queue, the stack `s`, locals `data`, `command` | `uart_satcom_task` (479) | itself only |
| result parser | signal strength, mailbox numbers, identification in `iridium_t` | `iridium_satcom_process_result` (76) | `uart_satcom_task`; read by anyone without a lock |
| `str_split` | `strtok`'s hidden state | `str_split` (21) | `uart_satcom_task` |
| string stack | linked list on the heap | `newStack`, `push`, `top`, `pop`, `clear_stack`, `destroy_stack` (`stack.c`) | `uart_satcom_task` |
| incoming messages | `message_queue` | `iridium_satcom_process_result` (139), `message_satcom_task` (599) | two tasks |
| ring session | `ring_task_running`; reads `status_outbound`, `messages_waiting` | `ring_satcom_task` (443), started at 503 | two tasks |
| transmit session | locals; reads `status_outbound` | `iridium_tx_message` (277) | the application |
| other sessions | locals | `iridium_config_ring` (235), `iridium_system_spec` (640) | the application |
| configuration | all fields, the queues, the driver, the tasks | `iridium_default_configuration` (617), `iridium_config` (676) | the application |
| pins | the level of the sleep pin | `iridium_modem_sleep` (661), `iridium_is_available` (629) | the application |
| example, LED encoder, Flipper Zero menus, webhook server | own | `src/examples`, `src/flipper-zero-app` | not part of the library |

How they interact. `iridium_send` takes a nonce, and `iridium_send_raw` looks at
`status`: on `IQS_WAITING` the command goes to `buffer_queue`, otherwise it is
written to the UART and *then* `status` and `p_nonce` are stored.
`uart_satcom_task` collects the lines of the answer on the stack until `OK`,
copies the data to `buffer_data`, calls the parser (which calls the application
and may fill `message_queue`), and stores `IQS_OPEN`. `buffer_satcom_task` polls
`status` and sends the oldest parked command through `iridium_send_raw` again. A
caller that waits polls `status` and `p_nonce`, then copies `buffer_data`. A
`SBDRING` line starts `ring_satcom_task`, one more caller of `iridium_send`.
`iridium_tx_message` and `ring_satcom_task` send several commands and decide, in
between, on fields that the parser stores for any reply. `iridium_config` creates
all of this step by step; the application may call it again, when it failed and
also when it returned `SAT_OK`.

The tasks of the library run at priority 12, the callers at their own, on two
cores. The mutexes of `iridium_t`
protect single stores only: no two accesses are atomic together, and `c_nonce`,
`buffer_data`, `p_nonce` (when read) and the parsed fields are not locked.

What is hard, and the property that answers it:

* two callers and the buffer task between the test of `status` and the store
  (`AtMostOnce`, `NothingForgotten`, `ImplementsLedger`, `NoStuckWaiting`);
* an answer before the store of `IQS_WAITING` (`EveryCallReturns`);
* a wait that ends for a reason other than the answer (`ResultIsOwn`);
* parked commands that lose the channel over and over (`ParkedIsSettled`);
* answers cut in events, mixed with `SBDRING`, flushed, or `ERROR`
  (`ImplementsChannel`, `NoReplyLost`, `OpenMeansAnswered`, `EveryReplyReopens`);
* a reply that is handled between another writer's test, write and store
  (`OpenMeansAnswered`);
* `strtok` inside `strtok`, two passes over a text that may disagree
  (`ResultIsFields`, `AbortsOnEmptyField`, `ResultInBounds`, `AbortsOnEmptyText`);
* the ring flag that two tasks write (`OneRingTask`, `RingStartsTask`);
* a decision on a field that another command's reply may have stored
  (`SuccessMeansSent`, `HeardSuccessIsSent`), or on a buffer of the modem that another session may have
  overwritten (`InboundKept`), after a command that nobody waited for
  (`SetBeforeUsed`); loops that end only on good news (`SessionsEnd`);
* a set-up that fails half way, or succeeds, and is called again (`OneOfEachTask`,
  `DriverBeforeTasks`, `OneCallSucceeds`), and what its `SAT_OK` means while the
  tasks it has started work already (`OkMeansAnswered`, `ConfigReturns`);
* memory of the stack when `malloc` fails half way (`NothingLeaks`, `NoDangling`,
  `ImplementsStack`).

The complete list, with the line of each, is under `hazards` in `PROJECT.json`.

## 2. Modules

| module | models |
|---|---|
| `IridiumLink` | the command channel, with the modem as environment; a reply is one unit |
| `RequestLedger` | what callers may rely on, a request issued, then written or refused once: the abstraction `IridiumLink` implements |
| `MCIridiumLink` | its instances |
| `IridiumLinkProofs`, `IridiumLinkRequestProofs` | theorems about it |
| `Session`, `MCSession` | the functions of several commands and `ring_satcom_task`, on `IridiumLink`, with the gateway behind the modem |
| `SessionProofs` | `Session` implements `IridiumLink`, and what a function or the ring task can rely on |
| `Setup`, `MCSetup`, `SetupProofs` | `iridium_config`, called again after failures and after `SAT_OK`, on `IridiumLink`, with a ring task beside its check; `iridium_modem_sleep` at any time |
| `UartReceiver` | `uart_satcom_task`, the parser, `message_satcom_task`, start and end of `ring_satcom_task` |
| `UartReceiverProofs` | theorems about it |
| `ReplyChannel` | what a sender may expect of the modem and the receiver together: the abstraction `UartReceiver` implements |
| `MCUartReceiver` | its instances |
| `Tokens` | what `strtok` makes of a text, as functions on sequences |
| `TokensProofs` | what these functions return, for a text of any length |
| `StrSplit`, `MCStrSplit` | both passes of `str_split`, step by step, against `Tokens` |
| `StrSplitProofs` | theorems about it |
| `Stack`, `StringStack`, `MCStack` | `stack.c` on a heap, and the stack it implements |
| `StackProofs` | theorems about it |

`IridiumLink` and `UartReceiver` meet at the UART. In `IridiumLink` a reply
is a unit, read in three steps (taken, copied to `buffer_data`, channel
open); `UartReceiver` is the detail below it and shows when that unit is right:
`ImplementsChannel` says that replies are handled whole, once, in order, each
under its own command, and that the channel opens after each.
`UartReceiver` uses the operators of `Tokens` where the code calls `strtok` and
`str_split`; `StrSplit` justifies that. It keeps lines in a sequence where the
code has the stack; `Stack` justifies that.

### IridiumLink

One action per access to a shared field that another task can get in front of:

| code | actions |
|---|---|
| `iridium_send`, nonce (328-329) | `Call` (entry and load), `NonceStore`, `NonceReread` |
| `iridium_send_raw` (209-227) | `CheckStatus`, `Enqueue` or `EnqueueTimeout`, or `WriteBytes`, `UpdateIqsWaiting`, `UpdatePNonce` |
| wait loop (428-437) | `WaitTest`, `WaitPoll`, `CopyResult` |
| `buffer_satcom_task` (584-595) | `BufferPoll`, `BufferReceive`, then `iridium_send_raw` |
| `uart_satcom_task` (485-544) | `UartReceive`, `UartCopied`, `UpdateIqsOpen` |
| the modem | `ModemReply` |

A callback of the application runs in `uart_satcom_task` (`UartTask`), between
`UartCopied` and `UpdateIqsOpen` and on the replies of `HasCallback`. If it calls
`iridium_send`, `UartTask` is one of the `Tasks`, and `UpdateIqsOpen` waits for its
call to end.

A request is identified by its task and the number of its call. The code has no
such thing, only the nonce; the model carries both, and what is said about
requests is said with the former. The text of a command is its enum value.
The two cases that return before the wait (`AT_SBDWT`, `AT_SBDMTA`, 398-411) are
`ReturnsAfterRaw`; the value without a case (`SBDRING`) is `HasNoCase`. A copy
of `buffer_data` that meets the `strcpy` half way is the value `Garbage`, as is
`result.result` of a call that does not wait.

`written` and `answered` are a history of the UART: everything written so far and
how much of it the modem is done with. `dropped` holds what a full `buffer_queue`
refused.

### UartReceiver

`wire` is what the modem sent and the task has not read, as a sequence of words.
An event takes any prefix of it (`UartData`), or any prefix is flushed
(`UartOverflow`); the lines of the event are `chunk`. One action handles one line
(`PushLine`, `StartRingTask`, `SpinOnError`, `PopAll`) and one more the result
(`ProcessPlain`, `ProcessSplit`, `ProcessMessage`, or `ProcessAbort` when an
assertion of `str_split` fails or a field is not there). `str_split` uses
`strtok`, so after it the token loop finds nothing more in the event: the actions
that split leave an empty `chunk`. A local `command` that no `AT` line filled is
either what it held or `junk`.

`iridium_send_raw` is there twice. With `Writers = {}` one command is sent at a time and
its reply comes behind the store at 224: `SendCommand` is the test, the write and the store.
Each of the `Writers` takes them one by one (`CheckStatus`, `WriteBytes`,
`UpdateIqsWaiting`), with everything else between: a reply may be handled before the
store, and two writers may find the channel open. `raced` records that two of them were between
the test and the store at once. `dropped` records that a text found `message_queue` full.

### Session

`Session` extends `IridiumLink`: each of its steps is a step of the channel with
more said, or leaves the channel alone. Its callers are `App`, which calls
`iridium_tx_message`, `iridium_config_ring` and `iridium_system_spec` in any order a
scenario gives, and `Ring`. `at` is the place of a function between two commands;
`Start` and `Then` are its control flow. `iridium_send` returns nothing but `SAT_OK`
(439, and 226 for the two cases that return early), so the tests of `r1.status` and
`r2.status` do nothing, and the loop of `iridium_tx_message` decides on
`status_outbound` alone (`Decide`). `RingDecide` reads `status_outbound` and
`messages_waiting` in two steps, and the parser stores them in two
(`StoreOutbound`, `StoreWaiting`).

What a session does is the gateway's: it transfers the outbound buffer `mo` and
fetches the oldest message that has arrived into the inbound buffer `taken`, or
fails. An outbound message is named by the call that sent its `AT_SBDWT`, an
inbound one by its number. `transmitted` and `fetched` are histories, `results` what
`iridium_tx_message` returned: `success` is whether the loop left by its `break`, and
`status` the field the caller sees, `"unset"` when nothing stored it. `heard` says that
`status_outbound` was a session's by then and no longer what `malloc` left, `misjudged`
which inbound messages came with a session that ended with the status 3 or 4: the modem has
transferred (`Transfers`), the code takes it for a failure (`MO_TRANSFERRED`).

### Setup

`Setup` extends `IridiumLink`, and its tasks are those of the channel, each from its creation
on (`Runs`). One action per step of `iridium_config`; `After` is their order. Steps that can
fail do so when `SetupFaults` has them, and the code's answer is the action's: return
`SAT_ERROR` (`Fails`), go on unaware (`FailsUnseen`, and a null handle in `queues`), or abort
(`ESP_ERROR_CHECK` in `UartPins`). What earlier steps made stays. `queues` says which call of
`iridium_config` made each queue, `driver` which call installed the driver. A task that
takes from or gives to a queue that is not there aborts the device: `message_satcom_task` at
once, a process of the channel when it comes to `buffer_queue` (`NoQueue`, `Aborts`).

The `AT` check (792) is an `iridium_send` of `App` (`Check`), which has returned when `App` is
idle (`Checked`): by the reply, or because it was parked behind a command of the ring task
and `p_nonce` was not its own (430). `uart_satcom_task` runs since 774, so `RingCalls` may
come before the check. `CreateQueues` resets the nonces and `status` (741-744) whatever the
tasks of an earlier call are at. Both pins are taken to have numbers; a pin without one is
a pin that never fails, of a modem that is always on.

### Assumptions

Four things the code relies on and does not ensure are constants:

* `SlowModem` (`IridiumLink`): an answer comes after the writer's two stores. At 19200
  baud an answer takes milliseconds and the stores microseconds, but nothing in
  the code ensures it, as the writer can be preempted. It is `TRUE` in `LinkTwoCallers`,
  `LinkLiveness` and `SetupRetries` and in the three runs that expect a violation, `FALSE` in
  `LinkSyncCaller` and `SessionAlone`;
* `Writers = {}` (`UartReceiver`): one command is sent at a time, and its answer comes
  after the store. `UartReplies` has it, `UartFaults` two writers instead;
* `WholeLines` (`UartReceiver`): events end where lines end;
* `RingApart` (`UartReceiver`): an event with `SBDRING` holds nothing else.

## 3. Runs

Twelve runs. `SessionAlone` and `SetupRetries` take two to three minutes each on two
workers, `LinkTwoCallers`, `LinkLiveness`, `UartReplies` and `UartFaults` about one.

| run | instance | shows |
|---|---|---|
| `LinkTwoCallers` | two tasks, two and one calls of `AT_CSQ` or `AT_SBDWT`, `buffer_queue` of one | no lost wake-up (`NoStuckWaiting`), no request twice (`AtMostOnce`), none forgotten (`NothingForgotten`), refinement of `RequestLedger` (`ImplementsLedger`), types |
| `LinkLiveness` | `t1` sends two `AT_SBDWT` without waiting, `t2` one `AT_CSQ` and waits | `EveryCallReturns`, `ParkedIsSettled` under weak fairness |
| `LinkSyncCaller` | one task, four calls; `ERROR`, silence and early answers allowed | each answer is the caller's own (`ResultIsOwn`), one command at a time (`OneAtATime`) |
| `UartReplies` | two commands of eight kinds sent one at a time, two rings, texts that may be empty, `message_queue` of one; whole lines, rings apart | refinement of `ReplyChannel`, `NoReplyLost`, `FieldsAreLatest`, `MessagesInOrder`, `EveryReplyReopens`, `RingStartsTask`; the device stops at an empty text, always, and nowhere else (`AbortsOnEmptyText`); types |
| `UartFaults` | two commands by two racing writers, two rings, early replies, cuts anywhere, overflow, `ERROR`, failing `xTaskCreate` | the channel is not left open with a reply outstanding unless two writers were in `iridium_send_raw` at once (`OpenMeansAnswered`), at most one ring task (`OneRingTask`) |
| `SplitTexts` | all texts of up to six words over two words and the delimiter | the five properties of `StrSplit` |
| `StackSequential` | one thread, three entries, two strings, failing `malloc` | `NoDangling`, `NothingLeaks`, refinement of `StringStack` but for the half entry of a push without memory for its string |
| `SessionAlone` | each function of several commands by itself, or two messages arriving; fresh memory that reads as a success or not, sessions that end with 0, 3 or 32, `ERROR`, lost and early answers | a success that `iridium_tx_message` decides on a session's status is one (`HeardSuccessIsSent`), the ring task reads every inbound message but those of sessions it misjudges (`InboundKept`), what a command relies on was set before (`SetBeforeUsed`), everything begun ends (`SessionsEnd`), types |
| `SetupRetries` | `iridium_config` twice, after a failure or after `SAT_OK`, one thing failing, a ring task from 774 on, the modem put to sleep at any time | `OneOfEachTask`, `DriverBeforeTasks`, `OneCallSucceeds`, `OkMeansAnswered`, `ConfigReturns`, types |
| `LinkErrorReply` | one call, `ERROR` | violated: `EveryCallReturns` |
| `LinkCallback` | one caller, and a callback that calls `iridium_send` | violated: `EveryCallReturns` |
| `SessionStale` | two transmissions one after the other | violated: `SuccessMeansSent` |

Bounds and why they are enough.

* `MaxCalls`. Three calls of two tasks contain every pair of racing calls, a
  third call after one of them has returned, a parked request behind a parked
  request, a full queue of one, and the buffer task losing the channel. What the
  theorems of section 5 state is proved without the bound.
* `BufferSize = 1` makes `EnqueueTimeout` happen with two requests.
* `MaxCommands = 2` makes every pair of commands follow each other: the second
  reply meets the stack, the locals, the fields and `message_queue` as the first
  left them. A third finds nothing new, as a reply leaves no more behind than
  that; it was tried with fewer kinds of commands.
* `MaxRings = 2`: the second ring finds the task of the first at work, or ended.
* `MessageQueueSize = 1`: with two commands the second text meets a full queue or an empty
  one. `MessagesInOrder` claims nothing after a text was dropped.
* Two `Writers` and two commands contain each order of the two tests, writes, stores and
  replies. The commands are `AT`, whose reply has no data, and `AT+CGMI`, whose reply has
  some: what the parser does with it does not matter to `OpenMeansAnswered`. The writers are
  symmetric, and no property of that run names one.
* `MaxLen = 6` is three fields with their delimiters, and every pattern of
  leading, doubled and trailing delimiters around one or two.
* `SessionAlone`. Alone means one function at a time: the channel is then used by one
  caller, and what goes wrong when two sessions meet is told in section 4. `MaxTries`
  is 2 for the code's 5: a first try that is not the last, and a last one. Sessions may fail
  any number of times. `MaxFailures` bounds none of them; it says with how many
  `SessionsEnd` still claims that the ring task ends, as its loop (450) has no bound of its own. `MaxCalls` is
  9: a function needs at most four, and two rings in which no more than `MaxFailures`
  sessions fail nine. Two messages make a session fetch the next one while the first waits to be read.
  `buffer_queue` has room for two, more than a caller alone parks.
* `MaxConfigs = 2`, and `MaxFailures = 1` in `Setup`: a call that fails anywhere, or
  succeeds, and one that meets what it left. A call that meets a driver ends at the
  driver, so that a third meets no more than the second. That `message_satcom_task` is not
  created is left out, as nothing follows from it in `Setup`; the theorems have any
  number of calls and failures. The ring task sends one command, the one the check may be
  parked behind.
* Three nodes: the middle one has a neighbour on each side.

Deadlock is checked in the runs of `IridiumLink`, where `buffer_satcom_task` polls
for ever. It is not checked in the others: the receiver stops when the
modem has said all it will say in the instance, or for good when it aborts;
`str_split` returns; the stack of a thread that faulted, or whose memory is
used up, stands still; the scenarios of `Session` are over, or its receiver hangs
on an `ERROR`; and the device of `Setup` may abort, or its modem sleep for good.

Fairness. `IridiumLink` assumes weak fairness of each task and of the modem: the
scheduler runs every ready task of the highest priority, and each loop of the
library blocks or sleeps between its rounds, so that the others run too. There is one condition for all steps of a task, since a task
has one program counter; nothing is assumed about a task that is in no call, as
whether to call is up to the application. `UartReceiver` assumes it for the two
tasks of the library, and nothing about the modem or `ring_satcom_task`.
`Session` assumes what `IridiumLink` does, for `App`, `Ring`, the buffer task, the
modem and the receiver; that the application calls something, or that a message
arrives, is not assumed. `SessionsEnd` has to except `Stuck`: a receiver that hangs, or
a channel closed with nothing outstanding, both told in section 4, and, for the ring
task, more than `MaxFailures` failed sessions. `Setup`
assumes weak fairness of the
application's task, the ring task and the buffer task, and for the receiver and a modem
that is on together. `ConfigReturns` excepts a `uart_satcom_task` that was not created,
a modem put to sleep meanwhile, and a device that aborted.
`StrSplit` runs to its end because the task that called it does.
No property needs strong fairness: the buffer task could poll only while
the channel is closed, but in an instance with finitely many calls the channel
ends up open for good. With callers that send for ever a parked request can
starve, and `ParkedIsSettled` claims nothing about that.

## 4. Where the code and its comments disagree

Three disagreements have a run (`findings` in `PROJECT.json`):

1. **An `ERROR` line hangs the receiver** (`LinkErrorReply`, 512). `continue`
   skips the `strtok` that would advance, so the loop sees `ERROR` for ever.
2. **A callback cannot wait for a reply** (`LinkCallback`, 99). It runs in the task
   that would have to read the reply, before the channel is open again.
3. **A message that was never transmitted is a success** (`SessionStale`, 298).
   `iridium_send` returns from `AT_SBDWT` without waiting (403), so the `SBDIX`
   that follows may be parked; a parked call does not wait either (430), and
   `iridium_tx_message` decides on the `status_outbound` of an earlier session.

The others are in the models as the code has them, and no run is spent on them.

In the channel:
* `IQS_WAITING` is stored after the write (224): an answer that is handled in between
  is overwritten, and every later command is parked for ever. `NoStuckWaiting`
  fails as soon as `SlowModem` is `FALSE`.
* Two callers that both pass the test (210) both write, and the first reply opens the channel
  (544) with the second outstanding. `OpenMeansAnswered` fails without its `~raced`.
* The wait ends as soon as `p_nonce` is not the caller's (430), which is so when the
  command was parked: the call returns the answer to another command.
  `ResultIsOwn` fails with a second caller.
* Two callers can take one nonce (328). `AT_SBDWT` and `AT_SBDMTA` return before
  the wait whatever `wait_response` says (403, 410). A full `buffer_queue` loses the
  request and the call returns `SAT_OK` (217).

In the receiver:
* The `break` behind `SBDRING` (509) drops the rest of the event, a reply among it,
  and the channel stays closed; a ring behind an answer that was split, in one
  event with it, is never seen (537). `NoReplyLost` fails without `RingApart`.
* Reading an empty mailbox aborts (140): the data is `+SBDRT:` alone, and the
  assertion at 62 fails. It is what `AbortsOnEmptyText` says.
* A line cut by an event boundary is two lines (494); an overflow leaves the channel
  closed (553); a text with a `+` is delivered only up to it (140); after a failed
  `xTaskCreate` no ring starts a task again (503); the callback for `SBDIX` is told
  `AT_SBDSX` (132); `free(tokens)` leaves the strings of `str_split` behind (127).

In the sessions:
* `result.status` of `iridium_tx_message` is never stored when the first try succeeds,
  and stays `SAT_ERROR` when a later one does (278, 303): the caller cannot tell.
* `status_outbound` is whatever `malloc` left until the first session (618); 0 is a
  success, also for a single transmission whose `SBDIX` is parked behind its `SBDWT`.
  `SuccessMeansSent` fails in `SessionAlone`, which checks `HeardSuccessIsSent` instead.
* `iridium.h:130` calls 0 to 4 successful, the code 0 to 2 (298, 455): after a 3 or 4 a
  message that is out is sent again, and the ring task holds the next session without reading
  the message it has fetched, which is lost. `InboundKept` fails without its `misjudged`.
* `ring_satcom_task` holds sessions until one succeeds and reports an empty queue (450),
  without a bound.
* A try whose `SBDIX` was parked returns at once, and the next tries are made while
  the first is still to come (291).
* A transmission and a ring session at once break `SuccessMeansSent`, `InboundKept`
  and `SetBeforeUsed`: each reads the other's status; the transmission's session
  fetches a message that the ring task's next session overwrites; and an
  `AT_SBDWT` parked behind the ring task's command is overtaken by its own
  `SBDIX`, which sends the buffer's old content or nothing.
* A ring handled while `ring_satcom_task` is past its last session and has not
  cleared the flag (501 against 475) starts nothing: its message waits for the next.

In the set-up:
* `xQueueCreate` and `xTaskCreate` may fail unseen (743, 767-785), and `SAT_OK` still
  comes, against `src/README.md:62`, without the buffer or the message task or a queue;
  without `uart_satcom_task` the check waits for ever (792), as it does when the modem is put
  to sleep meanwhile. A queue that is not there aborts the task that uses it.
* A ring before the check starts `ring_satcom_task`; the `AT` parked behind its command returns
  at once (430), and `iridium_config` returns `SAT_OK` without an answer. `OkMeansAnswered`
  excepts it.
* After a failure at the pins (755) every retry fails at the driver, which is there: only
  the call that installs it can succeed.
* A second `iridium_config` after `SAT_OK` puts new queues under the tasks and opens the
  channel (741-744), then fails at the driver. Requests in the old queue are lost
  and a reply may be outstanding; that it also makes new mutexes and clears the ring flag (741),
  so that a second ring task may start, is not in the model.
* The example goes on after a failure (`iridium_example_main.c:215-220`).

In the stack: `push` without memory for the string adds an entry all the same
(`stack.c:80`), which `stack.c:71` says is no push and `top` cannot tell from an
empty stack; `ImplementsStack` excepts that step (`HalfPush`), and fails without the
exception. `destroy_stack` of a null stack dereferences it (`stack.c:175`, against
`stack.c:170`). The list has no lock (`stack.c:82`, against `stack.h:9`); the library uses it from
one task.

## 5. Proofs

Each theorem holds for every value of the constants that its module's `ASSUME`
allows: any sets of tasks, commands and values, any capacities, any bounds, texts of
any length. What it assumes beyond that is in its row.

| theorem | module | states |
|---|---|---|
| `TypeCorrect` | `IridiumLinkProofs` | `Spec => []TypeOK`, the capacity of `buffer_queue` included |
| `NoLostWakeup` | `IridiumLinkProofs` | `Spec => []NoStuckWaiting`, if `SlowModem` and no fault |
| `NoRequestTwice` | `IridiumLinkRequestProofs` | `Spec => []AtMostOnce` |
| `NoRequestForgotten` | `IridiumLinkRequestProofs` | `Spec => []NothingForgotten` |
| `LinkImplementsLedger` | `IridiumLinkRequestProofs` | `Spec => ImplementsLedger`, the refinement of `RequestLedger` |
| `LoneCallerGetsItsReply` | `IridiumLinkProofs` | `Spec => []ResultIsOwn`, for one task that waits every time |
| `LoneCallerIsStrict` | `IridiumLinkProofs` | `Spec => []OneAtATime`, for the same task |
| `SessionImplementsLink` | `SessionProofs` | `SessionSpec` implements the `Spec` of `IridiumLink` |
| `SessionSendsOnce` | `SessionProofs` | `SessionSpec => []AtMostOnce` |
| `SessionTypeCorrect` | `SessionProofs` | `SessionSpec => []SessionTypeOK` |
| `SetIsUsed` | `SessionProofs` | `SessionSpec => []SetBeforeUsed`, if `Undisturbed` |
| `SuccessIsSent` | `SessionProofs` | `SessionSpec => []HeardSuccessIsSent`, if `Undisturbed` |
| `InboundIsKept` | `SessionProofs` | `SessionSpec => []InboundKept`, if `Undisturbed` |
| `SetupTypeCorrect` | `SetupProofs` | `SetupSpec => []SetupTypeOK` |
| `TasksOnce` | `SetupProofs` | `SetupSpec => []OneOfEachTask` |
| `TasksAfterDriver` | `SetupProofs` | `SetupSpec => DriverBeforeTasks`, an action property |
| `OneCallOnly` | `SetupProofs` | `SetupSpec => []OneCallSucceeds` |
| `OpenAfterReply` | `UartReceiverProofs` | `Spec => []OpenMeansAnswered` |
| `EveryReplySeen` | `UartReceiverProofs` | `Spec => []NoReplyLost`, if `Orderly` |
| `RingTaskAlone` | `UartReceiverProofs` | `Spec => []OneRingTask` |
| `ReceiverTypeCorrect` | `UartReceiverProofs` | `Spec => []TypeOK`, the capacity of `message_queue` included |
| `ChannelImplemented` | `UartReceiverProofs` | `Spec => ImplementsChannel`, the refinement of `ReplyChannel`, if `Orderly` and `NoATTexts` |
| `OnlyEmptyTextAborts` | `UartReceiverProofs` | `Spec => []AbortsOnEmptyText`, if also `PlainTexts` |
| `FieldsOfLastReply` | `UartReceiverProofs` | `Spec => []FieldsAreLatest`, under the same conditions |
| `MessagesDelivered` | `UartReceiverProofs` | `Spec => []MessagesInOrder`, under the same conditions |
| `FewMessagesDelivered` | `UartReceiverProofs` | `Spec => [](~dropped /\ MessagesInOrder)`, if also `MaxCommands <= MessageQueueSize` |
| `SplitTypeCorrect` | `StrSplitProofs` | `Spec => []TypeOK` |
| `SplitInBounds` | `StrSplitProofs` | `Spec => []ResultInBounds` |
| `SplitIsFields` | `StrSplitProofs` | `Spec => []ResultIsFields` |
| `SplitAborts` | `StrSplitProofs` | `Spec => []AbortsOnEmptyField` |
| `StackTypeCorrect` | `StackProofs` | `Spec => []TypeOK`, for one thread |
| `ListIsAllocated` | `StackProofs` | `Spec => []NoDangling`, for one thread |
| `NothingIsLost` | `StackProofs` | `Spec => []NothingLeaks`, for one thread |
| `StackImplementsList` | `StackProofs` | `Spec => ImplementsStack`, the refinement of `StringStack` but for `HalfPush`, for one thread |

The assumptions on the constants (`LinkAssumption`, `SessionAssumption`,
`SetupAssumption`, `ReceiverAssumption`, `SplitAssumption`, `StackAssumption`) are evaluated
in every run of the module: the constants have their types, the tasks of the library are not
among the callers, the words of the protocol are no values, and the delimiter is a word.

`NoLostWakeup`. `NoStuckWaiting` says that `IQS_WAITING` implies a reply on its
way. It is not inductive: a process about to store `IQS_WAITING` could store it
when nothing is outstanding, which is the early answer of section 4. `WakeupInv` adds
`StoringIsUnanswered`: between the write and the end of `iridium_send_raw` the
process's own message is among those not answered. `ModemReply` keeps this
because of `SlowModem`; `UpdateIqsOpen` needs nothing, as it opens the channel.

`NoRequestTwice`. `AtMostOnce` says that no two of the places a request can be at
(a process's hand, `buffer_queue`, the UART, the dropped ones) hold the same one.
It is not inductive: a new call needs a number that is in none of them.
`IssuedInv` adds that every request anywhere was issued: its task's counter has
reached its number. Each step then is one of five kinds, with a lemma each: nothing moves
(`Unmoved`), or one request goes from a hand to the UART (`MovedToWire`), to the
queue (`MovedToQueue`), to the dropped ones (`MovedToDropped`), from the queue to
the buffer task's hand (`MovedToHand`), or is new (`NewInHand`).

`NoRequestForgotten`. The same places, from the other side: a request that leaves one
arrives at another. `KeptInv` adds `OwnCommand`, without which a call could leave the
switch by the default case (the model's `HasNoCase`) with a request that no branch
sends.

`LinkImplementsLedger`. The ledger has no places, only a set of open requests, which is
`Open`, all those in a hand or in `buffer_queue`. A step takes one out of it
(`OpenLoses`), puts a new one in (`OpenGains`), or leaves it as it is, also when a
request changes hands (`OpenStays`, `OpenParks`, `OpenTakes`). That the one written
or refused is then out needs `AtMostOnce`: no second copy may be open. The
histories only grow, so that nothing written or refused is ever taken back.

`LoneCallerGetsItsReply`. `ResultIsOwn` speaks of the end of a call, and rests on what
happened since its write. `SyncInv` follows the one command through its places: not
written yet, written with the channel still open, waiting, answered, copied, open
again. At each it says what `status`, `p_nonce`, `answered` and the receiver are. The
modem is unrestricted, so an early answer is one of the cases: then the call waits for
ever, and gets no wrong result. `LoneCaller(t)` is the assumption: one task,
`wait_response` always set, no command that returns early.

`SessionImplementsLink`. A step of `Session` is a step of `IridiumLink` on the channel's
variables or leaves them as they are (`SessionStepIsLinkStep`), and the constants of the
two agree. What is proved for every caller thus holds of the functions and
the ring task together, without the bound of one function at a time.

`SetIsUsed` and `SuccessIsSent`. What a function relies on is there because its first command
finds the channel open: nothing was sent before. `AppOnly` follows the function from not
begun (`NotBegun`) over that command in its hand (`FirstInHand`) to under way (`UnderWay`:
the command is the first on the UART). `AllBased` then says that whatever request there is,
in a hand, parked or written, the one it relies on is that first one. `SuccessInv` goes on
with the message: nothing follows `AT_SBDWT` to the modem before its `OK` has come, and by
then the modem holds the message (`Sending`), so that every `OK` of a session which reports
a transfer is the transfer of this message (`Reported`), also when it is handled a try too
late. The one way past this is an `SBDIX` parked behind the `AT_SBDWT`: the first decision
then reads what `malloc` left, and `HeardSuccessIsSent` claims nothing of it.
`Undisturbed` says that a scenario is one call of a function or arrivals; `SessionStale`, with
two calls, is why.

`InboundIsKept`. `ring_satcom_task` alone never sends a command before the reply to the last
one has been handled (`RingSends`), so its place tells what the modem holds (`RingPlace`):
before a session all texts have been read. `RingReads` follows a reply through the modem, the
line and the stores of the receiver: a session that says no transfer has fetched nothing, and
the text of `AT_SBDRT` is the one in the buffer. With 3 and 4 the modem has transferred and the
code holds the next session: those messages are `misjudged`, and a message is done with (`Done`)
when it was fetched or is one of them. `ERROR`, silence
and early answers are allowed: the task then waits for ever, and nothing is overwritten.

`SetupProofs`. `OneOfEachTask`, `DriverBeforeTasks` and `OneCallSucceeds` are not inductive: a
task runs at most once because the driver is installed once and never removed, so that one
call alone comes past it. `IInv` says how far each place of `iridium_config` has come: which
tasks are not there yet (`NotYet`), that behind the driver this call has installed it
(`Behind`), and that the queues are those of this call. What the tasks, the ring task and the
modem do on the channel meanwhile changes nothing of this (`ChannelLeaves`, `OthersMove`).

`OpenAfterReply`. The channel opens when a line `OK` has been processed. `WInv` says that
there is at most one `OK` anywhere between the modem and the channel, and where: on
the wire, among the lines of the event, or in hand; and that there is none while the
channel is open, unless a writer is about to close it, nor when it was closed behind a
reply that had come before. It says so only while `~raced`, that is, while no second writer has
been between the test and the store (`Alone`). It takes lemmas about texts: what is joined,
cut (`Cut`) or split (`FieldsKeepOK`) has no more `OK`s than before, and a reply has one
(`LinesOfReply`). `RInv` is what is left of `WInv` when one command is sent at a time.

`EveryReplySeen`. The converse: `KInv` says that while a reply is outstanding its line
`OK` is whole, on the wire (`ReplyJoined`, `ReplyCut`) or in the event (`ReplyIsField`),
and then no `SBDRING` is in the same event to end the loop before it. `Orderly`
(`Writers = {}`, `WholeLines`, `RingApart`, no overflow, no `ERROR`) is what this needs and
section 4 says what happens without.

`ChannelImplemented`. `DInv` says where the reply is that is outstanding: its first lines are on
the stack, last on top, and what is not yet scanned, in the event and on the wire, gives the
others when it is cut in lines, whatever rings stand between. What a scan will give is
`Rest`; that it is unchanged when an event is taken from the wire (`Those` and `Fields` of a
joined text) is what `TokensProofs` is for. When `OK` is met the stack is the whole reply,
and taken off it gives the command and the data the modem sent. `NoATTexts` is needed since a
line that begins with `AT` is taken for the command. `buffer_data` is put together by
`FlattenSeq`, a fold of the community modules; for the two or three lines of a reply it is
unfolded (`FlattenFew`).

`OnlyEmptyTextAborts` and `FieldsOfLastReply`. The data of a reply is split at `+`, `:` and `,`.
If no value is one of these (`PlainTexts`; a text may be empty) each reply but that of an empty
text is regular (`RegularRow`), so that by the theorems on `Tokens` the fields are the values
sent: none is missing, and what is stored (`FInv`) is what the last reply about it said. The
reply with an empty text has no field before its `+`, is not regular, and stops the device.

`MessagesDelivered`. `MInv` says that what was delivered and what is in `message_queue` are
together the texts of the replies, in order, until one is dropped. `RoomInv` shows one way
to have none dropped: no more commands than `message_queue` holds.

`StackProofs`. Reach follows `next` from `head` by recursion. The proofs carry a witness in its
place: a sequence of different entries that `next` links (`IsList`). `ReachIs` shows that Reach
follows it, by a least place where it would not; `Chain`, `Depth` and `Contents` are then told by
the sequence, which a push extends and a pop shortens when `head` is stored. `ListInv` also says
which cell the operation under way holds outside the list (`Local`). That the list cannot
be a circle is that its entries differ. All of it is for one thread: with two, a pop can
free the entry another is about to link.

`StrSplitProofs`. `SplitInv` counts: after `n` characters the first pass has counted the
delimiters among them, and after `n` tokens the second has stored the first `n`
fields. That the counts meet is a fact about texts: every field's start is the first
position or follows a delimiter, which maps the starts into the places counted, one to one,
and onto them exactly when no field is empty (`Regular`). The `n`-th field is the one at the
start with `n - 1` starts before it; `TokensProofs` shows, with the library's facts on
finite sets and in place of an induction, that there is exactly one for each `n`.

Only model-checked:

* liveness (`EveryCallReturns`, `ParkedIsSettled`, `SessionsEnd`, `ConfigReturns`,
  `EveryReplyReopens`, `RingStartsTask`, `Returns`), which needs reasoning about
  fairness and enabledness that the provers do not do;
* `OkMeansAnswered`, which needs the invariant of `LoneCallerGetsItsReply` carried over to a
  channel that `CreateQueues` resets and a ring task may join;
* what the runs that expect a violation show.

Every other invariant, every action property and every refinement that a run checks is a
theorem as well: those of `Stack` for one thread, those of `Session` for one function or the ring
task alone, those of `UartReceiver` under the conditions in their rows.

## 6. Not modelled

* The sizes of the character buffers (a text longer than `data[512]` or
  `buffer_data` is not cut or overrun) and numbers in decimal: a text is a few words; the
  parser's six mailbox numbers are one field, and `AT+CGMM` is like `AT+CGMI`.
* The heap behind `str_split`, and with it the fields it leaks; `strdup` without memory.
* Reply texts that are lines of the protocol themselves: `Messages` holds no text
  that is `OK` or begins with `AT`.
* Event types on which the code does nothing (560-569), logging, delays.
* Two sessions at once, as a run: `Session` composes them, but what the runs would show
  is in section 4.
* What a second `iridium_config` after `SAT_OK` does to the mutexes and to the ring flag, and a second
  ring task that may then start; a pin without a number.
* Two threads on one stack: the library uses its stack from one task.
* The memory model of the two cores: a store is seen by all in the order of the actions.
* The example application, LED encoder, Flipper Zero menus and webhook server: no logic
  of the library. `iridium_is_available` only reads a pin.

## 7. Plan

Done: the command channel and its ledger of requests, the callback in it, the receiver, the
splitter, the stack, the sessions on the channel, the set-up, and the theorems above. What is
left, in order:

1. A transmission next to a ring session, with what still holds of both.
2. `OkMeansAnswered` as a theorem.
3. `SetIsUsed`, `SuccessIsSent` and `InboundIsKept` for one function after another, as far as the
   channel is free in between.
4. `SessionImplementsLink` with `UartReceiver` in the place of the receiver of `IridiumLink`.
