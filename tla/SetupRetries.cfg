CONSTANTS
  app = app
  ring = ring
  App = app
  Ring = ring
  Tasks <- BothTasks
  Commands <- FirstCommands
  WaitFlags <- WaitingOnly
  BufferSize = 1
  MaxCalls <- CallsOfEach
  SlowModem = TRUE
  Faults = {}
  SetupFaults = {"gpio", "driver", "pins", "buffer_queue", "message_queue",
                 "uart_satcom_task", "buffer_satcom_task"}
  MaxConfigs = 2
  MaxFailures = 1
SPECIFICATION FairSetupSpec
INVARIANTS
  SetupTypeOK
  OneOfEachTask
  OneCallSucceeds
  OkMeansAnswered
PROPERTIES
  DriverBeforeTasks
  ConfigReturns
CHECK_DEADLOCK FALSE
