CONSTANTS
  app = app
  ring = ring
  App = app
  Ring = ring
  Tasks <- BothTasks
  MaxCalls <- Enough
  Commands <- AnyCommand
  WaitFlags = {TRUE}
  BufferSize = 2
  SlowModem = TRUE
  Faults = {}
  Scenarios <- TwoMessages
  FreshOutbound = {32}
  MOStatuses = {0, 32}
  MaxFailures = 1
  MaxTries = 2
SPECIFICATION SessionSpec
INVARIANTS
  SuccessMeansSent
