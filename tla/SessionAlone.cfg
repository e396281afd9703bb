CONSTANTS
  app = app
  ring = ring
  App = app
  Ring = ring
  Tasks <- BothTasks
  MaxCalls <- Enough
  Commands <- AnyCommand
  WaitFlags = {TRUE}
  BufferSize = 2
  SlowModem = FALSE
  Faults = {"ERROR", "SILENT"}
  Scenarios <- Alone
  FreshOutbound = {0, 32}
  MOStatuses = {0, 3, 32}
  MaxFailures = 1
  MaxTries = 2
SPECIFICATION FairSessionSpec
INVARIANTS
  SessionTypeOK
  HeardSuccessIsSent
  InboundKept
  SetBeforeUsed
PROPERTIES
  SessionsEnd
CHECK_DEADLOCK FALSE
