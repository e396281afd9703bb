CONSTANTS
  t1 = t1
  t2 = t2
  Tasks <- TwoTasks
  MaxCalls <- TwoAndOne
  Commands <- WTThenCSQ
  WaitFlags = {TRUE}
  BufferSize = 1
  SlowModem = TRUE
  Faults = {}
SPECIFICATION FairSpec
PROPERTIES
  EveryCallReturns
  ParkedIsSettled
