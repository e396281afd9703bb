CONSTANTS
  t1 = t1
  t2 = t2
  Tasks <- OneTask
  MaxCalls <- OneEach
  Commands <- CSQOnly
  WaitFlags = {TRUE}
  BufferSize = 1
  SlowModem = TRUE
  Faults = {"ERROR"}
SPECIFICATION FairSpec
PROPERTIES
  EveryCallReturns

