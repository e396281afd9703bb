CONSTANTS
  t1 = t1
  t2 = t2
  Tasks <- CallerAndCallback
  MaxCalls <- TwoAndTwo
  Commands <- CSQOnly
  WaitFlags = {TRUE}
  BufferSize = 1
  SlowModem = TRUE
  Faults = {}
SPECIFICATION FairSpec
PROPERTIES
  EveryCallReturns

