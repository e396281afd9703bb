CONSTANTS
  t1 = t1
  t2 = t2
  Tasks <- TwoTasks
  MaxCalls <- TwoAndOne
  Commands <- CSQOrWT
  WaitFlags = {TRUE}
  BufferSize = 1
  SlowModem = TRUE
  Faults = {}
SPECIFICATION Spec
INVARIANTS
  TypeOK
  NoStuckWaiting
  AtMostOnce
  NothingForgotten
PROPERTY
  ImplementsLedger
