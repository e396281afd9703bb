CONSTANTS
  t1 = t1
  t2 = t2
  Tasks <- OneTask
  MaxCalls <- FourCalls
  Commands <- CSQOrIX
  WaitFlags = {TRUE}
  BufferSize = 1
  SlowModem = FALSE
  Faults = {"ERROR", "SILENT"}
SPECIFICATION Spec
INVARIANTS
  ResultIsOwn
  OneAtATime
