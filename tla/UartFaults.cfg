CONSTANTS
  Commands = {"AT", "AT+CGMI"}
  AT <- ATWords
  Values <- OneNumber
  Messages <- Short
  MessageQueueSize = 1
  MaxCommands = 2
  MaxRings = 2
  WholeLines = FALSE
  RingApart = FALSE
  Writers = {w1, w2}
  Faults = {"ERROR", "FIFO_OVF", "CREATE"}
SYMMETRY Racers
SPECIFICATION Spec
INVARIANTS
  OpenMeansAnswered
  OneRingTask
CHECK_DEADLOCK FALSE
