CONSTANTS
  Commands = {"AT", "AT+CGMI", "AT+CSQ", "AT+SBDSX", "AT+SBDIX", "AT+SBDIXA", "AT+CRIS", "AT+SBDRT"}
  AT <- ATWords
  Values <- TwoNumbers
  Messages <- Plain
  MessageQueueSize = 1
  MaxCommands = 2
  MaxRings = 2
  WholeLines = TRUE
  RingApart = TRUE
  Writers = {}
  Faults = {}
SPECIFICATION FairSpec
INVARIANTS
  TypeOK
  NoReplyLost
  FieldsAreLatest
  MessagesInOrder
  AbortsOnEmptyText
PROPERTIES
  ImplementsChannel
  EveryReplyReopens
  RingStartsTask
CHECK_DEADLOCK FALSE
