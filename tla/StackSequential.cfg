CONSTANTS
  t1 = t1
  n1 = n1
  n2 = n2
  n3 = n3
  v1 = v1
  v2 = v2
  Threads <- OneThread
  Nodes <- ThreeNodes
  Values <- TwoValues
  NULL = NULL
SPECIFICATION Spec
INVARIANTS
  TypeOK
  NoDangling
  NothingLeaks
PROPERTIES
  ImplementsStack
CHECK_DEADLOCK FALSE
