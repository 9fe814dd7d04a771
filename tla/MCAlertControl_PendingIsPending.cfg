SPECIFICATION Spec
CONSTANTS
  n1 = n1
  n2 = n2
  r1 = r1
  r2 = r2
  f1 = f1
  Nodes <- OneNode
  Own <- OneOwn
  Foreign <- NoForeign
  MaxInbox = 3
  MaxChatter = 0
CHECK_DEADLOCK FALSE
INVARIANT PendingIsPending
