SPECIFICATION Spec
CONSTANTS
  n1 = n1
  n2 = n2
  r1 = r1
  r2 = r2
  Nodes <- OneNode
  Requests <- OneReq
  Targets <- Direct
  Excludable <- NoNodes
  AckTimeout = 1
  MaxRetries = 1
  FanoutRetries = 0
  MaxFaults = 0
PROPERTY NoFalseMiss
