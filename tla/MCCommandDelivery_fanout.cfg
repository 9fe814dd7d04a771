SPECIFICATION Spec
CONSTANTS
  n1 = n1
  n2 = n2
  r1 = r1
  r2 = r2
  Nodes <- TwoNodes
  Requests <- OneReq
  Targets <- Fanout
  Excludable <- NoNodes
  AckTimeout = 0
  MaxRetries = 1
  FanoutRetries = 0
  MaxFaults = 1
SYMMETRY NodeSymmetry
INVARIANT NothingForgotten
INVARIANT ErrorReplyMeansSilent
