SPECIFICATION Spec
CONSTANTS
  n1 = n1
  n2 = n2
  r1 = r1
  r2 = r2
  Nodes <- TwoNodes
  Requests <- TwoReqs
  Targets <- AnyNode
  Excludable <- NoNodes
  AckTimeout = 0
  MaxRetries = 1
  FanoutRetries = 0
  MaxFaults = 1
SYMMETRY Symmetry
CONSTRAINT Scenario
INVARIANT ExclusiveSend
INVARIANT OneOutcomePerTarget
INVARIANT NothingForgotten
INVARIANT ErrorReplyMeansSilent
