SPECIFICATION Spec
CONSTANTS
  n1 = n1
  n2 = n2
  r1 = r1
  r2 = r2
  Nodes <- OneNode
  Requests <- OneReq
  Targets <- AllKinds
  Excludable <- OneNode
  AckTimeout = 1
  MaxRetries = 2
  FanoutRetries = 1
  MaxFaults = 1
INVARIANT TypeOK
INVARIANT BoundedTransmissions
PROPERTY InterfaceStable
PROPERTY NoSendAfterOutcome
PROPERTY ImplementsTicket
