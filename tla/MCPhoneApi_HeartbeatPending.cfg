SPECIFICATION Spec
CONSTANTS
  gateway = gateway
  phone = phone
  self = self
  n1 = n1
  n2 = n2
  n3 = n3
  text = text
  telemetry = telemetry
  Clients = {gateway, phone}
  Self = self
  Others = {n1}
  MAX_NUM_CHANNELS = 2
  NumConfigs = 2
  NumModules = 1
  NumFiles = 1
  kNodePrefetchDepth = 1
  MAX_RX_TOPHONE = 1
  Packets = {text}
  Texts = {text}
  MaxRequests = 2
  MaxSorts = 0
  MaxHeartbeats = 1
INVARIANT HeartbeatPending
CHECK_DEADLOCK FALSE
