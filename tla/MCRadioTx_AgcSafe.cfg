SPECIFICATION Spec
CONSTANTS
  ack = ack
  own = own
  relay1 = relay1
  relay2 = relay2
  None = None
  Packets = {own, relay1}
  Priority <- Ranks
  FromUs = {own}
  MAX_TX_QUEUE = 2
  MaxFailures = 0
  Missable = {"rx", "tx"}
  MaxMissed = 0
  MaxBusy = 0
  MaxUpkeep = 1
PROPERTY AgcSafe
CHECK_DEADLOCK FALSE
