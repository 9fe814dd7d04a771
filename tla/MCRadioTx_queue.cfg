SPECIFICATION FairSpec
CONSTANTS
  ack = ack
  own = own
  relay1 = relay1
  relay2 = relay2
  None = None
  Packets = {own, relay1, relay2}
  Priority <- Ranks
  FromUs = {own}
  MAX_TX_QUEUE = 2
  MaxFailures = 1
  Missable = {"rx", "tx"}
  MaxMissed = 1
  MaxBusy = 1
  MaxUpkeep = 1
INVARIANT TypeOK
INVARIANT OnePlace
INVARIANT Sorted
INVARIANT Awake
INVARIANT Listens
PROPERTY QueueDrains
CHECK_DEADLOCK FALSE
