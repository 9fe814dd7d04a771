SPECIFICATION FairSpec
CONSTANTS
  n1 = n1
  n2 = n2
  n3 = n3
  n4 = n4
  gone = gone
  Gone = {gone}
  Broadcast = Broadcast
  NoNode = NoNode
  Nodes = {n1, n2, n3, n4}
  Source = n1
  HopLimit = 2
  NUM_RELIABLE_RETX = 2
  NUM_INTERMEDIATE_RETX = 2
  Meshes <- Quiet
CHECK_DEADLOCK FALSE
PROPERTY FloodReachesAll
