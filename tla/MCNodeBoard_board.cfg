SPECIFICATION FairSpec
CONSTANTS
  alarm1 = alarm1
  alarm2 = alarm2
  map = map
  alert = alert
  Nodes = {alarm1, alarm2}
  Pages = {map, alert}
  MaxEvents = 3
CONSTRAINT Scenario
CHECK_DEADLOCK FALSE
INVARIANT TypeOK
PROPERTY HeardIsOnline
PROPERTY PagesCatchUp
