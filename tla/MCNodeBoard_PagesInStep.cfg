SPECIFICATION FairSpec
CONSTANTS
  alarm1 = alarm1
  alarm2 = alarm2
  map = map
  alert = alert
  Nodes = {alarm1}
  Pages = {map, alert}
  MaxEvents = 2
CHECK_DEADLOCK FALSE
PROPERTY PagesInStep
