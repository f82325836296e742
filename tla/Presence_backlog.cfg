SPECIFICATION FairSpec
CONSTANTS
  Connections = {c1}
  Notifications = {n1, n2, n3}
  Capacity = 2
  MaxFaults = 0
  MaxInbound = 2
  NoConnection = none
PROPERTIES
  NotificationsArrive
CHECK_DEADLOCK FALSE
