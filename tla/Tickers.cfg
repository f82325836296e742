SPECIFICATION MCSpec
CONSTANTS
  Connections = {c1, c2}
  Notifications = {n1}
  Capacity = 2
  MaxFaults = 1
  MaxInbound = 2
  NoConnection = none
  Files <- MCFiles
  Deadline <- MCDeadline
  Limit = 1
  Worker = worker
  Command = command
  Database = database
INVARIANTS
  OfflineWhenGone
  CleanerTypeOK
PROPERTIES
  HealsOffline
  RevokedDisconnects
  NotificationsArrive
  DueFilesExpire
CHECK_DEADLOCK FALSE
