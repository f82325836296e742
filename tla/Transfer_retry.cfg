SPECIFICATION Spec
CONSTANTS
  Devices = {d1}
  Sender = s
  Owner <- OwnerOne
  Files = {f1}
  EmptyFiles = {}
  RetryKeys = {k1, k2}
  Modes = {"AUTOMATIC", "LAN_ONLY", "NODE_ONLY", "WAIT_LAN"}
  InGroup = {FALSE, TRUE}
  Reports <- ReportableStatuses
  ReportRoutes = {"", "LAN", "NODE"}
INVARIANTS
  ExecutionTracksTarget
  ReceiptBacksStatus
PROPERTIES
  ImplementsRecord
  ExpiredIsFinal
CHECK_DEADLOCK FALSE
