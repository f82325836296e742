SPECIFICATION Spec
CONSTANTS
  Devices = {d1}
  Sender = s
  Owner <- OwnerOne
  Files = {f1}
  EmptyFiles = {}
  RetryKeys = {}
  Modes = {"AUTOMATIC"}
  InGroup = {FALSE}
  Reports = {"UPLOADING_TO_NODE", "VERIFYING", "DELIVERED", "READ"}
  ReportRoutes = {"", "NODE"}
PROPERTIES
  TerminalStays
CHECK_DEADLOCK FALSE
