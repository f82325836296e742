SPECIFICATION Spec
CONSTANTS
  Devices = {d1, d2}
  Sender = s
  Owner <- OwnerOne
  Files = {f1, f2}
  EmptyFiles = {f2}
  RetryKeys = {}
  Modes = {"AUTOMATIC"}
  InGroup = {FALSE, TRUE}
  Reports = {"DOWNLOADING_FROM_NODE", "VERIFYING", "DELIVERED", "FAILED"}
  ReportRoutes = {""}
INVARIANTS
  TypeOK
  TaskBacked
  ExpiryBacked
CHECK_DEADLOCK FALSE
