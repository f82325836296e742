SPECIFICATION Spec
CONSTANTS
  Devices = {d1, d2}
  Files = {}
  Transactions = {t1, t2}
  Reports <- LanReports
INVARIANTS
  TaskNotBehind
CHECK_DEADLOCK FALSE
