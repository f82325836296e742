SPECIFICATION Spec
CONSTANTS
  Devices = {d1, d2}
  Files = {f1, f2}
  Transactions = {t1, t2}
  Reports <- NodeReports
SYMMETRY TransactionSymmetry
INVARIANTS
  TaskBacked
  
PROPERTIES
  FinishedStays
CHECK_DEADLOCK FALSE
