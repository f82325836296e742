SPECIFICATION Spec
CONSTANTS
  Submissions <- MCSubmissions
  Requests = {r1, r2}
  Tasks = {t1, t2, t3}
  NoKey = nokey
  NoTask = notask
  UserLimits = {2, 3}
  NodeLimits = {6, 9}
  GroupLimit = 2
  DailyLimit = 2
  SingleFileLimit = 1
  StopPercent = 60
  MaxInt = 511
  MaxDay = 1
SYMMETRY RowSymmetry
PROPERTIES
  QuotasKept
