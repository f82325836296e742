SPECIFICATION Spec
CONSTANTS
  Users = {u1, u2}
  Admin = u1
  Devices = {d1, d2}
  Sessions = {s1, s2}
  Secrets = {c1, c2}
  Requests = {r1, r2}
  MaximumAttempts = 1
  MaxRotations = 1
  None = none
SYMMETRY RowSymmetry
INVARIANTS
  SecretsSpent
PROPERTIES
  BindingFixed
  EndedSessionsInert
  RevokedForever
CHECK_DEADLOCK FALSE
