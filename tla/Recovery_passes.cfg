SPECIFICATION Spec
CONSTANTS
  Items = {i1, i2}
  Coordinators = {a, b}
  Limit = 1
  MaxRetries = 1
  MaxFaults = 1
  Nothing = nothing
SYMMETRY MCSymmetry
INVARIANT
  OneRunner
