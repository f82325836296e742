SPECIFICATION MCSpec
CONSTANTS
  ChunkCount = 2
  Contents = {good, other}
  Genuine = good
  Uploads = {u1, u2}
  Completions = {k1, k2}
  Passes = {w1}
  InGroup = TRUE
  MaxRequests = 2
SYMMETRY RequestSymmetry
INVARIANTS
  TypeOK
  CompletedIsGenuine
  RecordedBodiesStored
  AssembledFileKept
PROPERTIES
  RowsImmutable
  ExpiredFileStays
