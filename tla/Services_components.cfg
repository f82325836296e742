SPECIFICATION Spec
CONSTANTS
  Off = off
  Requests = {r1, r2}
  Users = {"u1", "u2", "u3"}
  Devices = {"d1", "d2"}
  OwnerOf <- TwoOwners
  Times = {1, 2}
  Ids = {1, 2}
  Limits = {1, 2}
  Submissions <- Repeated
  MaxNumber = 3
  ScriptCount = 3
  StoredDevices = {"d1"}
  StoredFiles = {"f1"}
  MaxArchives = 2
  ChunkCount = 2
  Slots = {s1, s2}
  MaxAttempts = 3
  MaxCrashes = 1
  Sizes <- FileSizes
  ChunkSizes <- FileChunkSizes
SYMMETRY RequestSymmetry
INVARIANTS
  GroupRanks
  ListingFaithful
  RetriesAgree
  MigrationsOnce
  RevocationsSurvive
  
  RecordedIntact
  ManifestAccepted
CHECK_DEADLOCK FALSE
