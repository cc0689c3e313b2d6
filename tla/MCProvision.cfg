SPECIFICATION MCSpec
CHECK_DEADLOCK FALSE
CONSTANTS
  s1 = s1
  s2 = s2
  u1 = u1
  u2 = u2
  u3 = u3
  Serials = {s1, s2}
  Uids = {u1, u2, u3}
  SealOf <- Chips
  SeedSeals <- SeedFile
  DeadSeals = {u1}
  RivalSerials = {s2}
  NoSerial = NoSerial
  Window = 3
  MaxAssets = 2
  MaxStray = 1
  Giveable = {1}
  MaxFaults = 1
  VerifierKeys = {"key", "testKey"}
  TestKey = "testKey"
  Local = FALSE
  KeyIds = {0, 1, 2}
  WantedIds = {0, 2}
  MaxServerKeys = 2
  PartnerSites = {1}
  Terms <- HandTerms
  FirstTime = 2
  LastTime = 3
  MaxLate = 1
INVARIANTS
  RegisteredOnce
  ScriptsBindApart
  ReportsCreation
  SeedNeverStuck
