SPECIFICATION Spec
SYMMETRY SealsAlike
CONSTANTS
  auth = auth
  shop = shop
  Founder = auth
  Nobody = Nobody
  NoProof = NoProof
  NoKey = NoKey
  Wallets = {auth, shop}
  Passports = {p1}
  Seals = {s1, s2}
  Assets = {a1}
  KeyIds = {1}
  Pubkeys = {k1}
  Sites = {1}
  Readings <- SomeGrades
  Claims <- AllClaims
  Terms <- TwoTerms
  MaxServerKeys = 1
  MaxPartners = 1
  MaxSites = 1
  MaxSeals = 2
  MaxCounter = 2
  Skew = 1
  MaxTime = 3
INVARIANTS
  GradeTellsHistory
PROPERTIES
  EndedKeySilent
  EvidenceForReaders
