SPECIFICATION FairSpec
CONSTANTS
  w1 = w1
  s1 = s1
  s2 = s2
  Wallets = {w1, w2}
  NoWallet = NoWallet
  NoTx = NoTx
  Cycles = {loop}
  Seals = {s1, s2}
  Histories <- TwoScans
  MaxScans = 2
  MaxRequests = 1
  Skew = 1
  Timeout = 0
  FailedRecheck = 1
  LastSign = 0
  MaxTime = 1
INVARIANTS
  ConfirmedOnChain
  CreditedOnce
  DamageIsKept
PROPERTIES
  ScansSettle
  GradeConverges
