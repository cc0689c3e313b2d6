SPECIFICATION MCSpec
SYMMETRY Alike
CONSTANTS
  Chips = {x1}
  Serials = {sn1, sn2}
  AnySerial = AnySerial
  Nonces = {n1, n2}
  NonceTtl = 1
  NonceGrace = 1
  AdoptWindow = 1
  Delay = 1
  MaxCounter = 3
  MaxRows = 4
  MaxTime = 3
  Seller = alice
  Buyers = {bob, carol}
  NoBuyer = NoBuyer
  NoAccount = NoAccount
  Traced = TRUE
  Gap = 1
  SaleTime = 2
  Lag = 1
  MaxReports = 2
  MaxSales = 3
  MaxClock = 7
INVARIANTS
  OneSignaturePerTap
  OneSignaturePerNonce
  UsedTapIsReplay
  NotOvercounted
  OutcomeKept
