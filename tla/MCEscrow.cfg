SPECIFICATION MCSpec
CONSTANTS
  alice = alice
  bob = bob
  admin = admin
  p1 = p1
  a1 = a1
  s1 = s1
  Wallets = {alice, bob, admin}
  Admin = admin
  Sellers = {alice, bob}
  Buyers = {bob}
  Passports = {p1}
  Issuer <- OneIssuer
  Assets = {a1}
  AssetOf <- OneAsset
  NoCoreAsset = NoCoreAsset
  Seals = {s1}
  SealOf <- SealsOfP1
  NoSeal = NoSeal
  NoScan = NoScan
  NoBuyer = NoBuyer
  Readings <- TwoReadings
  FillTolerance = 5
  Skew = 0
  MinWindow = 1
  MaxWindow = 1
  Windows = {0, 1}
  Prices = {0, 1, 2}
  Funds = 2
  Gifts = {2}
  Receivers <- WalletsAndPda
  MaxCounter = 2
  MaxTime = 4
  LastStart = 2
INVARIANTS
  VaultBacksOrder
  CustodyIsReal
  ScansBackState
  SellerPaidWithCause
  RefundWithCause
PROPERTIES
  ChargedWhatWasSeen
  NoSaleAroundCustody
  DeliveryAgainstPayment
  FundedSettles
