SPECIFICATION MCSpec
CHECK_DEADLOCK FALSE
CONSTANTS
  w1 = w1
  w2 = w2
  Wallets = {w1, w2}
  Installed <- TwoDevices
  NoWallet = NoWallet
  Maker = Maker
  Link = Link
  Partners = {w1}
  Roles = {"OWNER", "PARTNER"}
  Tiers = {2, 3}
  Obstacles = {"counter", "site"}
  MaxTxs = 2
INVARIANTS
  AnchoredByItsWallet
  DoneIsAnchored
PROPERTIES
  SignedIsAccepted
  AnchoredGetsConfirmed
