SPECIFICATION BookSpec
SYMMETRY Alike
CONSTANTS
  Seller = alice
  Buyers = {bob, carol}
  NoBuyer = NoBuyer
  NoAccount = NoAccount
  Traced = FALSE
  Gap = 1
  SaleTime = 2
  Lag = 1
  MaxReports = 2
  MaxSales = 2
  MaxClock = 7
INVARIANTS
  OutcomeKept
