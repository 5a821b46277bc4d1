CONSTANTS
  Commands = {c1, c2}
  Lifecycles = {"l1"}
  FeedScopes = {"NBBO"}
  Prices = {8, 11, 20}
  MaxQuotes = 2
  MaxPermits = 2
  MaxExecutions = 2
  MaxFixtureNow = 1
  MaxFixtureCrashes = 1
SPECIFICATION FixtureSpec
INVARIANTS OneWritePerPermit SuccessReceiptIsTrue
SYMMETRY CommandSymmetry
CHECK_DEADLOCK FALSE
