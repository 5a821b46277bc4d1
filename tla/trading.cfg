CONSTANTS
  Instruments = {"A"}
  StartingCash = 440
  MaxGrossExposure = 95
  MaxSymbolExposure = 100
  MaxRiskPerTrade = 20
  MaxTotalRisk = 30
  MaxPositions = 1
  MinimumCommission = 4
  SpreadTenths = 1
  PerShare = 2
  MaxFrames = 4
  MaxBars = 1
  MaxActions = 1
  MaxProposals = 2
  Bars <- MCBars
  Actions <- MCActions
  Proposals <- MCProposals
  SimSymbols = {"a", "b"}
  SimOrders <- MCSimOrders
  SimQuotes <- MCSimQuotes
  SimCash = 40
  SimSlippage = 1
  SimCommission = 1
  MaxSimEvents = 3
  Symbols = {"a", "b"}
  Strategies = {"m"}
  Callers = {c1, c2}
  Capital = 4
  GrossLimit = 3
  SymbolLimit = 2
  OrderLimit = 2
  MaxHeld = 2
  MaxCycles = 2
  MaxCrashes = 1
SPECIFICATION MCSpec
INVARIANTS BooksAgree NoOverdraft ReservationsMirrorOrders OcoExitsOnce AbortsOnlyOnLimits HeldIsProtected ExposureWithinLimit
PROPERTIES ExitsKeepStops FrozenStagesNothing
SYMMETRY CallerSymmetry
CHECK_DEADLOCK FALSE
