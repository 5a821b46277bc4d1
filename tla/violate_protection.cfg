CONSTANTS
  Instruments = {"A"}
  StartingCash = 440
  MaxGrossExposure = 95
  MaxSymbolExposure = 100
  MaxRiskPerTrade = 20
  MaxTotalRisk = 30
  MaxPositions = 1
  MinimumCommission = 4
  SpreadTenths = 1
  PerShare = 2
  MaxFrames = 3
  MaxBars = 1
  MaxActions = 1
  MaxProposals = 2
  Bars <- MCBars
  Actions <- MCActions
  Proposals <- MCProposals
SPECIFICATION Spec
INVARIANT EveryShareStopped
CHECK_DEADLOCK FALSE
