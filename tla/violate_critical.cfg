CONSTANTS
  p2 = p2
  p1 = p1
  w1 = w1
  i1 = i1
  QuoteMaxAge = 1
  ProviderSkew = 0
  Intents = {i1}
  ExternalKeys = {}
  Qty = 2
  Manual = {}
  Owners = {w1}
  Notional = 1
  Capacity = 1
  ReservationLife = 2
  LeaseTtl = 1
  AuthorityMaxAge = 1
  ArmTtl = 1
  Procs = {p1, p2}
  Kinds = {"dispatch", "reconcile"}
  Scenarios = {"MISSING_PROTECTION"}
  Environment = {"stage", "fill"}
  MaxTime = 1
  MaxToken = 1
  MaxEvents = 2
  MaxQuotes = 1
  MaxCrashes = 0
SPECIFICATION Spec
INVARIANTS CriticalRetainsFreeze
SYMMETRY Symmetry
