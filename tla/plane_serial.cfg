CONSTANTS
  p1 = p1
  w1 = w1
  i2 = i2
  i1 = i1
  QuoteMaxAge = 1
  ProviderSkew = 0
  Intents = {i1, i2}
  ExternalKeys = {}
  Qty = 2
  Manual = {}
  Owners = {w1}
  Notional = 1
  Capacity = 1
  ReservationLife = 1
  LeaseTtl = 1
  AuthorityMaxAge = 1
  ArmTtl = 1
  Procs = {p1}
  Kinds = {"reconcile", "dispatch", "cancel"}
  Scenarios = {"ACCEPT", "ACCEPT_DROP_RESPONSE", "DUPLICATE_ACK", "REJECT", "PARTIAL_FILL", "MISSING_PROTECTION"}
  Environment = {"tick", "crash", "stage", "cancel", "fill"}
  MaxTime = 2
  MaxToken = 2
  MaxEvents = 2
  MaxQuotes = 1
  MaxCrashes = 1
SPECIFICATION Spec
INVARIANTS WorkingOrderReserved CapacityRespected CriticalRetainsFreeze
PROPERTIES RequeueOnlyIfAbsent
