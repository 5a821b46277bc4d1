CONSTANTS
  p1 = p1
  w1 = w1
  i1 = i1
  QuoteMaxAge = 2
  ProviderSkew = 0
  Intents = {i1}
  ExternalKeys = {}
  Qty = 1
  Manual = {i1}
  Owners = {w1}
  Notional = 1
  Capacity = 1
  ReservationLife = 2
  LeaseTtl = 1
  AuthorityMaxAge = 1
  ArmTtl = 1
  Procs = {p1}
  Kinds = {"observe", "dispatch", "arm"}
  Scenarios = {"ACCEPT_DROP_RESPONSE"}
  Environment = {"tick", "stage", "crash", "approve", "arm", "quote"}
  MaxTime = 2
  MaxToken = 2
  MaxEvents = 1
  MaxQuotes = 1
  MaxCrashes = 1
SPECIFICATION Spec
INVARIANTS UncertainHasNoLiveArm
PROPERTIES ClaimWithinEvidence
