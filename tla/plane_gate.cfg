CONSTANTS
  p1 = p1
  w1 = w1
  i1 = i1
  x1 = x1
  QuoteMaxAge = 1
  ProviderSkew = 0
  Intents = {i1}
  ExternalKeys = {x1}
  Qty = 2
  Manual = {}
  Owners = {w1}
  Notional = 1
  Capacity = 1
  ReservationLife = 2
  LeaseTtl = 1
  AuthorityMaxAge = 1
  ArmTtl = 1
  Procs = {p1}
  Kinds = {"reconcile", "dispatch"}
  Scenarios = {"ACCEPT", "ACCEPT_DROP_RESPONSE"}
  Environment = {"stage", "fill", "commission", "inject", "callback", "freeze", "unfreeze"}
  MaxTime = 1
  MaxToken = 1
  MaxEvents = 3
  MaxQuotes = 1
  MaxCrashes = 0
SPECIFICATION Spec
INVARIANTS TypeOK FreezeGate EconomicsAppliedOnce OrphanKeepsFreeze
PROPERTIES ClaimNeedsNoTicket
