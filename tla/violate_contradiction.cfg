CONSTANTS
  Manifests <- MCManifests
  TrialKeys <- MCTrialKeys
  Authorities <- MCAuthorities
  TrialBudget = 2
  BundleFiles = {"manifest", "result"}
  Runners = {r1}
  Promoters = {p1}
  MaxRuns = 0
  MaxTrialCrashes = 1
  Documents <- MCFreshDocuments
  Ingesters = {r1}
  MaxDocuments = 3
  MaxCalls = 2
  MaxNow = 1
  MaxEvidenceCrashes = 0
  Stores = {"control", "observer"}
  Written = Written
  Rot = Rot
  MaxBackups = 0
  MaxWrites = 2
  MaxBackupCrashes = 2
  Registrars = {r1}
  Observations <- MCObservations
  EventReceipts <- MCEventReceipts
  CaseIds = {}
  CasePlans <- MCCasePlans
  SessionRequirements <- MCSessionRequirements
  CaseRequirements <- MCCaseRequirements
  ScopeSessions = 2
  CrossScopeSessions = 1
  StaticSessions = 2
  OrderSessions = 1
  Scope = "api"
  OperatorRequests = {}
  MaxCorpora = 0
  MaxDay = 1
  MaxEvidenceDeaths = 1
SPECIFICATION MCSpec
INVARIANT EdgesAreDeterministic
CHECK_DEADLOCK FALSE
