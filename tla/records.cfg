CONSTANTS
  Manifests <- MCManifests
  TrialKeys <- MCTrialKeys
  Authorities <- MCAuthorities
  TrialBudget = 2
  BundleFiles = {"manifest", "result"}
  Runners = {r1, r2}
  Promoters = {p1}
  MaxRuns = 3
  MaxTrialCrashes = 1
  Documents <- MCDocuments
  Ingesters = {r1, r2}
  MaxDocuments = 1
  MaxCalls = 2
  MaxNow = 1
  MaxEvidenceCrashes = 1
  Stores = {"control", "observer"}
  Written = Written
  Rot = Rot
  MaxBackups = 2
  MaxWrites = 2
  MaxBackupCrashes = 2
  Registrars = {r1, r2}
  Observations <- MCObservations
  EventReceipts <- MCEventReceipts
  CaseIds = {1, 2}
  CasePlans <- MCCasePlans
  SessionRequirements <- MCSessionRequirements
  CaseRequirements <- MCCaseRequirements
  ScopeSessions = 2
  CrossScopeSessions = 1
  StaticSessions = 2
  OrderSessions = 1
  Scope = "api"
  OperatorRequests <- MCOperatorRequests
  MaxCorpora = 1
  MaxDay = 1
  MaxEvidenceDeaths = 1
SPECIFICATION MCSpec
INVARIANTS AllocationPaysOnce CompletedIsWhole BudgetsHold ContradictionsVisible CorpusEvidenceIsExclusive VerdictsAgree
PROPERTIES EndIsFinal RestoreIsAtomic
SYMMETRY ProcessSymmetry
CHECK_DEADLOCK FALSE
