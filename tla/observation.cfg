CONSTANTS
  c1 = c1
  c2 = c2
  Snapshots <- MCSnapshots
  Callers = {c1, c2}
  MinimumInterval = 1
  ValuationBudget = 1
  Replays = FALSE
  MaxVotes = 3
  Requests = {"positions"}
  Items = 2
  QueueSize = 1
  LateThread = FALSE
  MayFail = TRUE
  MaxSessions = 1
  MaxUnsolicited = 1
SPECIFICATION MCSpec
INVARIANTS ConsensusIsWitnessed AuthorityIsWitnessed CertifiedModelIsWhole ComponentHasAllItems OwnShutdownIsNoLoss
SYMMETRY CallerSymmetry
CHECK_DEADLOCK FALSE
