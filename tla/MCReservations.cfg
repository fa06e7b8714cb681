\* Two planners race over two packages, fair scheduling.
SPECIFICATION FairSpec
CONSTANTS
  Package = {1, 2}
  Planner = {s1, s2}
  Domain = {"a", "b"}
  Dimension = {"runs"}
  Limit <- MCLimit
  AgingWindow = 1
  MaxAgingBoost = 1
  Horizon = 1
  Revision = {1, 2}
  Shapes <- MCShapes
  NoCandidate = NoCandidate
INVARIANTS TypeOK ReservationsExclusive QuotaRespected
PROPERTIES CommitIsCurrent CommitIsMaximal QueueDrains
