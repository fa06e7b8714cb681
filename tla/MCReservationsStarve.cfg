\* A stream of critical-path work against one normal package, no plan ever stale.
SPECIFICATION CalmSpec
CONSTANTS
  Package = {1, 2}
  Planner = {s1}
  Domain = {"a"}
  Dimension = {"runs"}
  Limit <- MCLimit
  AgingWindow = 1
  MaxAgingBoost = 5
  Horizon = 5
  Revision = {1}
  Shapes <- MCShapesRanked
  NoCandidate = NoCandidate
PROPERTIES NoStarvation
