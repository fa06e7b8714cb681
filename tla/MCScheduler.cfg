\* Loop of schedule over every snapshot of three packages.
SPECIFICATION MCSpec
CONSTANTS
  Package = {1, 2, 3}
  Domain = {"a", "b"}
  Dimension = {"runs", "gpu"}
  Limit <- MCLimit
  AgingWindow = 2
  MaxAgingBoost = 3
  Revision = {1, 2}
  Shapes <- MCShapes
  Waits = {0, 9}
INVARIANTS TypeOK PlanIsSafe PlanIsMaximal SafetyNotOutranked
PROPERTIES ImplementsPromise
CHECK_DEADLOCK FALSE
