\* One run at a time over one package, one repair, run again after a failure.
SPECIFICATION FairSpec
CONSTANTS
  Lead = {"l1"}
  Check = {"unit"}
  Builders = "builders"
  Reviewers = {"builders", "reviewers"}
  MaxRepair = 1
  MaxExecutions = 3
INVARIANTS AcceptedIsVerified BudgetIsUsed
PROPERTIES RunsEnd
CHECK_DEADLOCK FALSE
