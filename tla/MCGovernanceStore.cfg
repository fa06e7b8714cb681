\* Two callers; two requests, one delegation and one quota.
SPECIFICATION Spec
CONSTANTS
  Caller = {c1, c2}
  Request = {r1, r2}
  Delegation = {d1}
  Project = {p1, p2}
  DecisionId = {i1, i2}
  Word = {yes, no}
  Amount = {1, 2, 4}
  Maximum = 3
  Null = Null
  NoRow = NoRow
INVARIANTS RecordsAgree
PROPERTIES ImplementsGovernance
