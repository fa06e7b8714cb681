\* Two callers move two packages under two event identifiers, fair transactions.
SPECIFICATION FairSpec
CONSTANTS
  Package = {p1, p2}
  Caller = {c1, c2}
  EventId = {e1, e2}
  Target = {"eligible", "leased", "blocked"}
  MaxVersion = 3
INVARIANTS EventsExplainRow AppliedOnce
PROPERTIES ImplementsLife CallsEnd
CHECK_DEADLOCK FALSE
