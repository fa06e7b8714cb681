\* A local package with two attempts and an external one, fair recovery.
SPECIFICATION FairSpec
CONSTANTS
  Package = {"local", "remote"}
  External = {"remote"}
  MaxAttempts = 2
  RecordsEffectKey = TRUE
INVARIANTS EffectOnce UnexpiredNotDuplicated
PROPERTIES RetriesAreNeeded EscalationIsNeeded EveryRunSettles EffectsAreReconciled
