\* The dispatch payload execute records, which names no effectKey.
SPECIFICATION Spec
CONSTANTS
  Package = {"remote"}
  External = {"remote"}
  MaxAttempts = 2
  RecordsEffectKey = FALSE
PROPERTIES SuccessIsReconciled
