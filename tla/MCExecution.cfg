\* Two packages, two runners; an execution returns or raises and stops there.
SPECIFICATION Spec
CONSTANTS
  None = None
  Package = {1, 2, 3}
  Domain = {"main", "docs"}
  Dimension = {"tokens"}
  Limit <- MCLimit
  AgingWindow = 10
  MaxAgingBoost = 1
  Revision = {1}
  Shapes <- MCShapes
  Work = {1, 2}
  Project = "p"
  Now = 10
  ActivationFacts <- MCActivationFacts
  Settings <- MCSettings
  WorkFacts <- MCWorkFacts
  Recipe <- MCRecipe
  Context <- MCContext
  Requests <- MCRequests
  Profiles <- MCProfiles
  Raws <- MCRaws
  Snapshots <- MCSnapshots
  Acceptances <- MCAcceptances
  Completions <- MCCompletions
  Integrations <- MCIntegrations
INVARIANTS CompletedIsEarned PreparedIsAuthorized IntegrationIsEarned DispatchIsFit ManifestIsSound TraceIsValid
PROPERTY ImplementsJourney
CHECK_DEADLOCK FALSE
