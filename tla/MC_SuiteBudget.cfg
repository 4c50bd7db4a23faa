\* One suite after another over a cap that the first scenario's agents may
\* spend alone.
SPECIFICATION Spec
CONSTANTS
    Suites <- MCSuites
    Healthy <- MCHealthy
    Releases <- MCReleases
    Occurs <- MCOccurs
    Path <- MCPath
    FootprintFiles <- MCFootprints
    Scopes <- MCScopes
    Options <- MCOptions
    Damage = 30
    Costs = {0, 2}
    HardCap = 2
    MaxInvocations = 2
    MaxReleases = 1
    MaxHits = 1
    None = None
INVARIANT BudgetPerScenario
CHECK_DEADLOCK FALSE
