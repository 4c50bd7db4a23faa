\* Two runs of suites of up to two scenarios, one release and any edit of the
\* suite between them; an injection injures at most one signal.
SPECIFICATION Spec
CONSTANTS
    Suites <- MCSuites
    Healthy <- MCHealthy
    Releases <- MCReleases
    Occurs <- MCOccurs
    Path <- MCPath
    FootprintFiles <- MCFootprints
    Scopes <- MCScopes
    Options <- MCOptions
    Damage = 30
    Costs = {0, 2}
    HardCap = 2
    MaxInvocations = 2
    MaxReleases = 1
    MaxHits = 1
    None = None
INVARIANTS VerdictJustified GoldenTrustworthy DriftHonest GateHonest NaSound
CHECK_DEADLOCK FALSE
