SPECIFICATION Spec
CONSTANTS
    old = old
    new = new
    k = k
    m1 = m1
    m2 = m2
    pm1 = pm1
    pm2 = pm2
    Requests = {r1, r2}
    Inputs <- MCInputs
    Hashes = {old, new}
    Keys = {k}
    Models = {m1, m2}
    ProviderModels = {pm1, pm2}
    MaxWeight = 1
    MaxPriority = 0
    Snapshots <- MCSnapshots
    None = None
SYMMETRY Symmetry
CHECK_DEADLOCK FALSE
INVARIANTS TypeOK GaugeExact CountersExact ForwardedOnCurrentConfig UncheckedWasUnlimited
    MappedModelKeepsItsRoutes AuditTellsOutcome
