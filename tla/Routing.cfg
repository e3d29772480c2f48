SPECIFICATION Spec
CONSTANTS
    pm1 = pm1
    pm2 = pm2
    pm3 = pm3
    ProviderModels = {pm1, pm2, pm3}
    MaxWeight = 2
    MaxPriority = 1
    RowSets <- MCRowSets
    CursorModulus = 8
    MaxPicks = 3
INVARIANTS TypeOK WeightedShares FirstIsPreferred RoundRobinFair
