SPECIFICATION Spec
CONSTANTS
    m1 = m1
    n1 = n1
    v1 = v1
    v2 = v2
    e1 = e1
    x1 = x1
    x2 = x2
    x3 = x3
    p1 = p1
    k1 = k1
    h1 = h1
    Models = {m1, m2}
    Names = {n1, n2}
    Providers = {v1, v2}
    Endpoints = {e1, e2}
    ProviderModels = {x1, x2, x3}
    ProviderOf <- MCProviderOf
    Policies = {p1, p2}
    Limits = {5}
    Keys = {k1, k2}
    Hashes = {h1, h2}
    None = None
    Seeds <- MCSeeds
    Age <- MCAge
    Others <- MCOthers
    MaxCalls = 2
    Tours <- MCTours
INVARIANTS TypeOK SavesGoHome OwnChangesShown QuietPictureIsExact
PROPERTIES KeptThroughRefresh SavesAreWhole
