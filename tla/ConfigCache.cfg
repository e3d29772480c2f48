SPECIFICATION FairSpec
CONSTANTS
    m1 = m1
    name1 = name1
    pv1 = pv1
    e1 = e1
    pm1 = pm1
    pol1 = pol1
    pol2 = pol2
    k1 = k1
    h1 = h1
    Models = {m1}
    Names = {name1, name2}
    Providers = {pv1}
    Endpoints = {e1}
    ProviderModels = {pm1}
    ProviderOf <- MCProviderOf
    Policies = {pol1, pol2}
    Limits = {1, 2}
    Keys = {k1}
    Hashes = {h1, h2}
    None = None
    Seeds <- MCSeeds
    MaxWrites = 2
CHECK_DEADLOCK FALSE
INVARIANTS TypeOK ReferentialIntegrity StalenessBound
PROPERTIES RevocationTakesEffect GrantTakesEffect
