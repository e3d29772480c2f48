-------------------------- MODULE ConfigCacheProofs --------------------------
(***************************************************************************)
(* Proofs about ControlPlane and ConfigCache: the tables keep their foreign *)
(* keys and their unique hashes, and the gateway's cache lags behind them   *)
(* by two refreshes at most, for any number of rows.                        *)
(***************************************************************************)
EXTENDS ConfigCache, TLAPS

\* The tables are well typed and keep their constraints.
Sound(d) == d \in Tables /\ References(d) /\ UniqueHashes(d)

PutPolicy(d, p, policy, rule, targets, kept) ==
    [d EXCEPT !.mapping_policies[p] = policy,
              !.rate_limit_rules[p] = rule,
              !.mapping_policy_routes = kept \cup ({p} \X targets)]

PutKey(d, k, key) == [d EXCEPT !.api_keys[k] = key]

DropKey(d, k) ==
    [d EXCEPT !.api_keys[k] = None,
              !.api_key_mapping_policies = {l \in @ : l[1] # k}]

-----------------------------------------------------------------------------
\* A model gets a name.
LEMMA SetNameIsSound ==
    ASSUME NEW d, Sound(d), NEW m \in Models, NEW name \in Names,
           NEW e, e = [d EXCEPT !.epichust_models[m] = name]
    PROVE  Sound(e) /\ e.api_keys = d.api_keys
PROOF
  <1>1. d \in Tables
    BY DEF Sound
  <1>2. [d.epichust_models EXCEPT ![m] = name] \in [Models -> Names \cup {None}]
    BY <1>1 DEF Tables
  <1>3. /\ e.epichust_models = [d.epichust_models EXCEPT ![m] = name]
        /\ e.providers = d.providers
        /\ e.provider_models = d.provider_models
        /\ e.mapping_policies = d.mapping_policies
        /\ e.mapping_policy_routes = d.mapping_policy_routes
        /\ e.rate_limit_rules = d.rate_limit_rules
        /\ e.api_keys = d.api_keys
        /\ e.api_key_mapping_policies = d.api_key_mapping_policies
    BY <1>1, ZenonT(60) DEF Tables
  <1>4. e \in Tables
    BY <1>1, <1>2, ZenonT(60) DEF Tables
  <1>5. References(e)
    <2>1. \A p \in Policies : d.mapping_policies[p] # None => d.mapping_policies[p].epichust_model \in Models
      BY <1>1 DEF Tables, Policy
    <2>2. \A n \in Models : d.epichust_models[n] # None => e.epichust_models[n] # None
      BY <1>1, <1>3, ControlPlaneAssumption DEF Tables
    <2> QED BY <1>3, <2>1, <2>2, Zenon DEF References, Sound
  <1>6. UniqueHashes(e)
    <2>1. UniqueHashes(d) /\ e.api_keys = d.api_keys
      BY <1>3 DEF Sound
    <2> QED BY <2>1, Zenon DEF UniqueHashes
  <1> QED BY <1>3, <1>4, <1>5, <1>6, Zenon DEF Sound

\* A provider gets an endpoint.
LEMMA SetEndpointIsSound ==
    ASSUME NEW d, Sound(d), NEW p \in Providers, NEW endpoint \in Endpoints,
           NEW e, e = [d EXCEPT !.providers[p] = endpoint]
    PROVE  Sound(e) /\ e.api_keys = d.api_keys
PROOF
  <1>1. d \in Tables
    BY DEF Sound
  <1>2. [d.providers EXCEPT ![p] = endpoint] \in [Providers -> Endpoints \cup {None}]
    BY <1>1 DEF Tables
  <1>3. /\ e.epichust_models = d.epichust_models
        /\ e.providers = [d.providers EXCEPT ![p] = endpoint]
        /\ e.provider_models = d.provider_models
        /\ e.mapping_policies = d.mapping_policies
        /\ e.mapping_policy_routes = d.mapping_policy_routes
        /\ e.rate_limit_rules = d.rate_limit_rules
        /\ e.api_keys = d.api_keys
        /\ e.api_key_mapping_policies = d.api_key_mapping_policies
    BY <1>1, ZenonT(60) DEF Tables
  <1>4. e \in Tables
    BY <1>1, <1>2, ZenonT(60) DEF Tables
  <1>5. References(e)
    <2>1. \A q \in Providers : d.providers[q] # None => e.providers[q] # None
      BY <1>1, <1>3, ControlPlaneAssumption DEF Tables
    <2>2. \A pm \in d.provider_models : ProviderOf[pm] \in Providers
      BY <1>1, ControlPlaneAssumption DEF Tables
    <2> QED BY <1>3, <2>1, <2>2, Zenon DEF References, Sound
  <1>6. UniqueHashes(e)
    <2>1. UniqueHashes(d) /\ e.api_keys = d.api_keys
      BY <1>3 DEF Sound
    <2> QED BY <2>1, Zenon DEF UniqueHashes
  <1> QED BY <1>3, <1>4, <1>5, <1>6, Zenon DEF Sound

\* A provider that exists gets a model.
LEMMA AddProviderModelIsSound ==
    ASSUME NEW d, Sound(d), NEW pm \in ProviderModels,
           d.providers[ProviderOf[pm]] # None,
           NEW e, e = [d EXCEPT !.provider_models = @ \cup {pm}]
    PROVE  Sound(e) /\ e.api_keys = d.api_keys
PROOF
  <1>1. d \in Tables
    BY DEF Sound
  <1>2. d.provider_models \cup {pm} \in SUBSET ProviderModels
    BY <1>1 DEF Tables
  <1>3. /\ e.epichust_models = d.epichust_models
        /\ e.providers = d.providers
        /\ e.provider_models = d.provider_models \cup {pm}
        /\ e.mapping_policies = d.mapping_policies
        /\ e.mapping_policy_routes = d.mapping_policy_routes
        /\ e.rate_limit_rules = d.rate_limit_rules
        /\ e.api_keys = d.api_keys
        /\ e.api_key_mapping_policies = d.api_key_mapping_policies
    BY <1>1, ZenonT(60) DEF Tables
  <1>4. e \in Tables
    BY <1>1, <1>2, ZenonT(60) DEF Tables
  <1>5. References(e)
    BY <1>3, Zenon DEF References, Sound
  <1>6. UniqueHashes(e)
    <2>1. UniqueHashes(d) /\ e.api_keys = d.api_keys
      BY <1>3 DEF Sound
    <2> QED BY <2>1, Zenon DEF UniqueHashes
  <1> QED BY <1>3, <1>4, <1>5, <1>6, Zenon DEF Sound

\* Policies are deleted with what depends on them.
LEMMA WithoutPoliciesIsSound ==
    ASSUME NEW d, Sound(d), NEW gone \in SUBSET Policies,
           NEW e, e = WithoutPolicies(d, gone)
    PROVE  Sound(e) /\ e.api_keys = d.api_keys
PROOF
  <1>1. d \in Tables
    BY DEF Sound
  <1>2. /\ Nulled(d.mapping_policies, gone) \in [Policies -> Policy \cup {None}]
        /\ Nulled(d.rate_limit_rules, gone) \in [Policies -> Limits \cup {None}]
    BY <1>1 DEF Tables, Nulled
  <1>3. /\ e.epichust_models = d.epichust_models
        /\ e.providers = d.providers
        /\ e.provider_models = d.provider_models
        /\ e.mapping_policies = Nulled(d.mapping_policies, gone)
        /\ e.mapping_policy_routes = {r \in d.mapping_policy_routes : r[1] \notin gone}
        /\ e.rate_limit_rules = Nulled(d.rate_limit_rules, gone)
        /\ e.api_keys = d.api_keys
        /\ e.api_key_mapping_policies = {l \in d.api_key_mapping_policies : l[2] \notin gone}
    BY <1>1, ZenonT(60) DEF Tables, WithoutPolicies
  <1>4. e \in Tables
    BY <1>1, <1>2, ZenonT(60) DEF Tables, WithoutPolicies
  <1>5. References(e)
    BY <1>1, <1>3 DEF References, Nulled, Sound, Tables, Policy
  <1>6. UniqueHashes(e)
    <2>1. UniqueHashes(d) /\ e.api_keys = d.api_keys
      BY <1>3 DEF Sound
    <2> QED BY <2>1, Zenon DEF UniqueHashes
  <1> QED BY <1>3, <1>4, <1>5, <1>6, Zenon DEF Sound

\* Provider models are deleted with the routes to them.
LEMMA WithoutProviderModelsIsSound ==
    ASSUME NEW d, Sound(d), NEW gone,
           NEW e, e = WithoutProviderModels(d, gone)
    PROVE  Sound(e) /\ e.api_keys = d.api_keys
PROOF
  <1>1. d \in Tables
    BY DEF Sound
  <1>2. d.provider_models \ gone \in SUBSET ProviderModels
    BY <1>1 DEF Tables
  <1>3. /\ e.epichust_models = d.epichust_models
        /\ e.providers = d.providers
        /\ e.provider_models = d.provider_models \ gone
        /\ e.mapping_policies = d.mapping_policies
        /\ e.mapping_policy_routes = {r \in d.mapping_policy_routes : r[2] \notin gone}
        /\ e.rate_limit_rules = d.rate_limit_rules
        /\ e.api_keys = d.api_keys
        /\ e.api_key_mapping_policies = d.api_key_mapping_policies
    BY <1>1, ZenonT(60) DEF Tables, WithoutProviderModels
  <1>4. e \in Tables
    BY <1>1, <1>2, ZenonT(60) DEF Tables, WithoutProviderModels
  <1>5. References(e)
    BY <1>1, <1>3 DEF References, Sound, Tables
  <1>6. UniqueHashes(e)
    <2>1. UniqueHashes(d) /\ e.api_keys = d.api_keys
      BY <1>3 DEF Sound
    <2> QED BY <2>1, Zenon DEF UniqueHashes
  <1> QED BY <1>3, <1>4, <1>5, <1>6, Zenon DEF Sound

\* A model that no policy is for is deleted.
LEMMA DropModelIsSound ==
    ASSUME NEW d, Sound(d), NEW m \in Models,
           \A p \in Policies : d.mapping_policies[p] # None => d.mapping_policies[p].epichust_model # m,
           NEW e, e = [d EXCEPT !.epichust_models[m] = None]
    PROVE  Sound(e) /\ e.api_keys = d.api_keys
PROOF
  <1>1. d \in Tables
    BY DEF Sound
  <1>2. [d.epichust_models EXCEPT ![m] = None] \in [Models -> Names \cup {None}]
    BY <1>1 DEF Tables
  <1>3. /\ e.epichust_models = [d.epichust_models EXCEPT ![m] = None]
        /\ e.providers = d.providers
        /\ e.provider_models = d.provider_models
        /\ e.mapping_policies = d.mapping_policies
        /\ e.mapping_policy_routes = d.mapping_policy_routes
        /\ e.rate_limit_rules = d.rate_limit_rules
        /\ e.api_keys = d.api_keys
        /\ e.api_key_mapping_policies = d.api_key_mapping_policies
    BY <1>1, ZenonT(60) DEF Tables
  <1>4. e \in Tables
    BY <1>1, <1>2, ZenonT(60) DEF Tables
  <1>5. References(e)
    <2>1. \A p \in Policies : d.mapping_policies[p] # None => d.mapping_policies[p].epichust_model \in Models
      BY <1>1 DEF Tables, Policy
    <2>2. \A n \in Models : n # m => e.epichust_models[n] = d.epichust_models[n]
      BY <1>1, <1>3 DEF Tables
    <2>3. \A p \in Policies : d.mapping_policies[p] # None =>
              e.epichust_models[d.mapping_policies[p].epichust_model] # None
      BY <2>1, <2>2, Zenon DEF References, Sound
    <2>4. References(d)
      BY DEF Sound
    <2> QED BY <1>3, <2>3, <2>4, Zenon DEF References
  <1>6. UniqueHashes(e)
    <2>1. UniqueHashes(d) /\ e.api_keys = d.api_keys
      BY <1>3 DEF Sound
    <2> QED BY <2>1, Zenon DEF UniqueHashes
  <1> QED BY <1>3, <1>4, <1>5, <1>6, Zenon DEF Sound

\* A provider without models is deleted.
LEMMA DropProviderIsSound ==
    ASSUME NEW d, Sound(d), NEW p \in Providers,
           \A pm \in d.provider_models : ProviderOf[pm] # p,
           NEW e, e = [d EXCEPT !.providers[p] = None]
    PROVE  Sound(e) /\ e.api_keys = d.api_keys
PROOF
  <1>1. d \in Tables
    BY DEF Sound
  <1>2. [d.providers EXCEPT ![p] = None] \in [Providers -> Endpoints \cup {None}]
    BY <1>1 DEF Tables
  <1>3. /\ e.epichust_models = d.epichust_models
        /\ e.providers = [d.providers EXCEPT ![p] = None]
        /\ e.provider_models = d.provider_models
        /\ e.mapping_policies = d.mapping_policies
        /\ e.mapping_policy_routes = d.mapping_policy_routes
        /\ e.rate_limit_rules = d.rate_limit_rules
        /\ e.api_keys = d.api_keys
        /\ e.api_key_mapping_policies = d.api_key_mapping_policies
    BY <1>1, ZenonT(60) DEF Tables
  <1>4. e \in Tables
    BY <1>1, <1>2, ZenonT(60) DEF Tables
  <1>5. References(e)
    <2>1. \A q \in Providers : q # p => e.providers[q] = d.providers[q]
      BY <1>1, <1>3 DEF Tables
    <2>2. \A pm \in d.provider_models : ProviderOf[pm] \in Providers
      BY <1>1, ControlPlaneAssumption DEF Tables
    <2>3. \A pm \in d.provider_models : e.providers[ProviderOf[pm]] # None
      BY <2>1, <2>2, Zenon DEF References, Sound
    <2>4. References(d)
      BY DEF Sound
    <2> QED BY <1>3, <2>3, <2>4, Zenon DEF References
  <1>6. UniqueHashes(e)
    <2>1. UniqueHashes(d) /\ e.api_keys = d.api_keys
      BY <1>3 DEF Sound
    <2> QED BY <2>1, Zenon DEF UniqueHashes
  <1> QED BY <1>3, <1>4, <1>5, <1>6, Zenon DEF Sound

\* A policy is written with its rule and its routes, the old ones of it (or
\* none) being dropped.
LEMMA PutPolicyIsSound ==
    ASSUME NEW d, Sound(d), NEW p \in Policies, NEW policy \in Policy,
           d.epichust_models[policy.epichust_model] # None,
           NEW rule \in Limits \cup {None}, NEW targets \in SUBSET d.provider_models,
           NEW kept \in SUBSET d.mapping_policy_routes,
           NEW e, e = PutPolicy(d, p, policy, rule, targets, kept)
    PROVE  Sound(e) /\ e.api_keys = d.api_keys
PROOF
  <1>1. d \in Tables
    BY DEF Sound
  <1>2. /\ [d.mapping_policies EXCEPT ![p] = policy] \in [Policies -> Policy \cup {None}]
        /\ [d.rate_limit_rules EXCEPT ![p] = rule] \in [Policies -> Limits \cup {None}]
        /\ kept \cup ({p} \X targets) \in SUBSET (Policies \X ProviderModels)
    BY <1>1 DEF Tables
  <1>3. /\ e.epichust_models = d.epichust_models
        /\ e.providers = d.providers
        /\ e.provider_models = d.provider_models
        /\ e.mapping_policies = [d.mapping_policies EXCEPT ![p] = policy]
        /\ e.mapping_policy_routes = kept \cup ({p} \X targets)
        /\ e.rate_limit_rules = [d.rate_limit_rules EXCEPT ![p] = rule]
        /\ e.api_keys = d.api_keys
        /\ e.api_key_mapping_policies = d.api_key_mapping_policies
    BY <1>1, ZenonT(60) DEF Tables, PutPolicy
  <1>4. e \in Tables
    BY <1>1, <1>2, ZenonT(60) DEF Tables, PutPolicy
  <1>5. References(e)
    <2>1. policy # None
      BY ControlPlaneAssumption
    <2>2. /\ e.mapping_policies[p] = policy
          /\ \A q \in Policies : q # p => /\ e.mapping_policies[q] = d.mapping_policies[q]
                                         /\ e.rate_limit_rules[q] = d.rate_limit_rules[q]
      BY <1>1, <1>3 DEF Tables
    <2>3. \A r \in e.mapping_policy_routes :
              /\ r[1] \in Policies
              /\ r \in d.mapping_policy_routes \/ (r[1] = p /\ r[2] \in d.provider_models)
      BY <1>1, <1>3 DEF Tables
    <2>4. \A l \in d.api_key_mapping_policies : l[2] \in Policies
      BY <1>1 DEF Tables
    <2>5. \A q \in Policies : d.mapping_policies[q] # None => e.mapping_policies[q] # None
      BY <2>1, <2>2
    <2>6. \A q \in Policies :
              /\ e.mapping_policies[q] # None =>
                    d.epichust_models[e.mapping_policies[q].epichust_model] # None
              /\ e.rate_limit_rules[q] # None => e.mapping_policies[q] # None
      BY <2>1, <2>2, Zenon DEF References, Sound
    <2>7. \A r \in e.mapping_policy_routes :
              e.mapping_policies[r[1]] # None /\ r[2] \in d.provider_models
      BY <2>1, <2>2, <2>3, <2>5, Zenon DEF References, Sound
    <2>8. \A l \in d.api_key_mapping_policies :
              d.api_keys[l[1]] # None /\ e.mapping_policies[l[2]] # None
      BY <2>4, <2>5, Zenon DEF References, Sound
    <2>9. \A pm \in d.provider_models : d.providers[ProviderOf[pm]] # None
      BY Zenon DEF References, Sound
    <2> QED BY <1>3, <2>6, <2>7, <2>8, <2>9, Zenon DEF References
  <1>6. UniqueHashes(e)
    <2>1. UniqueHashes(d) /\ e.api_keys = d.api_keys
      BY <1>3 DEF Sound
    <2> QED BY <2>1, Zenon DEF UniqueHashes
  <1> QED BY <1>3, <1>4, <1>5, <1>6, Zenon DEF Sound

\* A key gets a hash that no other key has.
LEMMA SetKeyIsSound ==
    ASSUME NEW d, Sound(d), NEW k \in Keys, NEW key \in ApiKey,
           \A j \in Keys : j # k /\ d.api_keys[j] # None => d.api_keys[j].key_hash # key.key_hash,
           NEW e, e = PutKey(d, k, key)
    PROVE  /\ Sound(e)
           /\ e.api_keys[k] = key
           /\ \A j \in Keys : j # k => e.api_keys[j] = d.api_keys[j]
PROOF
  <1>1. d \in Tables
    BY DEF Sound
  <1>2. [d.api_keys EXCEPT ![k] = key] \in [Keys -> ApiKey \cup {None}]
    BY <1>1 DEF Tables
  <1>3. /\ e.epichust_models = d.epichust_models
        /\ e.providers = d.providers
        /\ e.provider_models = d.provider_models
        /\ e.mapping_policies = d.mapping_policies
        /\ e.mapping_policy_routes = d.mapping_policy_routes
        /\ e.rate_limit_rules = d.rate_limit_rules
        /\ e.api_keys = [d.api_keys EXCEPT ![k] = key]
        /\ e.api_key_mapping_policies = d.api_key_mapping_policies
    BY <1>1, ZenonT(60) DEF Tables, PutKey
  <1>4. e \in Tables
    BY <1>1, <1>2, ZenonT(60) DEF Tables, PutKey
  <1>5. References(e)
    <2>1. key # None
      BY ControlPlaneAssumption
    <2>2. \A j \in Keys : d.api_keys[j] # None => e.api_keys[j] # None
      BY <1>1, <1>3, <2>1 DEF Tables
    <2>3. \A l \in d.api_key_mapping_policies : l[1] \in Keys
      BY <1>1 DEF Tables
    <2> QED BY <1>3, <2>2, <2>3, Zenon DEF References, Sound
  <1>6. UniqueHashes(e)
    <2>1. e.api_keys[k] = key /\ \A j \in Keys : j # k => e.api_keys[j] = d.api_keys[j]
      BY <1>1, <1>3 DEF Tables
    <2> QED BY <2>1, Zenon DEF UniqueHashes, Sound
  <1>7. e.api_keys[k] = key /\ \A j \in Keys : j # k => e.api_keys[j] = d.api_keys[j]
    BY <1>1, <1>3 DEF Tables
  <1> QED BY <1>4, <1>5, <1>6, <1>7, Zenon DEF Sound

\* A key is deleted with its links to policies.
LEMMA DropKeyIsSound ==
    ASSUME NEW d, Sound(d), NEW k \in Keys,
           NEW e, e = DropKey(d, k)
    PROVE  /\ Sound(e)
           /\ e.api_keys[k] = None
           /\ \A j \in Keys : j # k => e.api_keys[j] = d.api_keys[j]
PROOF
  <1>1. d \in Tables
    BY DEF Sound
  <1>2. /\ [d.api_keys EXCEPT ![k] = None] \in [Keys -> ApiKey \cup {None}]
        /\ {l \in d.api_key_mapping_policies : l[1] # k} \in SUBSET (Keys \X Policies)
    BY <1>1 DEF Tables
  <1>3. /\ e.epichust_models = d.epichust_models
        /\ e.providers = d.providers
        /\ e.provider_models = d.provider_models
        /\ e.mapping_policies = d.mapping_policies
        /\ e.mapping_policy_routes = d.mapping_policy_routes
        /\ e.rate_limit_rules = d.rate_limit_rules
        /\ e.api_keys = [d.api_keys EXCEPT ![k] = None]
        /\ e.api_key_mapping_policies = {l \in d.api_key_mapping_policies : l[1] # k}
    BY <1>1, ZenonT(60) DEF Tables, DropKey
  <1>4. e \in Tables
    BY <1>1, <1>2, ZenonT(60) DEF Tables, DropKey
  <1>7. e.api_keys[k] = None /\ \A j \in Keys : j # k => e.api_keys[j] = d.api_keys[j]
    BY <1>1, <1>3 DEF Tables
  <1>5. References(e)
    <2>1. \A l \in e.api_key_mapping_policies :
              l \in d.api_key_mapping_policies /\ d.api_keys[l[1]] = e.api_keys[l[1]]
      BY <1>1, <1>3 DEF Tables
    <2> QED BY <1>3, <2>1, Zenon DEF References, Sound
  <1>6. UniqueHashes(e)
    BY <1>7, Zenon DEF UniqueHashes, Sound
  <1> QED BY <1>4, <1>5, <1>6, <1>7, Zenon DEF Sound

\* Keys and policies that exist are linked, or no longer.
LEMMA SetLinksIsSound ==
    ASSUME NEW d, Sound(d), NEW links \in SUBSET (Keys \X Policies),
           \A l \in links : d.api_keys[l[1]] # None /\ d.mapping_policies[l[2]] # None,
           NEW e, e = [d EXCEPT !.api_key_mapping_policies = links]
    PROVE  Sound(e) /\ e.api_keys = d.api_keys
PROOF
  <1>1. d \in Tables
    BY DEF Sound
  <1>2. links \in SUBSET (Keys \X Policies)
    OBVIOUS
  <1>3. /\ e.epichust_models = d.epichust_models
        /\ e.providers = d.providers
        /\ e.provider_models = d.provider_models
        /\ e.mapping_policies = d.mapping_policies
        /\ e.mapping_policy_routes = d.mapping_policy_routes
        /\ e.rate_limit_rules = d.rate_limit_rules
        /\ e.api_keys = d.api_keys
        /\ e.api_key_mapping_policies = links
    BY <1>1, ZenonT(60) DEF Tables
  <1>4. e \in Tables
    BY <1>1, <1>2, ZenonT(60) DEF Tables
  <1>5. References(e)
    BY <1>3, Zenon DEF References, Sound
  <1>6. UniqueHashes(e)
    <2>1. UniqueHashes(d) /\ e.api_keys = d.api_keys
      BY <1>3 DEF Sound
    <2> QED BY <2>1, Zenon DEF UniqueHashes
  <1> QED BY <1>3, <1>4, <1>5, <1>6, Zenon DEF Sound
-----------------------------------------------------------------------------
\* What every operation does to the hashes: it keeps those of a key or gives it
\* one that was never used.
HashesStep ==
    /\ used \subseteq used'
    /\ \A k \in Keys : db'.api_keys[k] # None =>
          \/ /\ db.api_keys[k] # None
             /\ db'.api_keys[k].key_hash = db.api_keys[k].key_hash
          \/ db'.api_keys[k].key_hash \in used' \ used

HashesAreUsed == \A k \in Keys : db.api_keys[k] # None => db.api_keys[k].key_hash \in used

\* The invariant of the tables.
TablesInv == ControlTypeOK /\ Sound(db) /\ HashesAreUsed

LEMMA InitTables == ControlInit => TablesInv
PROOF
  <1> SUFFICES ASSUME ControlInit PROVE TablesInv
    OBVIOUS
  <1>1. Sound(db)
    BY ControlPlaneAssumption DEF ControlInit, Sound
  <1>2. \A k \in Keys : db.api_keys[k] # None => db.api_keys[k].key_hash \in Hashes
    BY <1>1 DEF Sound, Tables, ApiKey
  <1>3. HashesAreUsed
    <2>1. DOMAIN db.api_keys = Keys
      BY <1>1 DEF Sound, Tables
    <2> QED BY <2>1 DEF ControlInit, IdsIn, HashesAreUsed, Rows
  <1>4. /\ DOMAIN db.epichust_models = Models
        /\ DOMAIN db.providers = Providers
        /\ DOMAIN db.mapping_policies = Policies
        /\ DOMAIN db.api_keys = Keys
        /\ db.provider_models \subseteq ProviderModels
    BY <1>1 DEF Sound, Tables
  <1>5. used \subseteq Models \cup Providers \cup ProviderModels \cup Policies \cup Keys \cup Hashes
    BY <1>2, <1>4 DEF ControlInit, IdsIn, Rows
  <1> QED BY <1>1, <1>3, <1>5 DEF TablesInv, ControlTypeOK, Sound

\* It is enough to look at soundness and at the hashes.
LEMMA TablesInvKept ==
    ASSUME TablesInv, Sound(db'), HashesStep,
           used' \subseteq used \cup Models \cup Providers \cup ProviderModels \cup Policies \cup Keys \cup Hashes
    PROVE  TablesInv'
PROOF
  <1>1. ControlTypeOK'
    BY DEF TablesInv, ControlTypeOK, Sound
  <1>2. HashesAreUsed'
    BY DEF HashesAreUsed, HashesStep, TablesInv
  <1>3. Sound(db)'
    OBVIOUS
  <1> QED BY <1>1, <1>2, <1>3, Zenon DEF TablesInv

\* Operations that leave the keys alone.
LEMMA KeysUntouched ==
    ASSUME db'.api_keys = db.api_keys, used \subseteq used'
    PROVE  HashesStep
PROOF
  BY DEF HashesStep

LEMMA ModelOpKeeps == TablesInv /\ ModelOp => Sound(db') /\ HashesStep /\ TablesInv'
PROOF
  <1> SUFFICES ASSUME TablesInv, NEW m \in Models,
                      \/ \E name \in Names : create_epichust_model(m, name) \/ update_epichust_model(m, name)
                      \/ delete_epichust_model(m)
               PROVE  Sound(db') /\ HashesStep /\ TablesInv'
    BY DEF ModelOp
  <1>1. Sound(db)
    BY DEF TablesInv
  <1>2. /\ used' \subseteq used \cup Models
        /\ used \subseteq used'
    BY DEF create_epichust_model, update_epichust_model, delete_epichust_model, Generate
  <1>3. Sound(db') /\ db'.api_keys = db.api_keys
    <2>1. CASE \E name \in Names : create_epichust_model(m, name) \/ update_epichust_model(m, name)
      <3>1. PICK name \in Names : db' = [db EXCEPT !.epichust_models[m] = name]
        BY <2>1, Zenon DEF create_epichust_model, update_epichust_model
      <3> QED BY <1>1, <3>1, SetNameIsSound, Zenon
    <2>2. CASE delete_epichust_model(m)
      <3> DEFINE gone == {p \in Policies : /\ db.mapping_policies[p] # None
                                           /\ db.mapping_policies[p].epichust_model = m}
      <3>1. db' = [WithoutPolicies(db, gone) EXCEPT !.epichust_models[m] = None]
        BY <2>2, Zenon DEF delete_epichust_model
      <3>2. gone \in SUBSET Policies
        OBVIOUS
      <3>3. PICK d : d = WithoutPolicies(db, gone)
        OBVIOUS
      <3>4. Sound(d) /\ d.api_keys = db.api_keys
        BY <1>1, <3>2, <3>3, WithoutPoliciesIsSound, Zenon
      <3>5. \A p \in Policies : d.mapping_policies[p] # None => d.mapping_policies[p].epichust_model # m
        <4>1. d.mapping_policies = Nulled(db.mapping_policies, gone)
          <5>1. db \in Tables
            BY <1>1 DEF Sound
          <5> QED BY <3>3, <5>1, ZenonT(60) DEF WithoutPolicies, Tables
        <4>2. DOMAIN db.mapping_policies = Policies
          BY <1>1 DEF Sound, Tables
        <4> QED BY <4>1, <4>2 DEF Nulled
      <3> HIDE DEF gone
      <3>6. db' = [d EXCEPT !.epichust_models[m] = None]
        BY <3>1, <3>3
      <3>7. Sound(db') /\ db'.api_keys = d.api_keys
        BY <3>4, <3>5, <3>6, DropModelIsSound, Zenon
      <3> QED BY <3>4, <3>7
    <2> QED BY <2>1, <2>2, Zenon
  <1>4. HashesStep
    BY <1>2, <1>3, KeysUntouched, Zenon
  <1>5. used' \subseteq used \cup Models \cup Providers \cup ProviderModels \cup Policies \cup Keys \cup Hashes
    BY <1>2
  <1> QED BY <1>3, <1>4, <1>5, TablesInvKept, Zenon

LEMMA ProviderOpKeeps == TablesInv /\ ProviderOp => Sound(db') /\ HashesStep /\ TablesInv'
PROOF
  <1> SUFFICES ASSUME TablesInv, ProviderOp
               PROVE  Sound(db') /\ HashesStep /\ TablesInv'
    OBVIOUS
  <1>1. Sound(db) /\ db \in Tables
    BY DEF TablesInv, Sound
  <1>2. /\ used' \subseteq used \cup Providers \cup ProviderModels
        /\ used \subseteq used'
    BY DEF ProviderOp, create_provider, update_provider, delete_provider, create_provider_model,
           delete_provider_model, Generate
  <1>3. Sound(db') /\ db'.api_keys = db.api_keys
    <2>1. CASE \E p \in Providers, endpoint \in Endpoints :
                  create_provider(p, endpoint) \/ update_provider(p, endpoint)
      <3>1. PICK p \in Providers, endpoint \in Endpoints : db' = [db EXCEPT !.providers[p] = endpoint]
        BY <2>1, Zenon DEF create_provider, update_provider
      <3> QED BY <1>1, <3>1, SetEndpointIsSound, Zenon
    <2>2. CASE \E p \in Providers : delete_provider(p)
      <3>1. PICK p \in Providers : delete_provider(p)
        BY <2>2
      <3>2. PICK d : d = WithoutProviderModels(db, {pm \in ProviderModels : ProviderOf[pm] = p})
        OBVIOUS
      <3>3. Sound(d) /\ d.api_keys = db.api_keys
        BY <1>1, <3>2, WithoutProviderModelsIsSound, Zenon
      <3>4. d.provider_models = db.provider_models \ {pm \in ProviderModels : ProviderOf[pm] = p}
        BY <1>1, <3>2, ZenonT(60) DEF WithoutProviderModels, Tables
      <3>5. \A pm \in d.provider_models : ProviderOf[pm] # p
        <4>1. db.provider_models \subseteq ProviderModels
          BY <1>1 DEF Tables
        <4> QED BY <3>4, <4>1
      <3>6. db' = [d EXCEPT !.providers[p] = None]
        BY <3>1, <3>2, Zenon DEF delete_provider
      <3>7. Sound(db') /\ db'.api_keys = d.api_keys
        BY <3>3, <3>5, <3>6, DropProviderIsSound, Zenon
      <3> QED BY <3>3, <3>7
    <2>3. CASE \E pm \in ProviderModels : create_provider_model(pm)
      <3>1. PICK pm \in ProviderModels : create_provider_model(pm)
        BY <2>3
      <3>2. /\ db.providers[ProviderOf[pm]] # None
            /\ db' = [db EXCEPT !.provider_models = @ \cup {pm}]
        BY <3>1, Zenon DEF create_provider_model
      <3> QED BY <1>1, <3>2, AddProviderModelIsSound, Zenon
    <2>4. CASE \E pm \in ProviderModels : delete_provider_model(pm)
      <3>1. PICK pm \in ProviderModels : db' = WithoutProviderModels(db, {pm})
        BY <2>4, Zenon DEF delete_provider_model
      <3> QED BY <1>1, <3>1, WithoutProviderModelsIsSound, Zenon
    <2> QED BY <2>1, <2>2, <2>3, <2>4, Zenon DEF ProviderOp
  <1>4. HashesStep
    BY <1>2, <1>3, KeysUntouched, Zenon
  <1>5. used' \subseteq used \cup Models \cup Providers \cup ProviderModels \cup Policies \cup Keys \cup Hashes
    BY <1>2
  <1> QED BY <1>3, <1>4, <1>5, TablesInvKept, Zenon

LEMMA PolicyOpKeeps == TablesInv /\ PolicyOp => Sound(db') /\ HashesStep /\ TablesInv'
PROOF
  <1> SUFFICES ASSUME TablesInv, NEW p \in Policies,
                      \/ \E policy \in Policy, rule \in Limits \cup {None}, targets \in SUBSET ProviderModels :
                            create_mapping_policy(p, policy, rule, targets)
                      \/ \E enabled \in BOOLEAN, rule \in Limits \cup {None}, targets \in SUBSET ProviderModels :
                            update_mapping_policy(p, enabled, rule, targets)
                      \/ delete_mapping_policy(p)
               PROVE  Sound(db') /\ HashesStep /\ TablesInv'
    BY Zenon DEF PolicyOp
  <1>1. Sound(db) /\ db \in Tables
    BY DEF TablesInv, Sound
  <1>2. /\ used' \subseteq used \cup Policies
        /\ used \subseteq used'
    BY DEF create_mapping_policy, update_mapping_policy, delete_mapping_policy, Generate
  <1>3. Sound(db') /\ db'.api_keys = db.api_keys
    <2>1. ASSUME NEW policy \in Policy, NEW rule \in Limits \cup {None}, NEW targets \in SUBSET ProviderModels,
                 create_mapping_policy(p, policy, rule, targets)
          PROVE  Sound(db') /\ db'.api_keys = db.api_keys
      <3>1. /\ db.epichust_models[policy.epichust_model] # None
            /\ targets \in SUBSET db.provider_models
        BY <2>1 DEF create_mapping_policy
      <3>2. db' = PutPolicy(db, p, policy, rule, targets, db.mapping_policy_routes)
        BY <2>1, Zenon DEF create_mapping_policy, PutPolicy
      <3>3. db.mapping_policy_routes \in SUBSET db.mapping_policy_routes
        OBVIOUS
      <3> QED BY <1>1, <3>1, <3>2, <3>3, PutPolicyIsSound
    <2>2. ASSUME NEW enabled \in BOOLEAN, NEW rule \in Limits \cup {None}, NEW targets \in SUBSET ProviderModels,
                 update_mapping_policy(p, enabled, rule, targets)
          PROVE  Sound(db') /\ db'.api_keys = db.api_keys
      <3>1. PICK old : old = db.mapping_policies[p]
        OBVIOUS
      <3>2. old \in Policy /\ old # None
        BY <1>1, <2>2, <3>1 DEF update_mapping_policy, Tables
      <3>3. PICK policy : policy = [old EXCEPT !.enabled = enabled]
        OBVIOUS
      <3>4. policy \in Policy /\ policy.epichust_model = old.epichust_model
        BY <3>2, <3>3, Zenon DEF Policy
      <3>5. db.epichust_models[policy.epichust_model] # None
        BY <1>1, <3>1, <3>2, <3>4, Zenon DEF Sound, References
      <3>6. PICK kept : kept = {r \in db.mapping_policy_routes : r[1] # p}
        OBVIOUS
      <3>7. kept \in SUBSET db.mapping_policy_routes /\ targets \in SUBSET db.provider_models
        BY <2>2, <3>6 DEF update_mapping_policy
      <3>8. db' = PutPolicy(db, p, policy, rule, targets, kept)
        BY <2>2, <3>1, <3>3, <3>6, Zenon DEF update_mapping_policy, PutPolicy
      <3> QED BY <1>1, <3>4, <3>5, <3>7, <3>8, PutPolicyIsSound
    <2>3. CASE delete_mapping_policy(p)
      <3>1. db' = WithoutPolicies(db, {p}) /\ {p} \in SUBSET Policies
        BY <2>3, Zenon DEF delete_mapping_policy
      <3> QED BY <1>1, <3>1, WithoutPoliciesIsSound, Zenon
    <2> QED BY <2>1, <2>2, <2>3, Zenon
  <1>4. HashesStep
    BY <1>2, <1>3, KeysUntouched, Zenon
  <1>5. used' \subseteq used \cup Models \cup Providers \cup ProviderModels \cup Policies \cup Keys \cup Hashes
    BY <1>2
  <1> QED BY <1>3, <1>4, <1>5, TablesInvKept, Zenon

LEMMA KeyOpKeeps == TablesInv /\ KeyOp => Sound(db') /\ HashesStep /\ TablesInv'
PROOF
  <1> SUFFICES ASSUME TablesInv, NEW k \in Keys,
                      \/ \E hash \in Hashes : create_api_key(k, hash) \/ rotate_api_key(k, hash)
                      \/ \E enabled \in BOOLEAN : update_api_key(k, enabled)
                      \/ delete_api_key(k)
                      \/ \E p \in Policies : attach_api_key_mapping_policy(k, p)
                      \/ \E p \in Policies : detach_api_key_mapping_policy(k, p)
               PROVE  Sound(db') /\ HashesStep /\ TablesInv'
    BY Zenon DEF KeyOp
  <1>1. Sound(db) /\ db \in Tables /\ HashesAreUsed /\ UniqueHashes(db)
    BY DEF TablesInv, Sound
  <1>2. /\ used' \subseteq used \cup Keys \cup Hashes
        /\ used \subseteq used'
    BY DEF create_api_key, rotate_api_key, update_api_key, delete_api_key,
           attach_api_key_mapping_policy, detach_api_key_mapping_policy, Generate
  <1>3. Sound(db') /\ HashesStep
    <2>1. ASSUME NEW hash \in Hashes, create_api_key(k, hash)
          PROVE  Sound(db') /\ HashesStep
      <3>1. PICK key : key = [key_hash |-> hash, enabled |-> TRUE]
        OBVIOUS
      <3>2. key \in ApiKey /\ key.key_hash = hash
        BY <3>1 DEF ApiKey
      <3>3. hash \notin used /\ hash \in used'
        BY <2>1 DEF create_api_key, Generate
      <3>4. db' = PutKey(db, k, key)
        BY <2>1, <3>1, Zenon DEF create_api_key, PutKey
      <3>5. \A j \in Keys : j # k /\ db.api_keys[j] # None => db.api_keys[j].key_hash # key.key_hash
        BY <1>1, <3>2, <3>3 DEF HashesAreUsed
      <3>6. /\ Sound(db')
            /\ db'.api_keys[k] = key
            /\ \A j \in Keys : j # k => db'.api_keys[j] = db.api_keys[j]
        BY <1>1, <3>2, <3>4, <3>5, SetKeyIsSound
      <3> QED BY <1>2, <3>2, <3>3, <3>6, Zenon DEF HashesStep
    <2>2. ASSUME NEW hash \in Hashes, rotate_api_key(k, hash)
          PROVE  Sound(db') /\ HashesStep
      <3>1. PICK old : old = db.api_keys[k]
        OBVIOUS
      <3>2. old \in ApiKey
        BY <1>1, <2>2, <3>1 DEF rotate_api_key, Tables
      <3>3. PICK key : key = [old EXCEPT !.key_hash = hash]
        OBVIOUS
      <3>4. key \in ApiKey /\ key.key_hash = hash
        BY <3>2, <3>3, Zenon DEF ApiKey
      <3>5. hash \notin used /\ hash \in used'
        BY <2>2 DEF rotate_api_key, Generate
      <3>6. db' = PutKey(db, k, key)
        BY <2>2, <3>1, <3>3, Zenon DEF rotate_api_key, PutKey
      <3>7. \A j \in Keys : j # k /\ db.api_keys[j] # None => db.api_keys[j].key_hash # key.key_hash
        BY <1>1, <3>4, <3>5 DEF HashesAreUsed
      <3>8. /\ Sound(db')
            /\ db'.api_keys[k] = key
            /\ \A j \in Keys : j # k => db'.api_keys[j] = db.api_keys[j]
        BY <1>1, <3>4, <3>6, <3>7, SetKeyIsSound
      <3> QED BY <1>2, <3>4, <3>5, <3>8, Zenon DEF HashesStep
    <2>3. ASSUME NEW enabled \in BOOLEAN, update_api_key(k, enabled)
          PROVE  Sound(db') /\ HashesStep
      <3>1. PICK old : old = db.api_keys[k]
        OBVIOUS
      <3>2. old \in ApiKey /\ old # None
        BY <1>1, <2>3, <3>1 DEF update_api_key, Tables
      <3>3. PICK key : key = [old EXCEPT !.enabled = enabled]
        OBVIOUS
      <3>4. key \in ApiKey /\ key.key_hash = old.key_hash
        BY <3>2, <3>3, Zenon DEF ApiKey
      <3>5. db' = PutKey(db, k, key)
        BY <2>3, <3>1, <3>3, Zenon DEF update_api_key, PutKey
      <3>6. \A j \in Keys : j # k /\ db.api_keys[j] # None => db.api_keys[j].key_hash # key.key_hash
        BY <1>1, <3>1, <3>2, <3>4 DEF UniqueHashes
      <3>7. /\ Sound(db')
            /\ db'.api_keys[k] = key
            /\ \A j \in Keys : j # k => db'.api_keys[j] = db.api_keys[j]
        BY <1>1, <3>4, <3>5, <3>6, SetKeyIsSound
      <3> QED BY <1>2, <3>1, <3>2, <3>4, <3>7, Zenon DEF HashesStep
    <2>4. CASE delete_api_key(k)
      <3>1. db' = DropKey(db, k)
        BY <2>4, Zenon DEF delete_api_key, DropKey
      <3>2. /\ Sound(db')
            /\ db'.api_keys[k] = None
            /\ \A j \in Keys : j # k => db'.api_keys[j] = db.api_keys[j]
        BY <1>1, <3>1, DropKeyIsSound
      <3> QED BY <1>2, <3>2, Zenon DEF HashesStep
    <2>5. ASSUME NEW p \in Policies, attach_api_key_mapping_policy(k, p)
          PROVE  Sound(db') /\ HashesStep
      <3>1. PICK links : links = db.api_key_mapping_policies \cup {<<k, p>>}
        OBVIOUS
      <3>2. /\ links \in SUBSET (Keys \X Policies)
            /\ \A l \in links : db.api_keys[l[1]] # None /\ db.mapping_policies[l[2]] # None
        <4>1. db.api_keys[k] # None /\ db.mapping_policies[p] # None
          BY <2>5 DEF attach_api_key_mapping_policy
        <4>2. \A l \in db.api_key_mapping_policies :
                  db.api_keys[l[1]] # None /\ db.mapping_policies[l[2]] # None
          BY <1>1, Zenon DEF Sound, References
        <4>3. db.api_key_mapping_policies \subseteq Keys \X Policies
          BY <1>1 DEF Tables
        <4> QED BY <3>1, <4>1, <4>2, <4>3
      <3>3. db' = [db EXCEPT !.api_key_mapping_policies = links]
        BY <2>5, <3>1, Zenon DEF attach_api_key_mapping_policy
      <3>4. Sound(db') /\ db'.api_keys = db.api_keys
        BY <1>1, <3>2, <3>3, SetLinksIsSound, Zenon
      <3> QED BY <1>2, <3>4, KeysUntouched, Zenon
    <2>6. ASSUME NEW p \in Policies, detach_api_key_mapping_policy(k, p)
          PROVE  Sound(db') /\ HashesStep
      <3>1. PICK links : links = db.api_key_mapping_policies \ {<<k, p>>}
        OBVIOUS
      <3>2. /\ links \in SUBSET (Keys \X Policies)
            /\ \A l \in links : db.api_keys[l[1]] # None /\ db.mapping_policies[l[2]] # None
        <4>1. \A l \in db.api_key_mapping_policies :
                  db.api_keys[l[1]] # None /\ db.mapping_policies[l[2]] # None
          BY <1>1, Zenon DEF Sound, References
        <4>2. db.api_key_mapping_policies \subseteq Keys \X Policies
          BY <1>1 DEF Tables
        <4> QED BY <3>1, <4>1, <4>2
      <3>3. db' = [db EXCEPT !.api_key_mapping_policies = links]
        BY <2>6, <3>1, Zenon DEF detach_api_key_mapping_policy
      <3>4. Sound(db') /\ db'.api_keys = db.api_keys
        BY <1>1, <3>2, <3>3, SetLinksIsSound, Zenon
      <3> QED BY <1>2, <3>4, KeysUntouched, Zenon
    <2> QED BY <2>1, <2>2, <2>3, <2>4, <2>5, <2>6, Zenon
  <1>4. used' \subseteq used \cup Models \cup Providers \cup ProviderModels \cup Policies \cup Keys \cup Hashes
    BY <1>2
  <1> QED BY <1>3, <1>4, TablesInvKept, Zenon

\* No operation of the admin API breaks a constraint or brings a hash back.
LEMMA AdminOpKeeps == TablesInv /\ AdminOp => Sound(db') /\ HashesStep /\ TablesInv'
PROOF
  BY ModelOpKeeps, ProviderOpKeeps, PolicyOpKeeps, KeyOpKeeps, Zenon DEF AdminOp
-----------------------------------------------------------------------------
LEMMA TablesKept == TablesInv /\ [Next]_vars => TablesInv'
PROOF
  <1> SUFFICES ASSUME TablesInv, [Next]_vars PROVE TablesInv'
    OBVIOUS
  <1>1. AdminOp \/ UNCHANGED <<db, used>>
    BY DEF Next, Commit, Connect, Refresh, load_key_hashes, load_model_routes, load_rate_limits,
           QueryFails, Replace, vars
  <1>2. CASE AdminOp
    BY <1>2, AdminOpKeeps
  <1>3. CASE UNCHANGED <<db, used>>
    BY <1>3 DEF TablesInv, ControlTypeOK, Sound, HashesAreUsed, Tables, References, UniqueHashes
  <1> QED BY <1>1, <1>2, <1>3

LEMMA TablesStaySound == Spec => []TablesInv
PROOF
  <1>1. Init => TablesInv
    BY InitTables DEF Init
  <1> QED BY <1>1, TablesKept, PTL DEF Spec

\* No order of creations, updates, rotations and deletions (repositories.rs,
\* with the cascades of deploy/sql) leaves a row that names one that is gone.
THEOREM ReferencesResolve == Spec => []ReferentialIntegrity
PROOF
  <1>1. TablesInv => ReferentialIntegrity
    BY DEF TablesInv, Sound, ReferentialIntegrity
  <1> QED BY <1>1, TablesStaySound, PTL
-----------------------------------------------------------------------------
\* An entry is of one kind, so that the tables imply it if and only if the
\* query of its kind finds it.
LEMMA ImpliedByKind ==
    ASSUME NEW d, NEW e
    PROVE  /\ e[1] = "key"   => (e \in Implied(d) <=> e \in KeyEntries(d))
           /\ e[1] = "route" => (e \in Implied(d) <=> e \in RouteEntries(d))
           /\ e[1] = "limit" => (e \in Implied(d) <=> e \in LimitEntries(d))
PROOF
  <1>1. \A x \in KeyEntries(d) : x[1] = "key"
    BY DEF KeyEntries
  <1>2. \A x \in RouteEntries(d) : x[1] = "route"
    BY DEF RouteEntries
  <1>3. \A x \in LimitEntries(d) : x[1] = "limit"
    BY DEF LimitEntries
  <1> QED BY <1>1, <1>2, <1>3 DEF Implied

\* The three queries find well-typed entries.
LEMMA QueriesAreTyped ==
    ASSUME NEW d, Sound(d)
    PROVE  /\ KeyEntries(d) \subseteq {"key"} \X Hashes \X Keys
           /\ RouteEntries(d) \subseteq {"route"} \X Names \X ProviderModels \X Endpoints
           /\ LimitEntries(d) \subseteq {"limit"} \X Hashes \X Limits
PROOF
  <1>1. d \in Tables /\ References(d)
    BY DEF Sound
  <1>2. \A k \in Keys : d.api_keys[k] # None => d.api_keys[k].key_hash \in Hashes
    BY <1>1 DEF Tables, ApiKey
  <1>3. KeyEntries(d) \subseteq {"key"} \X Hashes \X Keys
    BY <1>2 DEF KeyEntries
  <1>4. ASSUME NEW r \in d.mapping_policy_routes
        PROVE  /\ r[2] \in ProviderModels
               /\ d.epichust_models[d.mapping_policies[r[1]].epichust_model] \in Names
               /\ d.providers[ProviderOf[r[2]]] \in Endpoints
    <2>1. r[1] \in Policies /\ r[2] \in ProviderModels
      BY <1>1 DEF Tables
    <2>2. d.mapping_policies[r[1]] # None /\ r[2] \in d.provider_models
      BY <1>1, Zenon DEF References
    <2>3. /\ d.epichust_models[d.mapping_policies[r[1]].epichust_model] # None
          /\ d.providers[ProviderOf[r[2]]] # None
      BY <1>1, <2>1, <2>2, Zenon DEF References
    <2>4. d.mapping_policies[r[1]].epichust_model \in Models
      BY <1>1, <2>1, <2>2 DEF Tables, Policy
    <2>5. ProviderOf[r[2]] \in Providers
      BY <2>1, ControlPlaneAssumption
    <2> QED BY <1>1, <2>1, <2>3, <2>4, <2>5 DEF Tables
  <1>5. RouteEntries(d) \subseteq {"route"} \X Names \X ProviderModels \X Endpoints
    BY <1>4 DEF RouteEntries
  <1>6. ASSUME NEW l \in d.api_key_mapping_policies, d.rate_limit_rules[l[2]] # None
        PROVE  d.api_keys[l[1]].key_hash \in Hashes /\ d.rate_limit_rules[l[2]] \in Limits
    <2>1. l[1] \in Keys /\ l[2] \in Policies
      BY <1>1 DEF Tables
    <2>2. d.api_keys[l[1]] # None
      BY <1>1, Zenon DEF References
    <2> QED BY <1>1, <1>2, <1>6, <2>1, <2>2 DEF Tables
  <1>7. LimitEntries(d) \subseteq {"limit"} \X Hashes \X Limits
    BY <1>6 DEF LimitEntries
  <1> QED BY <1>3, <1>5, <1>7

\* Of the rows that overwrite each other only such rows stay, and one of each
\* hash does.
LEMMA OneRowStays ==
    ASSUME NEW rows, NEW S \in LastRowWins(rows)
    PROVE  S \subseteq rows /\ \A row \in rows : \E l \in S : l[2] = row[2]
PROOF
  <1>1. ASSUME NEW row \in rows PROVE \E l \in S : l[2] = row[2]
    <2>1. PICK last \in S : {r \in S : r[2] = row[2]} = {last}
      BY DEF LastRowWins
    <2>2. last \in {r \in S : r[2] = row[2]}
      BY <2>1
    <2> QED BY <2>2
  <1> QED BY <1>1 DEF LastRowWins
-----------------------------------------------------------------------------
\* What a load in progress has read so far.
KeysRead == thread \in {"keys loaded", "routes loaded", "all loaded"}

RoutesRead == thread \in {"routes loaded", "all loaded"}

LimitsRead == thread = "all loaded"

\* A load that began after the tables changed their mind about an entry, as it
\* did when a refresh has been completed since, read what they say now.
LoadIsRecent ==
    \A e \in Entries : settled[e] >= 1 =>
        /\ e[1] = "key" /\ KeysRead     => (e \in fresh.key_hashes <=> e \in KeyEntries(db))
        /\ e[1] = "route" /\ RoutesRead => (e \in fresh.model_routes <=> e \in RouteEntries(db))
        /\ e[1] = "limit" /\ LimitsRead =>
              /\ e \in fresh.rate_limits => e \in LimitEntries(db)
              /\ e \in LimitEntries(db) => Limited(fresh, e[2])

IInv == TablesInv /\ TypeOK /\ LoadIsRecent /\ StalenessBound

LEMMA InitIInv == Init => IInv
PROOF
  <1> SUFFICES ASSUME Init PROVE IInv
    OBVIOUS
  <1>1. TablesInv
    BY InitTables DEF Init
  <1>2. Empty \in CacheType
    BY DEF Empty, CacheType
  <1>3. TypeOK
    BY <1>1, <1>2, MaxWritesAssumption DEF Init, TypeOK, TablesInv, new_cache
  <1>4. LoadIsRecent /\ StalenessBound
    BY DEF Init, LoadIsRecent, StalenessBound
  <1> QED BY <1>1, <1>3, <1>4, Zenon DEF IInv

\* A change of the tables makes the entries it concerns unsettled.
LEMMA CommitKeeps == IInv /\ Commit => IInv'
PROOF
  <1> SUFFICES ASSUME IInv, Commit PROVE IInv'
    OBVIOUS
  <1>1. TablesInv'
    BY AdminOpKeeps DEF IInv, Commit
  <1>2. cache' = cache /\ fresh' = fresh /\ thread' = thread
    BY DEF Commit
  <1>3. settled' = [e \in Entries |-> IF e \in Implied(db) <=> e \in Implied(db') THEN settled[e] ELSE 0]
    BY DEF Commit
  <1>4. TypeOK'
    <2>1. ControlTypeOK'
      BY <1>1 DEF TablesInv
    <2>2. settled' \in [Entries -> 0..2]
      <3>1. settled \in [Entries -> 0..2]
        BY DEF IInv, TypeOK
      <3> QED BY <1>3, <3>1
    <2>3. writes' \in 0..MaxWrites
      <3>1. writes \in 0..MaxWrites
        BY DEF IInv, TypeOK
      <3>2. writes < MaxWrites /\ writes' = writes + 1
        BY DEF Commit
      <3> QED BY <3>1, <3>2, MaxWritesAssumption
    <2> QED BY <1>2, <2>1, <2>2, <2>3 DEF IInv, TypeOK, CacheType
  <1>5. ASSUME NEW e \in Entries, settled'[e] >= 1
        PROVE  /\ settled[e] = settled'[e]
               /\ e[1] = "key"   => (e \in KeyEntries(db) <=> e \in KeyEntries(db'))
               /\ e[1] = "route" => (e \in RouteEntries(db) <=> e \in RouteEntries(db'))
               /\ e[1] = "limit" => (e \in LimitEntries(db) <=> e \in LimitEntries(db'))
    <2>1. (e \in Implied(db) <=> e \in Implied(db')) /\ settled[e] = settled'[e]
      BY <1>3, <1>5
    <2> QED BY <2>1, ImpliedByKind, Zenon
  <1>6. LoadIsRecent'
    <2> SUFFICES ASSUME NEW e \in Entries, settled'[e] >= 1
                 PROVE  /\ e[1] = "key" /\ KeysRead'     => (e \in fresh'.key_hashes <=> e \in KeyEntries(db'))
                        /\ e[1] = "route" /\ RoutesRead' => (e \in fresh'.model_routes <=> e \in RouteEntries(db'))
                        /\ e[1] = "limit" /\ LimitsRead' => 
                              /\ e \in fresh'.rate_limits => e \in LimitEntries(db')
                              /\ e \in LimitEntries(db') => Limited(fresh, e[2])'
      BY DEF LoadIsRecent
    <2>1. (KeysRead' <=> KeysRead) /\ (RoutesRead' <=> RoutesRead) /\ (LimitsRead' <=> LimitsRead)
      BY <1>2 DEF KeysRead, RoutesRead, LimitsRead
    <2>2. settled[e] >= 1
      BY <1>5
    <2>3. Limited(fresh, e[2])' <=> Limited(fresh, e[2])
      BY <1>2 DEF Limited
    <2> QED BY <1>2, <1>5, <2>1, <2>2, <2>3, Zenon DEF IInv, LoadIsRecent
  <1>7. StalenessBound'
    <2> SUFFICES ASSUME NEW e \in Entries, settled'[e] = 2
                 PROVE  /\ e[1] = "key"   => (e \in cache'.key_hashes <=> e \in KeyEntries(db'))
                        /\ e[1] = "route" => (e \in cache'.model_routes <=> e \in RouteEntries(db'))
                        /\ e[1] = "limit" => 
                              /\ e \in cache'.rate_limits => e \in LimitEntries(db')
                              /\ e \in LimitEntries(db') => Limited(cache, e[2])'
      BY DEF StalenessBound
    <2>1. settled'[e] >= 1
      OBVIOUS
    <2>2. settled[e] = 2
      BY <1>5, <2>1
    <2>3. Limited(cache, e[2])' <=> Limited(cache, e[2])
      BY <1>2 DEF Limited
    <2> QED BY <1>2, <1>5, <2>1, <2>2, <2>3, Zenon DEF IInv, StalenessBound
  <1> QED BY <1>1, <1>4, <1>6, <1>7, Zenon DEF IInv

\* What a query has read agrees with the tables on every entry.
LEMMA LoadKeeps ==
    ASSUME IInv, load_key_hashes \/ load_model_routes \/ load_rate_limits
    PROVE  IInv'
PROOF
  <1>1. UNCHANGED <<db, used, cache, settled, writes>>
    BY DEF load_key_hashes, load_model_routes, load_rate_limits
  <1>2. TablesInv'
    BY <1>1, TablesKept DEF IInv, vars, Next, Refresh
  <1>3. Sound(db) /\ fresh \in CacheType /\ LoadIsRecent
    BY DEF IInv, TablesInv, TypeOK
  <1>4. /\ fresh' \in CacheType
        /\ thread' \in {"keys loaded", "routes loaded", "all loaded"}
        /\ LoadIsRecent'
    <2>1. CASE load_key_hashes
      <3>1. thread' = "keys loaded" /\ fresh' = [Empty EXCEPT !.key_hashes = KeyEntries(db)]
        BY <2>1 DEF load_key_hashes
      <3>2. fresh'.key_hashes = KeyEntries(db) /\ fresh'.model_routes = {} /\ fresh'.rate_limits = {}
        BY <3>1 DEF Empty
      <3>3. fresh' = [key_hashes |-> KeyEntries(db), model_routes |-> {}, rate_limits |-> {}]
        BY <3>1 DEF Empty
      <3>4. fresh' \in CacheType
        BY <1>3, <3>3, QueriesAreTyped DEF CacheType
      <3>5. LoadIsRecent'
        BY <1>1, <3>1, <3>2 DEF LoadIsRecent, RoutesRead, LimitsRead
      <3> QED BY <3>1, <3>4, <3>5
    <2>2. CASE load_model_routes
      <3>1. /\ thread = "keys loaded" /\ thread' = "routes loaded"
            /\ fresh' = [fresh EXCEPT !.model_routes = RouteEntries(db)]
        BY <2>2 DEF load_model_routes
      <3>2. /\ fresh'.key_hashes = fresh.key_hashes
            /\ fresh'.model_routes = RouteEntries(db)
            /\ fresh'.rate_limits = fresh.rate_limits
        BY <1>3, <3>1, Zenon DEF CacheType
      <3>3. RouteEntries(db) \in SUBSET ({"route"} \X Names \X ProviderModels \X Endpoints)
        BY <1>3, QueriesAreTyped
      <3>4. fresh' \in CacheType
        BY <1>3, <3>1, <3>3, Zenon DEF CacheType
      <3>5. LoadIsRecent'
        <4>1. KeysRead
          BY <3>1 DEF KeysRead
        <4>2. ~LimitsRead'
          BY <3>1 DEF LimitsRead
        <4> QED BY <1>1, <1>3, <3>2, <4>1, <4>2, Zenon DEF LoadIsRecent
      <3> QED BY <3>1, <3>4, <3>5
    <2>3. CASE load_rate_limits
      <3>1. thread = "routes loaded" /\ thread' = "all loaded"
        BY <2>3 DEF load_rate_limits
      <3>2. PICK limits \in LastRowWins(LimitEntries(db)) : fresh' = [fresh EXCEPT !.rate_limits = limits]
        BY <2>3 DEF load_rate_limits
      <3>3. /\ fresh'.key_hashes = fresh.key_hashes
            /\ fresh'.model_routes = fresh.model_routes
            /\ fresh'.rate_limits = limits
        BY <1>3, <3>2, Zenon DEF CacheType
      <3>4. /\ limits \subseteq LimitEntries(db)
            /\ \A e \in LimitEntries(db) : \E l \in limits : l[2] = e[2]
        BY OneRowStays, Zenon
      <3>5. limits \in SUBSET ({"limit"} \X Hashes \X Limits)
        BY <1>3, <3>4, QueriesAreTyped
      <3>6. fresh' \in CacheType
        BY <1>3, <3>2, <3>5, Zenon DEF CacheType
      <3>7. LoadIsRecent'
        <4>1. KeysRead /\ RoutesRead
          BY <3>1 DEF KeysRead, RoutesRead
        <4>2. /\ \A e \in limits : e \in LimitEntries(db)
              /\ \A e \in LimitEntries(db) : Limited(fresh, e[2])'
          BY <3>3, <3>4 DEF Limited
        <4> QED BY <1>1, <1>3, <3>3, <4>1, <4>2, Zenon DEF LoadIsRecent
      <3> QED BY <3>1, <3>6, <3>7
    <2> QED BY <2>1, <2>2, <2>3
  <1>5. TypeOK'
    BY <1>1, <1>4 DEF IInv, TypeOK, ControlTypeOK, Tables, CacheType, Entries
  <1>6. StalenessBound'
    BY <1>1, Zenon DEF IInv, StalenessBound, Limited
  <1> QED BY <1>2, <1>4, <1>5, <1>6, Zenon DEF IInv

\* Whatever stops a load leaves nothing read.
LEMMA RestartKeeps == IInv /\ (Connect \/ QueryFails) => IInv'
PROOF
  <1> SUFFICES ASSUME IInv, Connect \/ QueryFails PROVE IInv'
    OBVIOUS
  <1>1. UNCHANGED <<db, used, cache, settled, writes>> /\ thread' = "idle"
    BY DEF Connect, QueryFails
  <1>2. fresh' \in {fresh, Empty} /\ Empty \in CacheType
    BY DEF Connect, QueryFails, Empty, CacheType
  <1>3. TablesInv'
    BY <1>1, TablesKept DEF IInv, vars, Next, Refresh
  <1>4. TypeOK'
    BY <1>1, <1>2 DEF IInv, TypeOK, ControlTypeOK, Tables, Entries
  <1>5. LoadIsRecent'
    BY <1>1 DEF LoadIsRecent, KeysRead, RoutesRead, LimitsRead
  <1>6. StalenessBound'
    BY <1>1, Zenon DEF IInv, StalenessBound, Limited
  <1> QED BY <1>3, <1>4, <1>5, <1>6, Zenon DEF IInv

\* A completed refresh settles what its queries have read.
LEMMA ReplaceKeeps == IInv /\ Replace => IInv'
PROOF
  <1> SUFFICES ASSUME IInv, Replace PROVE IInv'
    OBVIOUS
  <1>1. /\ UNCHANGED <<db, used, writes>>
        /\ thread = "all loaded" /\ thread' = "idle"
        /\ cache' = fresh /\ fresh' = Empty
        /\ settled' = [e \in Entries |-> IF settled[e] = 2 THEN 2 ELSE settled[e] + 1]
    BY DEF Replace, AfterRefresh
  <1>2. TablesInv'
    BY <1>1, TablesKept DEF IInv, vars, Next, Refresh
  <1>3. TypeOK'
    <2>1. settled' \in [Entries -> 0..2]
      <3>1. settled \in [Entries -> 0..2]
        BY DEF IInv, TypeOK
      <3>2. \A n \in 0..2 : (IF n = 2 THEN 2 ELSE n + 1) \in 0..2
        OBVIOUS
      <3>3. \A e \in Entries : (IF settled[e] = 2 THEN 2 ELSE settled[e] + 1) \in 0..2
        BY <3>1, <3>2, Zenon
      <3> QED BY <1>1, <3>3
    <2>2. Empty \in CacheType
      BY DEF Empty, CacheType
    <2>3. cache' \in CacheType /\ fresh' \in CacheType
      BY <1>1, <2>2 DEF IInv, TypeOK
    <2>4. ControlTypeOK'
      BY <1>2 DEF TablesInv
    <2> QED BY <1>1, <2>1, <2>3, <2>4 DEF IInv, TypeOK, CacheType
  <1>4. LoadIsRecent'
    BY <1>1 DEF LoadIsRecent, KeysRead, RoutesRead, LimitsRead
  <1>5. StalenessBound'
    <2> SUFFICES ASSUME NEW e \in Entries, settled'[e] = 2
                 PROVE  /\ e[1] = "key"   => (e \in fresh.key_hashes <=> e \in KeyEntries(db))
                        /\ e[1] = "route" => (e \in fresh.model_routes <=> e \in RouteEntries(db))
                        /\ e[1] = "limit" =>
                              /\ e \in fresh.rate_limits => e \in LimitEntries(db)
                              /\ e \in LimitEntries(db) => Limited(fresh, e[2])
      BY <1>1 DEF StalenessBound, Limited
    <2>1. settled[e] \in 0..2
      BY DEF IInv, TypeOK
    <2>2. settled[e] >= 1
      <3>1. settled'[e] = IF settled[e] = 2 THEN 2 ELSE settled[e] + 1
        BY <1>1
      <3> QED BY <2>1, <3>1
    <2>3. KeysRead /\ RoutesRead /\ LimitsRead
      BY <1>1 DEF KeysRead, RoutesRead, LimitsRead
    <2> QED BY <2>2, <2>3, Zenon DEF IInv, LoadIsRecent
  <1> QED BY <1>2, <1>3, <1>4, <1>5, Zenon DEF IInv

LEMMA NextIInv == IInv /\ [Next]_vars => IInv'
PROOF
  <1>1. IInv /\ UNCHANGED vars => IInv'
    <2> SUFFICES ASSUME IInv, UNCHANGED vars PROVE IInv'
      OBVIOUS
    <2>1. TablesInv'
      BY TablesKept DEF IInv
    <2>2. TypeOK'
      BY <2>1 DEF vars, IInv, TypeOK, TablesInv, CacheType
    <2>3. LoadIsRecent' /\ StalenessBound'
      BY DEF vars, IInv, LoadIsRecent, StalenessBound, Limited, KeysRead, RoutesRead, LimitsRead
    <2> QED BY <2>1, <2>2, <2>3, Zenon DEF IInv
  <1> QED BY <1>1, CommitKeeps, LoadKeeps, RestartKeeps, ReplaceKeeps, Zenon DEF Next, Refresh

LEMMA Invariance == Spec => []IInv
PROOF
  BY InitIInv, NextIInv, PTL DEF Spec

\* The tables, the cache and the load in progress stay well typed.
THEOREM TypeCorrect == Spec => []TypeOK
PROOF
  <1>1. IInv => TypeOK
    BY DEF IInv
  <1> QED BY <1>1, Invariance, PTL

\* Two completed refreshes after the tables last changed their mind about an
\* entry, the cache agrees with them (load_full_cache, start_db_thread),
\* whatever was committed between the queries and whichever of them failed.
THEOREM StalenessIsBounded == Spec => []StalenessBound
PROOF
  <1>1. IInv => StalenessBound
    BY DEF IInv
  <1> QED BY <1>1, Invariance, PTL
=============================================================================
