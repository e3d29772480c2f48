-------------------------- MODULE AdminConsoleProofs --------------------------
(***************************************************************************)
(* Proofs about AdminConsole, for any tables, ids and numbers of requests:  *)
(* what the console shows and edits belongs together through navigation,    *)
(* torn fetches and late answers, and the transaction that updates a policy *)
(* implements PolicyDocuments.  First the tables under every operation,     *)
(* then the pages, then the requests being served, then the invariant and   *)
(* what follows from it.                                                    *)
(***************************************************************************)
EXTENDS AdminConsole, SequenceTheorems, TLAPS

\* The tables are well typed and keep their foreign keys.
Sound(d) == d \in Tables /\ References(d)

\* The parts of the tables that make the documents of the policies.
SamePolicies(d, e) ==
    /\ e.mapping_policies = d.mapping_policies
    /\ e.rate_limit_rules = d.rate_limit_rules
    /\ e.mapping_policy_routes = d.mapping_policy_routes

\* What an operation of the admin API may do to policies and their targets:
\* nothing, make one, delete some, or delete some targets.
Keeps(d, e) == SamePolicies(d, e) /\ d.provider_models \subseteq e.provider_models

Makes(d, e, p, policy, rule, targets) ==
    /\ d.mapping_policies[p] = None
    /\ policy \in Policy /\ rule \in Limits \cup {None} /\ targets \in SUBSET ProviderModels
    /\ e.mapping_policies = [d.mapping_policies EXCEPT ![p] = policy]
    /\ e.rate_limit_rules = [d.rate_limit_rules EXCEPT ![p] = rule]
    /\ e.mapping_policy_routes = d.mapping_policy_routes \cup ({p} \X targets)
    /\ e.provider_models = d.provider_models

Removes(d, e, gone) ==
    /\ e.mapping_policies = Nulled(d.mapping_policies, gone)
    /\ e.rate_limit_rules = Nulled(d.rate_limit_rules, gone)
    /\ e.mapping_policy_routes = {r \in d.mapping_policy_routes : r[1] \notin gone}
    /\ e.provider_models = d.provider_models

Drops(d, e, gone) ==
    /\ e.mapping_policies = d.mapping_policies
    /\ e.rate_limit_rules = d.rate_limit_rules
    /\ e.mapping_policy_routes = {r \in d.mapping_policy_routes : r[2] \notin gone}
    /\ e.provider_models = d.provider_models \ gone

\* The tables with a policy written.
Written(d, p, policy, rule, targets, kept) ==
    [d EXCEPT !.mapping_policies[p] = policy,
              !.rate_limit_rules[p] = rule,
              !.mapping_policy_routes = kept \cup ({p} \X targets)]

IsWritten(d, e, p, policy, rule, targets, kept) ==
    /\ e.mapping_policies = [d.mapping_policies EXCEPT ![p] = policy]
    /\ e.rate_limit_rules = [d.rate_limit_rules EXCEPT ![p] = rule]
    /\ e.mapping_policy_routes = kept \cup ({p} \X targets)
    /\ e.provider_models = d.provider_models
-----------------------------------------------------------------------------
\* A model gets a name.
LEMMA SetName ==
    ASSUME NEW d, Sound(d), NEW m \in Models, NEW name \in Names,
           NEW e, e = [d EXCEPT !.epichust_models[m] = name]
    PROVE  Sound(e) /\ Keeps(d, e)
PROOF
  <1>1. d \in Tables
    BY DEF Sound
  <1>2. /\ e.epichust_models = [d.epichust_models EXCEPT ![m] = name]
        /\ e.providers = d.providers
        /\ e.provider_models = d.provider_models
        /\ e.mapping_policies = d.mapping_policies
        /\ e.mapping_policy_routes = d.mapping_policy_routes
        /\ e.rate_limit_rules = d.rate_limit_rules
        /\ e.api_keys = d.api_keys
        /\ e.api_key_mapping_policies = d.api_key_mapping_policies
    BY <1>1 DEF Tables
  <1>3. e \in Tables
    BY <1>1 DEF Tables
  <1>4. References(e)
    BY <1>1, <1>2, ControlPlaneAssumption DEF References, Sound, Tables, Policy
  <1> QED BY <1>2, <1>3, <1>4 DEF Sound, Keeps, SamePolicies

\* A provider gets an endpoint.
LEMMA SetEndpoint ==
    ASSUME NEW d, Sound(d), NEW p \in Providers, NEW endpoint \in Endpoints,
           NEW e, e = [d EXCEPT !.providers[p] = endpoint]
    PROVE  Sound(e) /\ Keeps(d, e)
PROOF
  <1>1. d \in Tables
    BY DEF Sound
  <1>2. /\ e.epichust_models = d.epichust_models
        /\ e.providers = [d.providers EXCEPT ![p] = endpoint]
        /\ e.provider_models = d.provider_models
        /\ e.mapping_policies = d.mapping_policies
        /\ e.mapping_policy_routes = d.mapping_policy_routes
        /\ e.rate_limit_rules = d.rate_limit_rules
        /\ e.api_keys = d.api_keys
        /\ e.api_key_mapping_policies = d.api_key_mapping_policies
    BY <1>1 DEF Tables
  <1>3. e \in Tables
    BY <1>1 DEF Tables
  <1>4. References(e)
    BY <1>1, <1>2, ControlPlaneAssumption DEF References, Sound, Tables, Policy
  <1> QED BY <1>2, <1>3, <1>4 DEF Sound, Keeps, SamePolicies

\* A provider that exists gets a model.
LEMMA AddProviderModel ==
    ASSUME NEW d, Sound(d), NEW pm \in ProviderModels,
           d.providers[ProviderOf[pm]] # None,
           NEW e, e = [d EXCEPT !.provider_models = @ \cup {pm}]
    PROVE  Sound(e) /\ Keeps(d, e)
PROOF
  <1>1. d \in Tables
    BY DEF Sound
  <1>2. /\ e.epichust_models = d.epichust_models
        /\ e.providers = d.providers
        /\ e.provider_models = d.provider_models \cup {pm}
        /\ e.mapping_policies = d.mapping_policies
        /\ e.mapping_policy_routes = d.mapping_policy_routes
        /\ e.rate_limit_rules = d.rate_limit_rules
        /\ e.api_keys = d.api_keys
        /\ e.api_key_mapping_policies = d.api_key_mapping_policies
    BY <1>1 DEF Tables
  <1>3. e \in Tables
    BY <1>1 DEF Tables
  <1>4. References(e)
    BY <1>1, <1>2, Zenon DEF References, Sound
  <1> QED BY <1>2, <1>3, <1>4 DEF Sound, Keeps, SamePolicies

\* A key is written, or written anew.
LEMMA SetKey ==
    ASSUME NEW d, Sound(d), NEW k \in Keys, NEW key \in ApiKey,
           NEW e, e = [d EXCEPT !.api_keys[k] = key]
    PROVE  Sound(e) /\ Keeps(d, e)
PROOF
  <1>1. d \in Tables
    BY DEF Sound
  <1>2. /\ e.epichust_models = d.epichust_models
        /\ e.providers = d.providers
        /\ e.provider_models = d.provider_models
        /\ e.mapping_policies = d.mapping_policies
        /\ e.mapping_policy_routes = d.mapping_policy_routes
        /\ e.rate_limit_rules = d.rate_limit_rules
        /\ e.api_keys = [d.api_keys EXCEPT ![k] = key]
        /\ e.api_key_mapping_policies = d.api_key_mapping_policies
    BY <1>1 DEF Tables
  <1>3. e \in Tables
    BY <1>1 DEF Tables
  <1>4. References(e)
    BY <1>1, <1>2, ControlPlaneAssumption DEF References, Sound, Tables
  <1> QED BY <1>2, <1>3, <1>4 DEF Sound, Keeps, SamePolicies

\* A key is deleted with what is attached to it.
LEMMA DropKey ==
    ASSUME NEW d, Sound(d), NEW k \in Keys,
           NEW e, e = [d EXCEPT !.api_keys[k] = None,
                                !.api_key_mapping_policies = {l \in @ : l[1] # k}]
    PROVE  Sound(e) /\ Keeps(d, e)
PROOF
  <1>1. d \in Tables
    BY DEF Sound
  <1>2. /\ e.epichust_models = d.epichust_models
        /\ e.providers = d.providers
        /\ e.provider_models = d.provider_models
        /\ e.mapping_policies = d.mapping_policies
        /\ e.mapping_policy_routes = d.mapping_policy_routes
        /\ e.rate_limit_rules = d.rate_limit_rules
        /\ e.api_keys = [d.api_keys EXCEPT ![k] = None]
        /\ e.api_key_mapping_policies = {l \in d.api_key_mapping_policies : l[1] # k}
    BY <1>1 DEF Tables
  <1>3. e \in Tables
    BY <1>1 DEF Tables
  <1>4. References(e)
    BY <1>1, <1>2 DEF References, Sound, Tables
  <1> QED BY <1>2, <1>3, <1>4 DEF Sound, Keeps, SamePolicies

\* A policy is attached to a key, or detached.
LEMMA SetLinks ==
    ASSUME NEW d, Sound(d), NEW links \in SUBSET (Keys \X Policies),
           \A l \in links : d.api_keys[l[1]] # None /\ d.mapping_policies[l[2]] # None,
           NEW e, e = [d EXCEPT !.api_key_mapping_policies = links]
    PROVE  Sound(e) /\ Keeps(d, e)
PROOF
  <1>1. d \in Tables
    BY DEF Sound
  <1>2. /\ e.epichust_models = d.epichust_models
        /\ e.providers = d.providers
        /\ e.provider_models = d.provider_models
        /\ e.mapping_policies = d.mapping_policies
        /\ e.mapping_policy_routes = d.mapping_policy_routes
        /\ e.rate_limit_rules = d.rate_limit_rules
        /\ e.api_keys = d.api_keys
        /\ e.api_key_mapping_policies = links
    BY <1>1 DEF Tables
  <1>3. e \in Tables
    BY <1>1 DEF Tables
  <1>4. References(e)
    BY <1>1, <1>2 DEF References, Sound, Tables
  <1> QED BY <1>2, <1>3, <1>4 DEF Sound, Keeps, SamePolicies
-----------------------------------------------------------------------------
\* Policies are deleted with what depends on them.
LEMMA DeletePolicies ==
    ASSUME NEW d, Sound(d), NEW gone \in SUBSET Policies,
           NEW e, e = WithoutPolicies(d, gone)
    PROVE  Sound(e) /\ Removes(d, e, gone) /\ e.epichust_models = d.epichust_models
PROOF
  <1>1. d \in Tables
    BY DEF Sound
  <1>2. /\ Nulled(d.mapping_policies, gone) \in [Policies -> Policy \cup {None}]
        /\ Nulled(d.rate_limit_rules, gone) \in [Policies -> Limits \cup {None}]
    BY <1>1 DEF Tables, Nulled
  <1>3. /\ e.epichust_models = d.epichust_models
        /\ e.providers = d.providers
        /\ e.provider_models = d.provider_models
        /\ e.mapping_policies = Nulled(d.mapping_policies, gone)
        /\ e.mapping_policy_routes = {r \in d.mapping_policy_routes : r[1] \notin gone}
        /\ e.rate_limit_rules = Nulled(d.rate_limit_rules, gone)
        /\ e.api_keys = d.api_keys
        /\ e.api_key_mapping_policies = {l \in d.api_key_mapping_policies : l[2] \notin gone}
    BY <1>1 DEF Tables, WithoutPolicies
  <1>4. e \in Tables
    BY <1>1, <1>2, ZenonT(60) DEF Tables, WithoutPolicies
  <1>5. References(e)
    BY <1>1, <1>3 DEF References, Nulled, Sound, Tables, Policy
  <1> QED BY <1>3, <1>4, <1>5 DEF Sound, Removes

\* Provider models are deleted with the routes to them.
LEMMA DeleteProviderModels ==
    ASSUME NEW d, Sound(d), NEW gone,
           NEW e, e = WithoutProviderModels(d, gone)
    PROVE  Sound(e) /\ Drops(d, e, gone) /\ e.providers = d.providers
PROOF
  <1>1. d \in Tables
    BY DEF Sound
  <1>2. /\ e.epichust_models = d.epichust_models
        /\ e.providers = d.providers
        /\ e.provider_models = d.provider_models \ gone
        /\ e.mapping_policies = d.mapping_policies
        /\ e.mapping_policy_routes = {r \in d.mapping_policy_routes : r[2] \notin gone}
        /\ e.rate_limit_rules = d.rate_limit_rules
        /\ e.api_keys = d.api_keys
        /\ e.api_key_mapping_policies = d.api_key_mapping_policies
    BY <1>1 DEF Tables, WithoutProviderModels
  <1>3. e \in Tables
    BY <1>1, ZenonT(60) DEF Tables, WithoutProviderModels
  <1>4. References(e)
    BY <1>1, <1>2 DEF References, Sound, Tables
  <1> QED BY <1>2, <1>3, <1>4 DEF Sound, Drops

\* A model that no policy is for is deleted.
LEMMA DropModel ==
    ASSUME NEW d, Sound(d), NEW m \in Models,
           \A p \in Policies : d.mapping_policies[p] # None => d.mapping_policies[p].epichust_model # m,
           NEW e, e = [d EXCEPT !.epichust_models[m] = None]
    PROVE  Sound(e) /\ SamePolicies(d, e) /\ e.provider_models = d.provider_models
PROOF
  <1>1. d \in Tables
    BY DEF Sound
  <1>2. /\ e.epichust_models = [d.epichust_models EXCEPT ![m] = None]
        /\ e.providers = d.providers
        /\ e.provider_models = d.provider_models
        /\ e.mapping_policies = d.mapping_policies
        /\ e.mapping_policy_routes = d.mapping_policy_routes
        /\ e.rate_limit_rules = d.rate_limit_rules
        /\ e.api_keys = d.api_keys
        /\ e.api_key_mapping_policies = d.api_key_mapping_policies
    BY <1>1 DEF Tables
  <1>3. e \in Tables
    BY <1>1 DEF Tables
  <1>4. References(e)
    BY <1>1, <1>2 DEF References, Sound, Tables, Policy
  <1> QED BY <1>2, <1>3, <1>4 DEF Sound, SamePolicies

\* A provider without models is deleted.
LEMMA DropProvider ==
    ASSUME NEW d, Sound(d), NEW p \in Providers,
           \A pm \in d.provider_models : ProviderOf[pm] # p,
           NEW e, e = [d EXCEPT !.providers[p] = None]
    PROVE  Sound(e) /\ SamePolicies(d, e) /\ e.provider_models = d.provider_models
PROOF
  <1>1. d \in Tables
    BY DEF Sound
  <1>2. /\ e.epichust_models = d.epichust_models
        /\ e.providers = [d.providers EXCEPT ![p] = None]
        /\ e.provider_models = d.provider_models
        /\ e.mapping_policies = d.mapping_policies
        /\ e.mapping_policy_routes = d.mapping_policy_routes
        /\ e.rate_limit_rules = d.rate_limit_rules
        /\ e.api_keys = d.api_keys
        /\ e.api_key_mapping_policies = d.api_key_mapping_policies
    BY <1>1 DEF Tables
  <1>3. e \in Tables
    BY <1>1 DEF Tables
  <1>4. References(e)
    BY <1>1, <1>2, ControlPlaneAssumption DEF References, Sound, Tables
  <1> QED BY <1>2, <1>3, <1>4 DEF Sound, SamePolicies

\* A policy is written with its rule and its routes, next to kept routes.
LEMMA PutPolicy ==
    ASSUME NEW d, Sound(d), NEW p \in Policies, NEW policy \in Policy,
           d.epichust_models[policy.epichust_model] # None,
           NEW rule \in Limits \cup {None},
           NEW targets \in SUBSET d.provider_models,
           NEW kept \in SUBSET d.mapping_policy_routes,
           NEW e, e = Written(d, p, policy, rule, targets, kept)
    PROVE  Sound(e) /\ IsWritten(d, e, p, policy, rule, targets, kept)
PROOF
  <1>1. d \in Tables
    BY DEF Sound
  <1>2. kept \cup ({p} \X targets) \in SUBSET (Policies \X ProviderModels)
    BY <1>1 DEF Tables
  <1>3. /\ e.epichust_models = d.epichust_models
        /\ e.providers = d.providers
        /\ e.provider_models = d.provider_models
        /\ e.mapping_policies = [d.mapping_policies EXCEPT ![p] = policy]
        /\ e.mapping_policy_routes = kept \cup ({p} \X targets)
        /\ e.rate_limit_rules = [d.rate_limit_rules EXCEPT ![p] = rule]
        /\ e.api_keys = d.api_keys
        /\ e.api_key_mapping_policies = d.api_key_mapping_policies
    BY <1>1, ZenonT(60) DEF Tables, Written
  <1>4. /\ e.mapping_policies \in [Policies -> Policy \cup {None}]
        /\ e.rate_limit_rules \in [Policies -> Limits \cup {None}]
    BY <1>1, <1>3 DEF Tables
  <1>5. e \in Tables
    BY <1>1, <1>2, <1>3, <1>4, ZenonT(60) DEF Tables, Written
  <1>6. References(e)
    <2>1. \A q \in Policies : q # p => /\ e.mapping_policies[q] = d.mapping_policies[q]
                                       /\ e.rate_limit_rules[q] = d.rate_limit_rules[q]
      BY <1>1, <1>3 DEF Tables
    <2>2. e.mapping_policies[p] = policy /\ policy # None
      BY <1>1, <1>3, ControlPlaneAssumption DEF Tables
    <2>3. \A q \in Policies : d.mapping_policies[q] # None => e.mapping_policies[q] # None
      BY <2>1, <2>2, Zenon
    <2>4. \A q \in Policies :
              /\ e.mapping_policies[q] # None =>
                    e.epichust_models[e.mapping_policies[q].epichust_model] # None
              /\ e.rate_limit_rules[q] # None => e.mapping_policies[q] # None
      <3>1. ASSUME NEW q \in Policies, q # p
            PROVE  /\ e.mapping_policies[q] # None =>
                         e.epichust_models[e.mapping_policies[q].epichust_model] # None
                   /\ e.rate_limit_rules[q] # None => e.mapping_policies[q] # None
        <4>1. /\ d.mapping_policies[q] # None =>
                    d.epichust_models[d.mapping_policies[q].epichust_model] # None
              /\ d.rate_limit_rules[q] # None => d.mapping_policies[q] # None
          BY Zenon DEF References, Sound
        <4>2. /\ e.mapping_policies[q] = d.mapping_policies[q]
              /\ e.rate_limit_rules[q] = d.rate_limit_rules[q]
              /\ e.epichust_models = d.epichust_models
          BY <1>3, <2>1, <3>1, Zenon
        <4> QED BY <4>1, <4>2
      <3>2. e.epichust_models[e.mapping_policies[p].epichust_model] # None
        BY <1>3, <2>2, Zenon
      <3> QED BY <2>2, <3>1, <3>2, Zenon
    <2>5. \A r \in kept : e.mapping_policies[r[1]] # None /\ r[2] \in e.provider_models
      BY <1>1, <1>3, <2>3 DEF References, Sound, Tables
    <2>6. \A r \in {p} \X targets : e.mapping_policies[r[1]] # None /\ r[2] \in e.provider_models
      <3>1. \A r \in {p} \X targets : r[1] = p /\ r[2] \in targets
        OBVIOUS
      <3> QED BY <1>3, <2>2, <3>1, Zenon
    <2>7. \A l \in e.api_key_mapping_policies :
              e.api_keys[l[1]] # None /\ e.mapping_policies[l[2]] # None
      BY <1>1, <1>3, <2>3 DEF References, Sound, Tables
    <2>8. \A r \in e.mapping_policy_routes : e.mapping_policies[r[1]] # None /\ r[2] \in e.provider_models
      BY <1>3, <2>5, <2>6, Zenon
    <2>9. \A pm \in e.provider_models : e.providers[ProviderOf[pm]] # None
      BY <1>3, Zenon DEF References, Sound
    <2> QED BY <2>4, <2>7, <2>8, <2>9, Zenon DEF References
  <1>7. IsWritten(d, e, p, policy, rule, targets, kept)
    BY <1>3, Zenon DEF IsWritten
  <1> QED BY <1>5, <1>6, <1>7, Zenon DEF Sound
-----------------------------------------------------------------------------
\* A policy that exists has an id that was generated.
TablesInv ==
    /\ Sound(db)
    /\ used \subseteq Models \cup Providers \cup ProviderModels \cup Policies \cup Keys \cup Hashes
    /\ \A p \in Policies : db.mapping_policies[p] # None => p \in used

TablesMove ==
    \/ Keeps(db, db')
    \/ \E p \in Policies : \E policy, rule, targets :
          Makes(db, db', p, policy, rule, targets) /\ p \in used'
    \/ \E gone \in SUBSET Policies :
          Removes(db, db', gone) /\ \A p \in gone : db.mapping_policies[p] # None /\ ~RowLocked(p)
    \/ \E gone \in SUBSET ProviderModels :
          Drops(db, db', gone) /\ \A pm \in gone : ~TargetShared(pm)

UsedGrows ==
    /\ used \subseteq used'
    /\ used' \subseteq Models \cup Providers \cup ProviderModels \cup Policies \cup Keys \cup Hashes

\* A request with the id and the body it is served with.
Served(op, id, with) ==
    /\ WellFormed(op, id, with)
    /\ op = "create_epichust_model" => id \in Models
    /\ op = "create_provider" => id \in Providers
    /\ op = "create_mapping_policy" => id \in Policies \ used
    /\ op = "create_api_key" => id \in Keys
    /\ op \in {"create_api_key", "rotate_api_key"} => with \in Hashes
    /\ op = "provider_available_models" => with \subseteq ProviderModels

LEMMA ServedAsAsked ==
    ASSUME NEW call, WellFormed(call.op, call.id, call.with),
           NEW id \in IdsFor(call), NEW with \in BodiesFor(call)
    PROVE  Served(call.op, id, with)
PROOF
  <1>1. CASE call.op \in {"create_epichust_model", "create_provider", "create_mapping_policy"}
    BY <1>1 DEF Served, WellFormed, IdsFor, BodiesFor, Fresh
  <1>2. CASE call.op \in {"create_api_key", "rotate_api_key", "provider_available_models"}
    BY <1>2 DEF Served, WellFormed, IdsFor, BodiesFor, Fresh
  <1>3. CASE call.op \notin {"create_epichust_model", "create_provider", "create_mapping_policy",
                             "create_api_key", "rotate_api_key", "provider_available_models"}
    <2>1. id = call.id /\ with = call.with
      BY <1>3 DEF IdsFor, BodiesFor
    <2> QED BY <1>3, <2>1, Zenon DEF Served
  <1> QED BY <1>1, <1>2, <1>3, Zenon

LEMMA ModelsMove ==
    ASSUME TablesInv, NEW op, NEW id, NEW with, Served(op, id, with), OnModels(op, id, with)
    PROVE  Sound(db') /\ TablesMove /\ UsedGrows
PROOF
  <1>1. CASE op = "create_epichust_model" /\ create_epichust_model(id, with)
    <2>1. id \in Models /\ with \in Names
      BY <1>1 DEF Served, WellFormed
    <2>2. db' = [db EXCEPT !.epichust_models[id] = with]
      BY <1>1, Zenon DEF create_epichust_model
    <2>3. UsedGrows
      BY <1>1, <2>1, Zenon DEF create_epichust_model, Generate, UsedGrows, TablesInv
    <2> QED BY <2>1, <2>2, <2>3, SetName, Zenon DEF TablesInv, TablesMove
  <1>2. CASE op = "update_epichust_model" /\ update_epichust_model(id, with)
    <2>1. id \in Models /\ with \in Names
      BY <1>2 DEF Served, WellFormed
    <2>2. db' = [db EXCEPT !.epichust_models[id] = with] /\ UNCHANGED used
      BY <1>2, Zenon DEF update_epichust_model
    <2> QED BY <2>1, <2>2, SetName, Zenon DEF TablesInv, TablesMove, UsedGrows
  <1>3. CASE /\ op = "delete_epichust_model"
             /\ \A p \in Policies : db.mapping_policies[p] # None /\ RowLocked(p) =>
                    db.mapping_policies[p].epichust_model # id
             /\ delete_epichust_model(id)
    <2> DEFINE targeting == {p \in Policies : /\ db.mapping_policies[p] # None
                                              /\ db.mapping_policies[p].epichust_model = id}
               mid == WithoutPolicies(db, targeting)
    <2>1. id \in Models
      BY <1>3 DEF Served, WellFormed
    <2>2. db' = [mid EXCEPT !.epichust_models[id] = None] /\ UNCHANGED used
      BY <1>3, Zenon DEF delete_epichust_model
    <2>3. targeting \in SUBSET Policies /\ Sound(db)
      BY Zenon DEF TablesInv
    <2>4. \A p \in targeting : db.mapping_policies[p] # None /\ ~RowLocked(p)
      BY <1>3, Zenon
    <2>5. Sound(mid) /\ Removes(db, mid, targeting)
      <3> HIDE DEF targeting
      <3> QED BY <2>3, DeletePolicies, Zenon
    <2>6. \A p \in Policies : mid.mapping_policies[p] # None => mid.mapping_policies[p].epichust_model # id
      <3> HIDE DEF mid
      <3>1. mid.mapping_policies = Nulled(db.mapping_policies, targeting)
        BY <2>5, Zenon DEF Removes
      <3>2. \A p \in Policies : mid.mapping_policies[p] = IF p \in targeting THEN None ELSE db.mapping_policies[p]
        BY <2>3, <3>1, Zenon DEF Nulled, Sound, Tables
      <3> QED BY <3>2, Zenon
    <2>7. Sound(db') /\ SamePolicies(mid, db') /\ db'.provider_models = mid.provider_models
      <3> HIDE DEF mid
      <3> QED BY <2>1, <2>2, <2>5, <2>6, DropModel, Zenon
    <2>8. Removes(db, db', targeting)
      <3> HIDE DEF mid, targeting
      <3> QED BY <2>5, <2>7, Zenon DEF Removes, SamePolicies
    <2> HIDE DEF mid, targeting
    <2> QED BY <2>2, <2>3, <2>4, <2>7, <2>8, Zenon DEF TablesInv, TablesMove, UsedGrows
  <1> QED BY <1>1, <1>2, <1>3, Zenon DEF OnModels

LEMMA ProvidersMove ==
    ASSUME TablesInv, NEW op, NEW id, NEW with, Served(op, id, with), OnProviders(op, id, with)
    PROVE  Sound(db') /\ TablesMove /\ UsedGrows
PROOF
  <1>1. CASE op = "create_provider" /\ create_provider(id, with)
    <2>1. id \in Providers /\ with \in Endpoints
      BY <1>1 DEF Served, WellFormed
    <2>2. db' = [db EXCEPT !.providers[id] = with]
      BY <1>1, Zenon DEF create_provider
    <2>3. UsedGrows
      BY <1>1, <2>1, Zenon DEF create_provider, Generate, UsedGrows, TablesInv
    <2> QED BY <2>1, <2>2, <2>3, SetEndpoint, Zenon DEF TablesInv, TablesMove
  <1>2. CASE op = "update_provider" /\ update_provider(id, with)
    <2>1. id \in Providers /\ with \in Endpoints
      BY <1>2 DEF Served, WellFormed
    <2>2. db' = [db EXCEPT !.providers[id] = with] /\ UNCHANGED used
      BY <1>2, Zenon DEF update_provider
    <2> QED BY <2>1, <2>2, SetEndpoint, Zenon DEF TablesInv, TablesMove, UsedGrows
  <1>3. CASE /\ op = "delete_provider"
             /\ \A pm \in ProviderModels : ProviderOf[pm] = id => ~TargetShared(pm)
             /\ delete_provider(id)
    <2> DEFINE gone == {pm \in ProviderModels : ProviderOf[pm] = id}
               mid == WithoutProviderModels(db, gone)
    <2>1. id \in Providers
      BY <1>3 DEF Served, WellFormed
    <2>2. db' = [mid EXCEPT !.providers[id] = None] /\ UNCHANGED used
      BY <1>3, Zenon DEF delete_provider
    <2>3. gone \in SUBSET ProviderModels /\ Sound(db)
      BY Zenon DEF TablesInv
    <2>4. \A pm \in gone : ~TargetShared(pm)
      BY <1>3, Zenon
    <2>5. Sound(mid) /\ Drops(db, mid, gone)
      <3> HIDE DEF gone
      <3> QED BY <2>3, DeleteProviderModels, Zenon
    <2>6. \A pm \in mid.provider_models : ProviderOf[pm] # id
      <3> HIDE DEF mid
      <3>1. mid.provider_models = db.provider_models \ gone /\ db.provider_models \subseteq ProviderModels
        BY <2>3, <2>5, Zenon DEF Drops, Sound, Tables
      <3> QED BY <3>1, Zenon
    <2>7. Sound(db') /\ SamePolicies(mid, db') /\ db'.provider_models = mid.provider_models
      <3> HIDE DEF mid
      <3> QED BY <2>1, <2>2, <2>5, <2>6, DropProvider, Zenon
    <2>8. Drops(db, db', gone)
      <3> HIDE DEF mid, gone
      <3> QED BY <2>5, <2>7, Zenon DEF Drops, SamePolicies
    <2> HIDE DEF mid, gone
    <2> QED BY <2>2, <2>3, <2>4, <2>7, <2>8, Zenon DEF TablesInv, TablesMove, UsedGrows
  <1>4. CASE op = "create_provider_model" /\ create_provider_model(with)
    <2>1. with \in ProviderModels
      BY <1>4 DEF Served, WellFormed
    <2>2. db' = [db EXCEPT !.provider_models = @ \cup {with}] /\ db.providers[ProviderOf[with]] # None
      BY <1>4, Zenon DEF create_provider_model
    <2>3. UsedGrows
      BY <1>4, <2>1, Zenon DEF create_provider_model, Generate, UsedGrows, TablesInv
    <2> QED BY <2>1, <2>2, <2>3, AddProviderModel, Zenon DEF TablesInv, TablesMove
  <1>5. CASE UNCHANGED <<db, used>>
    BY <1>5, Zenon DEF TablesInv, TablesMove, UsedGrows, Keeps, SamePolicies
  <1>6. CASE op = "delete_provider_model" /\ ~TargetShared(id) /\ delete_provider_model(id)
    <2>1. id \in ProviderModels
      BY <1>6 DEF Served, WellFormed
    <2>2. db' = WithoutProviderModels(db, {id}) /\ UNCHANGED used
      BY <1>6, Zenon DEF delete_provider_model
    <2>3. Sound(db') /\ Drops(db, db', {id})
      BY <2>2, DeleteProviderModels, Zenon DEF TablesInv
    <2>4. {id} \in SUBSET ProviderModels /\ \A pm \in {id} : ~TargetShared(pm)
      BY <1>6, <2>1, Zenon
    <2> QED BY <2>2, <2>3, <2>4, Zenon DEF TablesInv, TablesMove, UsedGrows
  <1> QED BY <1>1, <1>2, <1>3, <1>4, <1>5, <1>6, Zenon DEF OnProviders

LEMMA PoliciesMove ==
    ASSUME TablesInv, NEW op, NEW id, NEW with, Served(op, id, with), OnPolicies(op, id, with)
    PROVE  Sound(db') /\ TablesMove /\ UsedGrows
PROOF
  <1>1. CASE /\ op = "create_mapping_policy"
             /\ create_mapping_policy(id, [epichust_model |-> with.epichust_model, enabled |-> with.enabled],
                                      with.rule, with.routes)
    <2> DEFINE policy == [epichust_model |-> with.epichust_model, enabled |-> with.enabled]
    <2>1. /\ id \in Policies \ used
          /\ with.epichust_model \in Models
          /\ [enabled |-> with.enabled, rule |-> with.rule, routes |-> with.routes] \in Documents
      BY <1>1 DEF Served, WellFormed
    <2>2. /\ with.enabled \in BOOLEAN
          /\ with.rule \in Limits \cup {None}
          /\ with.routes \in SUBSET ProviderModels
      BY <2>1 DEF Documents
    <2>3. policy \in Policy
      BY <2>1, <2>2 DEF Policy
    <2>4. policy.epichust_model = with.epichust_model
      OBVIOUS
    <2> HIDE DEF policy
    <2>5. /\ db.epichust_models[policy.epichust_model] # None
          /\ with.routes \subseteq db.provider_models
          /\ used' = used \cup {id}
          /\ db' = [db EXCEPT !.mapping_policies[id] = policy,
                              !.rate_limit_rules[id] = with.rule,
                              !.mapping_policy_routes = @ \cup ({id} \X with.routes)]
      BY <1>1, Zenon DEF create_mapping_policy, Generate, policy
    <2>6. db' = [db EXCEPT !.mapping_policies[id] = policy,
                           !.rate_limit_rules[id] = with.rule,
                           !.mapping_policy_routes = db.mapping_policy_routes \cup ({id} \X with.routes)]
      BY <2>5, Zenon
    <2>7. Sound(db') /\ IsWritten(db, db', id, policy, with.rule, with.routes, db.mapping_policy_routes)
      <3>1. /\ with.routes \in SUBSET db.provider_models
            /\ db.mapping_policy_routes \in SUBSET db.mapping_policy_routes
            /\ Sound(db) /\ id \in Policies
        BY <2>1, <2>5, Zenon DEF TablesInv
      <3>2. db' = Written(db, id, policy, with.rule, with.routes, db.mapping_policy_routes)
        BY <2>6, Zenon DEF Written
      <3> QED BY <2>2, <2>3, <2>5, <3>1, <3>2, PutPolicy, Zenon
    <2>8. db.mapping_policies[id] = None
      BY <2>1, Zenon DEF TablesInv
    <2>9. Makes(db, db', id, policy, with.rule, with.routes)
      BY <2>2, <2>3, <2>7, <2>8, Zenon DEF Makes, IsWritten
    <2>10. UsedGrows /\ id \in used' /\ id \in Policies
      BY <2>1, <2>5, Zenon DEF UsedGrows, TablesInv
    <2> QED BY <2>7, <2>9, <2>10, Zenon DEF TablesMove
  <1>2. CASE op = "delete_mapping_policy" /\ ~RowLocked(id) /\ delete_mapping_policy(id)
    <2>1. id \in Policies
      BY <1>2 DEF Served, WellFormed
    <2>2. db' = WithoutPolicies(db, {id}) /\ UNCHANGED used /\ db.mapping_policies[id] # None
      BY <1>2, Zenon DEF delete_mapping_policy
    <2>3. {id} \in SUBSET Policies
      BY <2>1, Zenon
    <2>4. Sound(db') /\ Removes(db, db', {id})
      BY <2>2, <2>3, DeletePolicies, Zenon DEF TablesInv
    <2>5. \A p \in {id} : db.mapping_policies[p] # None /\ ~RowLocked(p)
      BY <1>2, <2>2, Zenon
    <2> QED BY <2>2, <2>3, <2>4, <2>5, Zenon DEF TablesInv, TablesMove, UsedGrows
  <1> QED BY <1>1, <1>2, Zenon DEF OnPolicies

LEMMA KeysMove ==
    ASSUME TablesInv, NEW op, NEW id, NEW with, Served(op, id, with), OnKeys(op, id, with)
    PROVE  Sound(db') /\ TablesMove /\ UsedGrows
PROOF
  <1>0. Sound(db) /\ db \in Tables /\ References(db)
    BY DEF TablesInv, Sound
  <1>1. CASE op = "create_api_key" /\ create_api_key(id, with)
    <2>1. id \in Keys /\ with \in Hashes
      BY <1>1 DEF Served
    <2>2. db' = [db EXCEPT !.api_keys[id] = [key_hash |-> with, enabled |-> TRUE]]
      BY <1>1, Zenon DEF create_api_key
    <2>3. [key_hash |-> with, enabled |-> TRUE] \in ApiKey
      BY <2>1 DEF ApiKey
    <2>4. UsedGrows
      BY <1>1, <2>1, Zenon DEF create_api_key, Generate, UsedGrows, TablesInv
    <2> QED BY <1>0, <2>1, <2>2, <2>3, <2>4, SetKey, Zenon DEF TablesMove
  <1>2. CASE op = "update_api_key" /\ update_api_key(id, with)
    <2>1. id \in Keys /\ with \in BOOLEAN
      BY <1>2 DEF Served, WellFormed
    <2>2. db' = [db EXCEPT !.api_keys[id].enabled = with] /\ UNCHANGED used /\ db.api_keys[id] # None
      BY <1>2, Zenon DEF update_api_key
    <2>3. [db.api_keys[id] EXCEPT !.enabled = with] \in ApiKey
      <3>1. db.api_keys[id] \in ApiKey
        BY <1>0, <2>1, <2>2 DEF Tables
      <3> QED BY <2>1, <3>1 DEF ApiKey
    <2>4. db' = [db EXCEPT !.api_keys[id] = [db.api_keys[id] EXCEPT !.enabled = with]]
      BY <2>2, Zenon
    <2> QED BY <1>0, <2>1, <2>2, <2>3, <2>4, SetKey, Zenon DEF TablesInv, TablesMove, UsedGrows
  <1>3. CASE op = "rotate_api_key" /\ rotate_api_key(id, with)
    <2>1. id \in Keys /\ with \in Hashes
      BY <1>3 DEF Served, WellFormed
    <2>2. db' = [db EXCEPT !.api_keys[id].key_hash = with] /\ db.api_keys[id] # None
      BY <1>3, Zenon DEF rotate_api_key
    <2>3. [db.api_keys[id] EXCEPT !.key_hash = with] \in ApiKey
      <3>1. db.api_keys[id] \in ApiKey
        BY <1>0, <2>1, <2>2 DEF Tables
      <3> QED BY <2>1, <3>1 DEF ApiKey
    <2>4. db' = [db EXCEPT !.api_keys[id] = [db.api_keys[id] EXCEPT !.key_hash = with]]
      BY <2>2, Zenon
    <2>5. UsedGrows
      BY <1>3, <2>1, Zenon DEF rotate_api_key, Generate, UsedGrows, TablesInv
    <2> QED BY <1>0, <2>1, <2>3, <2>4, <2>5, SetKey, Zenon DEF TablesMove
  <1>4. CASE op = "delete_api_key" /\ delete_api_key(id)
    <2>1. id \in Keys
      BY <1>4 DEF Served, WellFormed
    <2>2. /\ db' = [db EXCEPT !.api_keys[id] = None,
                              !.api_key_mapping_policies = {l \in @ : l[1] # id}]
          /\ UNCHANGED used
      BY <1>4, Zenon DEF delete_api_key
    <2> QED BY <1>0, <2>1, <2>2, DropKey, Zenon DEF TablesInv, TablesMove, UsedGrows
  <1>5. CASE op = "attach_api_key_mapping_policy" /\ attach_api_key_mapping_policy(id, with)
    <2> DEFINE links == db.api_key_mapping_policies \cup {<<id, with>>}
    <2>1. id \in Keys /\ with \in Policies
      BY <1>5 DEF Served, WellFormed
    <2>2. /\ db' = [db EXCEPT !.api_key_mapping_policies = links]
          /\ UNCHANGED used
          /\ db.api_keys[id] # None /\ db.mapping_policies[with] # None
      BY <1>5, Zenon DEF attach_api_key_mapping_policy
    <2>3. links \in SUBSET (Keys \X Policies)
      BY <1>0, <2>1 DEF Tables
    <2>4. \A l \in links : db.api_keys[l[1]] # None /\ db.mapping_policies[l[2]] # None
      BY <1>0, <2>2 DEF References
    <2> HIDE DEF links
    <2> QED BY <1>0, <2>2, <2>3, <2>4, SetLinks, Zenon DEF TablesInv, TablesMove, UsedGrows
  <1>6. CASE op = "detach_api_key_mapping_policy" /\ detach_api_key_mapping_policy(id, with)
    <2> DEFINE links == db.api_key_mapping_policies \ {<<id, with>>}
    <2>1. db' = [db EXCEPT !.api_key_mapping_policies = links] /\ UNCHANGED used
      BY <1>6, Zenon DEF detach_api_key_mapping_policy
    <2>2. links \in SUBSET (Keys \X Policies)
      BY <1>0 DEF Tables
    <2>3. \A l \in links : db.api_keys[l[1]] # None /\ db.mapping_policies[l[2]] # None
      BY <1>0 DEF References
    <2> HIDE DEF links
    <2> QED BY <1>0, <2>1, <2>2, <2>3, SetLinks, Zenon DEF TablesInv, TablesMove, UsedGrows
  <1> QED BY <1>1, <1>2, <1>3, <1>4, <1>5, <1>6, Zenon DEF OnKeys
-----------------------------------------------------------------------------
Ids == Models \cup Providers \cup Policies \cup Keys \cup {NEW_SIDEBAR_ITEM_ID}

IdsOf(resource) ==
    CASE resource = "models"    -> Models
      [] resource = "providers" -> Providers
      [] resource = "routes"    -> Policies
      [] resource = "keys"      -> Keys

DraftOf(resource) ==
    CASE resource = "models"    -> ModelDraft
      [] resource = "providers" -> ProviderDraft
      [] resource = "routes"    -> PolicyDraft
      [] resource = "keys"      -> ApiKeyDraft

\* The picture is typed, and its first policy is one of its policies.
PictureFits(d) ==
    d # None => d \in Picture /\ d.first \in FirstIn(d.tables.mapping_policies)

\* The draft of an item that exists has what the tables must have of it.
PageFits(pg) ==
    /\ pg \in Page
    /\ pg.of = pg.key[2]
    /\ pg.draft \in DraftOf(pg.key[1])
    /\ pg.key[2] # NEW_SIDEBAR_ITEM_ID =>
          /\ pg.key[2] \in IdsOf(pg.key[1])
          /\ pg.key[1] = "models" => pg.draft.model_name # None
          /\ pg.key[1] = "providers" => pg.draft.endpoint # None

\* The page shown is the one of the sidebar and the picture.
PageInv ==
    /\ sidebar \in [resource : SidebarResource, selected : Ids \cup {None}]
    /\ Shown = PageKey(sidebar, data)
    /\ page # None => PageFits(page)

LEMMA RowsAreIds ==
    ASSUME NEW d \in Picture, NEW resource \in LIST_SECTIONS
    PROVE  buildRows(resource, d) \subseteq IdsOf(resource)
PROOF
  <1>1. d.tables \in Tables
    BY DEF Picture
  <1>2. /\ Rows(d.tables.epichust_models) \subseteq Models
        /\ Rows(d.tables.providers) \subseteq Providers
        /\ Rows(d.tables.mapping_policies) \subseteq Policies
        /\ Rows(d.tables.api_keys) \subseteq Keys
    BY <1>1 DEF Tables, Rows
  <1> QED BY <1>2 DEF buildRows, IdsOf, LIST_SECTIONS

LEMMA FirstIsRow ==
    ASSUME NEW d, d # None, PictureFits(d), NEW resource \in LIST_SECTIONS
    PROVE  FirstRow(resource, d) = None \/ FirstRow(resource, d) \in buildRows(resource, d)
PROOF
  <1>1. CASE resource = "routes"
    BY <1>1 DEF FirstRow, PictureFits, FirstIn, buildRows
  <1>2. CASE resource # "routes"
    <2> DEFINE ids == buildRows(resource, d)
    <2>1. FirstRow(resource, d) = Newest(ids)
      BY <1>2, Zenon DEF FirstRow
    <2>2. ids \subseteq IdsOf(resource)
      BY RowsAreIds, Zenon DEF PictureFits
    <2>3. IdsOf(resource) \in {Models, Providers, Policies, Keys}
      BY DEF IdsOf, LIST_SECTIONS
    <2> HIDE DEF ids
    <2>4. ids # {} => \E id \in ids : \A other \in ids : Age[other] <= Age[id]
      BY <2>2, <2>3, AgeAssumption, Zenon
    <2>5. Newest(ids) = None \/ Newest(ids) \in ids
      BY <2>4, Zenon DEF Newest
    <2> QED BY <2>1, <2>5, Zenon DEF ids
  <1> QED BY <1>1, <1>2, Zenon

\* The page is for nothing, for a new item, or for one of the rows.
LEMMA PageKeyIs ==
    ASSUME NEW s, NEW d, PictureFits(d), PageKey(s, d) # NoPage
    PROVE  /\ d # None /\ s.resource \in LIST_SECTIONS
           /\ \E id : /\ PageKey(s, d) = <<s.resource, id>>
                      /\ id = NEW_SIDEBAR_ITEM_ID \/ id \in buildRows(s.resource, d)
PROOF
  <1>1. d # None /\ s.resource \in LIST_SECTIONS
    BY Zenon DEF PageKey
  <1>2. CASE s.selected = NEW_SIDEBAR_ITEM_ID
    BY <1>1, <1>2, Zenon DEF PageKey
  <1>3. CASE s.selected # NEW_SIDEBAR_ITEM_ID
    <2> DEFINE id == getSelectedItem(s.resource, s.selected, d)
    <2>1. PageKey(s, d) = IF id = None THEN NoPage ELSE <<s.resource, id>>
      BY <1>1, <1>3, Zenon DEF PageKey
    <2>2. id = None \/ id \in buildRows(s.resource, d)
      BY <1>1, FirstIsRow, Zenon DEF getSelectedItem
    <2> QED BY <1>1, <2>1, <2>2, Zenon
  <1> QED BY <1>2, <1>3, Zenon

LEMMA DraftsFit ==
    ASSUME NEW d \in Picture, NEW resource \in LIST_SECTIONS, NEW id,
           id = NEW_SIDEBAR_ITEM_ID \/ id \in buildRows(resource, d)
    PROVE  /\ createDraft(<<resource, id>>, d) \in DraftOf(resource)
           /\ id # NEW_SIDEBAR_ITEM_ID =>
                 /\ id \in IdsOf(resource)
                 /\ resource = "models" => createDraft(<<resource, id>>, d).model_name # None
                 /\ resource = "providers" => createDraft(<<resource, id>>, d).endpoint # None
PROOF
  <1>1. PICK key : key = <<resource, id>>
    OBVIOUS
  <1>2. key[1] = resource /\ key[2] = id
    BY <1>1
  <1>3. d.tables \in Tables
    BY DEF Picture
  <1>4. CASE resource = "models"
    <2>1. createDraft(key, d) = createModelDraft(id, d)
      BY <1>2, <1>4 DEF createDraft
    <2>2. id # NEW_SIDEBAR_ITEM_ID => id \in Models /\ d.tables.epichust_models[id] \in Names
      BY <1>3, <1>4 DEF buildRows, Rows, Tables
    <2>3. createModelDraft(id, d) \in ModelDraft
      BY <2>2 DEF createModelDraft, ModelDraft
    <2>4. id # NEW_SIDEBAR_ITEM_ID => createModelDraft(id, d).model_name \in Names
      BY <2>2 DEF createModelDraft
    <2> QED BY <1>1, <1>4, <2>1, <2>2, <2>3, <2>4, ControlPlaneAssumption DEF DraftOf, IdsOf
  <1>5. CASE resource = "providers"
    <2>1. createDraft(key, d) = createProviderDraft(id, d)
      BY <1>2, <1>5 DEF createDraft
    <2>2. id # NEW_SIDEBAR_ITEM_ID => id \in Providers /\ d.tables.providers[id] \in Endpoints
      BY <1>3, <1>5 DEF buildRows, Rows, Tables
    <2>3. d.tables.provider_models \subseteq ProviderModels
      BY <1>3 DEF Tables
    <2>4. createProviderDraft(id, d) \in ProviderDraft
      BY <2>2, <2>3 DEF createProviderDraft, ProviderDraft
    <2>5. id # NEW_SIDEBAR_ITEM_ID => createProviderDraft(id, d).endpoint \in Endpoints
      BY <2>2 DEF createProviderDraft
    <2> QED BY <1>1, <1>5, <2>1, <2>2, <2>4, <2>5, ControlPlaneAssumption DEF DraftOf, IdsOf
  <1>6. CASE resource = "routes"
    <2>1. createDraft(key, d) = createPolicyDraft(id, d)
      BY <1>2, <1>6 DEF createDraft
    <2>2. id # NEW_SIDEBAR_ITEM_ID => /\ id \in Policies
                                      /\ d.tables.mapping_policies[id] \in Policy
                                      /\ d.tables.rate_limit_rules[id] \in Limits \cup {None}
      BY <1>3, <1>6 DEF buildRows, Rows, Tables
    <2>3. d.tables.mapping_policy_routes \subseteq Policies \X ProviderModels
      BY <1>3 DEF Tables
    <2>4. createPolicyDraft(id, d) \in PolicyDraft
      <3>1. CASE id = NEW_SIDEBAR_ITEM_ID
        BY <3>1 DEF createPolicyDraft, PolicyDraft
      <3>2. CASE id # NEW_SIDEBAR_ITEM_ID
        BY <2>2, <2>3, <3>2 DEF createPolicyDraft, PolicyDraft, DocumentOf, Policy
      <3> QED BY <3>1, <3>2
    <2> QED BY <1>1, <1>6, <2>1, <2>2, <2>4 DEF DraftOf, IdsOf
  <1>7. CASE resource = "keys"
    <2>1. createDraft(key, d) = createApiKeyDraft(id, d)
      BY <1>2, <1>7 DEF createDraft
    <2>2. id # NEW_SIDEBAR_ITEM_ID => id \in Keys /\ d.tables.api_keys[id] \in ApiKey
      BY <1>3, <1>7 DEF buildRows, Rows, Tables
    <2>3. d.tables.api_key_mapping_policies \subseteq Keys \X Policies
      BY <1>3 DEF Tables
    <2>4. createApiKeyDraft(id, d) \in ApiKeyDraft
      <3>1. CASE id = NEW_SIDEBAR_ITEM_ID
        BY <3>1 DEF createApiKeyDraft, ApiKeyDraft
      <3>2. CASE id # NEW_SIDEBAR_ITEM_ID
        BY <2>2, <2>3, <3>2 DEF createApiKeyDraft, ApiKeyDraft, ApiKey
      <3> QED BY <3>1, <3>2
    <2> QED BY <1>1, <1>7, <2>1, <2>2, <2>4 DEF DraftOf, IdsOf
  <1> QED BY <1>4, <1>5, <1>6, <1>7 DEF LIST_SECTIONS

LEMMA MountFits ==
    ASSUME NEW s, NEW d, PictureFits(d), PageKey(s, d) # NoPage
    PROVE  PageFits(Mount(PageKey(s, d), d)) /\ Mount(PageKey(s, d), d) # None
PROOF
  <1>1. PICK id : /\ PageKey(s, d) = <<s.resource, id>>
                  /\ id = NEW_SIDEBAR_ITEM_ID \/ id \in buildRows(s.resource, d)
    BY PageKeyIs, Zenon
  <1>2. PICK resource : resource = s.resource
    OBVIOUS
  <1>3. d \in Picture /\ resource \in LIST_SECTIONS
    BY <1>2, PageKeyIs, Zenon DEF PictureFits
  <1>4. PICK key : key = <<resource, id>>
    OBVIOUS
  <1>5. key[1] = resource /\ key[2] = id
    BY <1>4
  <1>6. /\ createDraft(key, d) \in DraftOf(resource)
        /\ id # NEW_SIDEBAR_ITEM_ID =>
              /\ id \in IdsOf(resource)
              /\ resource = "models" => createDraft(key, d).model_name # None
              /\ resource = "providers" => createDraft(key, d).endpoint # None
    BY <1>1, <1>2, <1>3, <1>4, DraftsFit, Zenon
  <1>7. PICK draft : draft = createDraft(key, d)
    OBVIOUS
  <1>8. PICK pg : pg = [key |-> key, draft |-> draft, of |-> id, picked |-> {}, secret |-> None]
    OBVIOUS
  <1>9. Mount(PageKey(s, d), d) = pg
    BY <1>1, <1>2, <1>4, <1>5, <1>7, <1>8, Zenon DEF Mount
  <1>10. draft \in ModelDraft \cup ProviderDraft \cup PolicyDraft \cup ApiKeyDraft
    BY <1>3, <1>6, <1>7 DEF DraftOf, LIST_SECTIONS
  <1>11. id \in Ids
    BY <1>1, <1>3, <1>6 DEF Ids, IdsOf, LIST_SECTIONS
  <1>12. pg \in Page
    BY <1>3, <1>4, <1>8, <1>10, <1>11 DEF Page, Ids
  <1>13. pg.of = id /\ pg.draft = draft /\ pg.key = key
    BY <1>8
  <1>14. PageFits(pg)
    BY <1>5, <1>6, <1>7, <1>12, <1>13, Zenon DEF PageFits
  <1> QED BY <1>9, <1>12, <1>14, NoneAssumption, Zenon
-----------------------------------------------------------------------------
\* What a request under way holds.
CallTyped(call) ==
    /\ DOMAIN call = {"op", "id", "with", "cleared", "at", "page", "by", "todo", "of"}
    /\ WellFormed(call.op, call.id, call.with)
    /\ call.at \in {"sent", "replaced", "ok", "failed"}
    /\ call.page \in {"mounted", "gone", "other"}
    /\ call.op = "update_mapping_policy" => call \in SaveCall
    /\ call.at = "replaced" => call.op = "update_mapping_policy"
    /\ call.at = "ok" =>
          /\ call.op = "provider_available_models" => call.with \subseteq ProviderModels
          /\ call.op = "create_provider" => call.id \in Providers
          /\ call.op \in {"create_api_key", "rotate_api_key"} => call.with \in Hashes

\* The section of the page a handler belongs to.
SectionOf(by) ==
    CASE by \in {"handleSaveModel", "handleUpdateModel", "handleDeleteModel"} -> "models"
      [] by \in {"handleSaveProvider", "handleUpdateProvider", "handleDeleteProvider",
                 "addProviderModel", "removeProviderModel", "doFetchModels"} -> "providers"
      [] by \in {"handleSavePolicy", "handleDeletePolicy"} -> "routes"
      [] OTHER -> "keys"

\* What the request of a handler is, where the handler goes on with it.
HandlerFits(call) ==
    /\ call.by = "doFetchModels" =>
          /\ call.op \in {"create_provider", "provider_available_models", "create_provider_model"}
          /\ call.op = "create_provider_model" => call.id \in Providers
          /\ call.todo \subseteq ProviderModels
    /\ call.by = "handleAttachPolicies" =>
          call.op = "attach_api_key_mapping_policy" /\ call.todo \subseteq Policies
    /\ call.by = "addProviderModel" => call.op = "create_provider_model"
    /\ call.by = "removeProviderModel" => call.op = "delete_provider_model"
    /\ call.by = "handleSaveKey" => call.op = "create_api_key"
    /\ call.by = "handleRotateKey" => call.op = "rotate_api_key"

Updates ==
    {"update_epichust_model", "update_provider", "update_mapping_policy", "update_api_key"}

\* A request whose page pg is mounted belongs to it; an update is of the item
\* its page was made from.
CallFits(call, pg) ==
    /\ CallTyped(call)
    /\ call.page # "other" => HandlerFits(call)
    /\ call.page = "mounted" => pg # None /\ pg.key[1] = SectionOf(call.by)
    /\ call.op \in Updates /\ call.page # "other" => call.of = call.id

IsSequence(s, n) == s = [i \in 1..n |-> s[i]]

CallsFit(cs, pg) ==
    /\ \E n \in 0..MaxCalls : IsSequence(cs, n)
    /\ \A c \in DOMAIN cs : cs[c] # None => CallFits(cs[c], pg)

CallsInv == CallsFit(calls, page)

\* c is a save that has not been decided.
Saving(cs, c) ==
    /\ c \in DOMAIN cs
    /\ cs[c] # None
    /\ cs[c].op = "update_mapping_policy"
    /\ cs[c].at \in {"sent", "replaced"}

SameCall(call, other) ==
    /\ other.id = call.id /\ other.with = call.with
    /\ other.at = call.at /\ other.cleared = call.cleared

SavesBut(cs, ds, saves) ==
    \A c \in Callers \ saves :
        /\ Saving(ds, c) <=> Saving(cs, c)
        /\ Saving(cs, c) => SameCall(cs[c], ds[c])

\* What the console may do to the saves: nothing, or begin one.
SavesMove(cs, ds) ==
    \/ SavesBut(cs, ds, {})
    \/ \E c \in Callers :
          /\ SavesBut(cs, ds, {c})
          /\ ~Saving(cs, c)
          /\ Saving(ds, c)
          /\ ds[c].at = "sent"
          /\ ds[c].id \in Policies /\ ds[c].with \in Documents

\* The page is the same one, whatever its draft.
PageKept ==
    /\ page' = None <=> page = None
    /\ page # None => page'.key = page.key /\ page'.of = page.of

Appended(s, n, x, t) ==
    /\ DOMAIN t = 1..(n + 1)
    /\ \A i \in 1..n : t[i] = s[i]
    /\ t[n + 1] = x
    /\ IsSequence(t, n + 1)

LEMMA AppendIs ==
    ASSUME NEW s, NEW n \in Nat, IsSequence(s, n), NEW x
    PROVE  DOMAIN s = 1..n /\ Len(s) = n /\ Appended(s, n, x, Append(s, x))
PROOF
  <1> DEFINE S == {s[i] : i \in 1..n} \cup {x}
  <1>1. s \in Seq(S)
    BY DEF IsSequence
  <1>2. DOMAIN s = 1..n
    BY DEF IsSequence
  <1>3. x \in S
    OBVIOUS
  <1> HIDE DEF S
  <1>4. Len(s) = n
    BY <1>1, <1>2
  <1> DEFINE t == Append(s, x)
  <1>5. /\ t \in Seq(S) /\ Len(t) = n + 1 /\ t[n + 1] = x
        /\ \A i \in 1..n : t[i] = s[i]
    BY <1>1, <1>3, <1>4, AppendProperties
  <1> HIDE DEF t
  <1>6. t \in [1..(n + 1) -> S]
    BY <1>5, LenProperties
  <1>7. IsSequence(t, n + 1) /\ DOMAIN t = 1..(n + 1)
    BY <1>6 DEF IsSequence
  <1> QED BY <1>2, <1>4, <1>5, <1>7, Zenon DEF Appended, t

LEMMA CallsFacts ==
    ASSUME NEW cs, NEW pg, CallsFit(cs, pg)
    PROVE  /\ Len(cs) \in 0..MaxCalls
           /\ DOMAIN cs = 1..Len(cs)
           /\ DOMAIN cs \subseteq Callers
           /\ IsSequence(cs, Len(cs))
PROOF
  <1>1. PICK n \in 0..MaxCalls : IsSequence(cs, n)
    BY DEF CallsFit
  <1>2. n \in Nat /\ n <= MaxCalls
    BY MaxCallsAssumption
  <1>3. Len(cs) = n /\ DOMAIN cs = 1..n
    BY <1>1, <1>2, AppendIs, Zenon
  <1>4. DOMAIN cs \subseteq Callers
    BY <1>2, <1>3, MaxCallsAssumption DEF Callers
  <1> QED BY <1>1, <1>3, <1>4, Zenon

\* A handler begins a request.
LEMMA AppendFits ==
    ASSUME NEW cs, NEW pg, CallsFit(cs, pg), Len(cs) < MaxCalls,
           NEW x, CallFits(x, pg), x.at = "sent"
    PROVE  /\ CallsFit(Append(cs, x), pg)
           /\ SavesMove(cs, Append(cs, x))
           /\ x.op # "update_mapping_policy" => SavesBut(cs, Append(cs, x), {})
PROOF
  <1> DEFINE n == Len(cs)
             ds == Append(cs, x)
  <1>1. /\ n \in Nat /\ n + 1 \in 0..MaxCalls /\ n + 1 \in Callers
        /\ DOMAIN cs = 1..n /\ IsSequence(cs, n)
    <2>1. n \in 0..MaxCalls /\ n < MaxCalls /\ DOMAIN cs = 1..n /\ IsSequence(cs, n)
      BY CallsFacts, Zenon
    <2> HIDE DEF n
    <2> QED BY <2>1, MaxCallsAssumption DEF Callers
  <1> HIDE DEF n
  <1>2. /\ DOMAIN ds = 1..(n + 1)
        /\ \A i \in 1..n : ds[i] = cs[i]
        /\ ds[n + 1] = x
        /\ IsSequence(ds, n + 1)
    <2>1. Appended(cs, n, x, ds)
      BY <1>1, AppendIs, Zenon
    <2> HIDE DEF ds
    <2> QED BY <2>1, Zenon DEF Appended
  <1> HIDE DEF ds
  <1>3. \A c \in DOMAIN ds : c # n + 1 => c \in DOMAIN cs /\ ds[c] = cs[c]
    BY <1>1, <1>2
  <1>4. CallsFit(ds, pg)
    BY <1>1, <1>2, <1>3, Zenon DEF CallsFit
  <1>5. ASSUME NEW c \in Callers, c # n + 1
        PROVE  /\ Saving(ds, c) <=> Saving(cs, c)
               /\ Saving(cs, c) => SameCall(cs[c], ds[c])
    <2>1. c \in DOMAIN ds <=> c \in DOMAIN cs
      BY <1>1, <1>2, <1>5 DEF Callers
    <2>2. c \in DOMAIN cs => ds[c] = cs[c]
      BY <1>1, <1>2
    <2> QED BY <2>1, <2>2, Zenon DEF Saving, SameCall
  <1>6. ~Saving(cs, n + 1)
    <2>1. n + 1 \notin DOMAIN cs
      BY <1>1
    <2> QED BY <2>1, Zenon DEF Saving
  <1>7. Saving(ds, n + 1) => x.op = "update_mapping_policy" /\ x.id \in Policies /\ x.with \in Documents
    <2>1. Saving(ds, n + 1) => x.op = "update_mapping_policy"
      BY <1>2, Zenon DEF Saving
    <2> QED BY <2>1 DEF CallFits, CallTyped, WellFormed
  <1>8. CASE Saving(ds, n + 1)
    BY <1>1, <1>2, <1>4, <1>5, <1>6, <1>7, <1>8, Zenon DEF SavesMove, SavesBut, ds
  <1>9. CASE ~Saving(ds, n + 1)
    <2>1. SavesBut(cs, ds, {})
      BY <1>5, <1>6, <1>9, Zenon DEF SavesBut
    <2> QED BY <1>4, <2>1, Zenon DEF SavesMove, ds
  <1> QED BY <1>8, <1>9, Zenon

\* A request that was answered is over, or the handler goes on to another.
LEMMA ReplaceFits ==
    ASSUME NEW cs, NEW pg, CallsFit(cs, pg), NEW c \in DOMAIN cs, cs[c] # None,
           cs[c].at \in {"ok", "failed"},
           NEW x, x = None \/ (CallFits(x, pg) /\ x.op \notin Updates)
    PROVE  /\ CallsFit([cs EXCEPT ![c] = x], pg)
           /\ SavesBut(cs, [cs EXCEPT ![c] = x], {})
PROOF
  <1> DEFINE ds == [cs EXCEPT ![c] = x]
  <1>1. PICK n \in 0..MaxCalls : IsSequence(cs, n)
    BY DEF CallsFit
  <1>2. IsSequence(ds, n)
    <2>1. cs = [i \in 1..n |-> cs[i]]
      BY <1>1, Zenon DEF IsSequence
    <2>2. [cs EXCEPT ![c] = x] = [i \in 1..n |-> [cs EXCEPT ![c] = x][i]]
      BY <2>1
    <2> QED BY <2>2, Zenon DEF IsSequence
  <1>3. DOMAIN ds = DOMAIN cs /\ ds[c] = x /\ \A e \in DOMAIN cs : e # c => ds[e] = cs[e]
    BY Zenon
  <1> HIDE DEF ds
  <1>4. ASSUME NEW e \in DOMAIN ds, ds[e] # None
        PROVE  CallFits(ds[e], pg)
    <2>1. CASE e = c
      BY <1>3, <1>4, <2>1, Zenon
    <2>2. CASE e # c
      BY <1>3, <1>4, <2>2, Zenon DEF CallsFit
    <2> QED BY <2>1, <2>2, Zenon
  <1>5. ~Saving(cs, c) /\ ~Saving(ds, c)
    BY <1>3 DEF Saving, Updates
  <1>6. CallsFit(ds, pg)
    BY <1>2, <1>4, Zenon DEF CallsFit
  <1>7. SavesBut(cs, ds, {})
    BY <1>3, <1>5, Zenon DEF SavesBut, Saving, SameCall
  <1> QED BY <1>6, <1>7, Zenon DEF ds

\* The draft of a page is no concern of the requests.
LEMMA KeptPageFits ==
    ASSUME NEW cs, CallsFit(cs, page), PageKept
    PROVE  CallsFit(cs, page')
PROOF
  BY Zenon DEF CallsFit, CallFits, PageKept

LEMMA SavesStay == \A cs : SavesBut(cs, cs, {}) /\ SavesMove(cs, cs)
PROOF
  BY Zenon DEF SavesBut, SavesMove, SameCall

\* A page is left: its handlers go on without it.
LEMMA UnmountFits ==
    ASSUME NEW cs, NEW pg, NEW new, CallsFit(cs, pg)
    PROVE  /\ CallsFit(Unmounted(cs), new)
           /\ SavesBut(cs, Unmounted(cs), {})
           /\ Len(Unmounted(cs)) = Len(cs)
PROOF
  <1> DEFINE ds == Unmounted(cs)
             n == Len(cs)
  <1>1. n \in 0..MaxCalls /\ DOMAIN cs = 1..n
    BY CallsFacts, Zenon
  <1>2. n \in Nat
    <2> HIDE DEF n
    <2> QED BY <1>1, MaxCallsAssumption
  <1> HIDE DEF n
  <1>3. ds = [c \in 1..n |-> IF cs[c] # None /\ cs[c].page = "mounted"
                              THEN [cs[c] EXCEPT !.page = "gone"] ELSE cs[c]]
    BY <1>1, Zenon DEF Unmounted
  <1> HIDE DEF ds
  <1>4. IsSequence(ds, n)
    BY <1>3 DEF IsSequence
  <1>5. DOMAIN ds = 1..n /\ Len(ds) = n
    BY <1>2, <1>4, AppendIs, Zenon
  <1>6. ASSUME NEW c \in DOMAIN cs, cs[c] # None, cs[c].page = "mounted"
        PROVE  /\ CallFits(ds[c], new)
               /\ ds[c].op = cs[c].op
               /\ SameCall(cs[c], ds[c])
               /\ cs[c].op = "update_mapping_policy" => ds[c] # None
    <2> DEFINE call == cs[c]
               gone == [call EXCEPT !.page = "gone"]
    <2>1. CallFits(call, pg)
      BY <1>6, Zenon DEF CallsFit
    <2>2. ds[c] = gone
      BY <1>1, <1>3, <1>6, Zenon
    <2> HIDE DEF call
    <2>3. DOMAIN call = {"op", "id", "with", "cleared", "at", "page", "by", "todo", "of"}
      BY <2>1 DEF CallFits, CallTyped
    <2>4. /\ DOMAIN gone = DOMAIN call
          /\ gone.op = call.op /\ gone.id = call.id /\ gone.with = call.with
          /\ gone.cleared = call.cleared /\ gone.at = call.at /\ gone.page = "gone"
          /\ gone.by = call.by /\ gone.todo = call.todo /\ gone.of = call.of
      BY <2>3
    <2>5. call.op = "update_mapping_policy" => gone \in SaveCall
      <3>1. call.op = "update_mapping_policy" => call \in SaveCall
        BY <2>1 DEF CallFits, CallTyped
      <3> QED BY <3>1 DEF SaveCall
    <2> HIDE DEF gone
    <2>6. CallTyped(gone)
      BY <2>1, <2>4, <2>5 DEF CallTyped, CallFits
    <2>8. call.page = "mounted"
      BY <1>6, Zenon DEF call
    <2>7. HandlerFits(gone)
      <3>1. HandlerFits(call)
        BY <2>1, <2>8 DEF CallFits
      <3> QED BY <2>4, <3>1, Zenon DEF HandlerFits
    <2>9. CallFits(gone, new)
      BY <2>1, <2>4, <2>6, <2>7, <2>8 DEF CallFits
    <2> QED BY <2>2, <2>4, <2>5, <2>9, NoneAssumption, Zenon DEF SameCall, call
  <1>7. ASSUME NEW c \in DOMAIN cs, ~(cs[c] # None /\ cs[c].page = "mounted")
        PROVE  ds[c] = cs[c] /\ (cs[c] # None => CallFits(ds[c], new))
    <2>1. ds[c] = cs[c]
      BY <1>1, <1>3, <1>7, Zenon
    <2>2. cs[c] # None => CallFits(cs[c], pg)
      BY Zenon DEF CallsFit
    <2> QED BY <1>7, <2>1, <2>2, Zenon DEF CallFits
  <1>8. CallsFit(ds, new)
    <2>1. ASSUME NEW c \in DOMAIN ds, ds[c] # None
          PROVE  CallFits(ds[c], new)
      BY <1>1, <1>5, <1>6, <1>7, <2>1, Zenon
    <2> QED BY <1>1, <1>4, <2>1, Zenon DEF CallsFit
  <1>9. SavesBut(cs, ds, {})
    <2>1. ASSUME NEW c \in Callers
          PROVE  /\ Saving(ds, c) <=> Saving(cs, c)
                 /\ Saving(cs, c) => SameCall(cs[c], ds[c])
      <3>1. CASE c \notin DOMAIN cs
        BY <1>1, <1>5, <3>1, Zenon DEF Saving
      <3>2. CASE c \in DOMAIN cs /\ cs[c] # None /\ cs[c].page = "mounted"
        <4>1. /\ ds[c].op = cs[c].op
              /\ SameCall(cs[c], ds[c])
              /\ cs[c].op = "update_mapping_policy" => ds[c] # None
          BY <1>6, <3>2, Zenon
        <4> QED BY <1>1, <1>5, <3>2, <4>1, Zenon DEF Saving, SameCall
      <3>3. CASE c \in DOMAIN cs /\ ~(cs[c] # None /\ cs[c].page = "mounted")
        BY <1>1, <1>5, <1>7, <3>3, Zenon DEF Saving, SameCall
      <3> QED BY <3>1, <3>2, <3>3, Zenon
    <2> QED BY <2>1, Zenon DEF SavesBut
  <1> QED BY <1>5, <1>8, <1>9, Zenon DEF ds, n

TourFits ==
    tour \in [sections : SUBSET SidebarResource, calls : 0..MaxCalls, edits : Nat,
              others : SUBSET Others]

SidebarFits(s) == s \in [resource : SidebarResource, selected : Ids \cup {None}]

\* The models of a provider without any are asked for.
LEMMA MountEffectFits ==
    ASSUME TourFits, NEW s, NEW d, PictureFits(d), PageKey(s, d) # NoPage,
           NEW cs, CallsFit(cs, Mount(PageKey(s, d), d))
    PROVE  /\ CallsFit(MountEffect(PageKey(s, d), d, cs), Mount(PageKey(s, d), d))
           /\ SavesBut(cs, MountEffect(PageKey(s, d), d, cs), {})
PROOF
  <1> DEFINE key == PageKey(s, d)
             pg == Mount(key, d)
             effect == MountEffect(key, d, cs)
  <1>1. CASE effect = cs
    BY <1>1, SavesStay, Zenon
  <1>2. CASE effect # cs
    <2> DEFINE x == [NewCall("provider_available_models", key[2], None, "doFetchModels", {})
                         EXCEPT !.of = key[2]]
    <2>1. /\ key[1] = "providers" /\ key[2] # NEW_SIDEBAR_ITEM_ID
          /\ Len(cs) < tour.calls
          /\ effect = Append(cs, x)
      BY <1>2, Zenon DEF MountEffect
    <2>2. PageFits(pg) /\ pg # None
      BY MountFits, Zenon
    <2>3. pg.key = key
      BY DEF Mount
    <2> HIDE DEF key, pg, effect
    <2>4. key[2] \in Providers
      BY <2>1, <2>2, <2>3 DEF PageFits, IdsOf
    <2>5. PICK of, id : of = (IF page = None THEN None ELSE page.of) /\ id = key[2]
      OBVIOUS
    <2>6. x = [op |-> "provider_available_models", id |-> id, with |-> None, cleared |-> {},
               at |-> "sent", page |-> "mounted", by |-> "doFetchModels", todo |-> {}, of |-> id]
      BY <2>5 DEF NewCall
    <2> HIDE DEF x
    <2>7. CallTyped(x)
      BY <2>4, <2>5, <2>6 DEF CallTyped, WellFormed
    <2>8. HandlerFits(x)
      BY <2>6 DEF HandlerFits
    <2>9. CallFits(x, pg)
      BY <2>1, <2>2, <2>3, <2>6, <2>7, <2>8 DEF CallFits, SectionOf, Updates
    <2>10. Len(cs) < MaxCalls
      <3>1. Len(cs) \in 0..MaxCalls
        BY CallsFacts, Zenon DEF pg, key
      <3>2. tour.calls \in 0..MaxCalls
        BY DEF TourFits
      <3> QED BY <2>1, <3>1, <3>2, MaxCallsAssumption
    <2>11. CallsFit(cs, pg)
      BY Zenon DEF pg, key
    <2>12. x.at = "sent" /\ x.op # "update_mapping_policy"
      BY <2>6
    <2>13. CallsFit(Append(cs, x), pg) /\ SavesBut(cs, Append(cs, x), {})
      BY <2>9, <2>10, <2>11, <2>12, AppendFits, Zenon
    <2> QED BY <2>1, <2>13, Zenon DEF effect, pg, key
  <1> QED BY <1>1, <1>2, Zenon

\* What the page shows follows the sidebar and the picture.
LEMMA RenderFits ==
    ASSUME CallsInv, PageInv, TourFits, PictureFits(data'), SidebarFits(sidebar'),
           Render(sidebar', data')
    PROVE  CallsInv' /\ PageInv' /\ SavesBut(calls, calls', {})
PROOF
  <1> DEFINE key == PageKey(sidebar', data')
  <1>1. CASE key = Shown
    <2>1. UNCHANGED <<page, calls>>
      BY <1>1, Zenon DEF Render
    <2>2. Shown' = Shown
      BY <2>1, Zenon DEF Shown
    <2>3. PageInv'
      BY <1>1, <2>1, <2>2, Zenon DEF PageInv, SidebarFits
    <2> QED BY <2>1, <2>3, SavesStay, Zenon DEF CallsInv
  <1>2. CASE key # Shown /\ key = NoPage
    <2>1. page' = None /\ calls' = Unmounted(calls)
      BY <1>2, Zenon DEF Render
    <2>2. Shown' = NoPage
      BY <2>1, Zenon DEF Shown
    <2>3. PageInv'
      BY <1>2, <2>1, <2>2, Zenon DEF PageInv, SidebarFits
    <2>4. CallsFit(calls', page') /\ SavesBut(calls, calls', {})
      BY <2>1, UnmountFits, Zenon DEF CallsInv
    <2> QED BY <2>3, <2>4, Zenon DEF CallsInv
  <1>3. CASE key # Shown /\ key # NoPage
    <2> DEFINE pg == Mount(key, data')
               cs == Unmounted(calls)
    <2>1. page' = pg /\ calls' = MountEffect(key, data', cs)
      BY <1>3, Zenon DEF Render
    <2>2. PageFits(pg) /\ pg # None
      BY <1>3, MountFits, Zenon
    <2>3. pg.key = key
      <3> HIDE DEF key
      <3> QED BY DEF Mount
    <2>4. Shown' = key
      BY <2>1, <2>2, <2>3, Zenon DEF Shown
    <2>5. PageInv'
      BY <2>1, <2>2, <2>4, Zenon DEF PageInv, SidebarFits
    <2>6. CallsFit(cs, pg) /\ SavesBut(calls, cs, {})
      BY UnmountFits, Zenon DEF CallsInv
    <2>7. CallsFit(calls', pg) /\ SavesBut(cs, calls', {})
      BY <1>3, <2>1, <2>6, MountEffectFits, Zenon
    <2>8. SavesBut(calls, calls', {})
      <3> HIDE DEF cs
      <3> QED BY <2>6, <2>7, Zenon DEF SavesBut, SameCall
    <2> QED BY <2>1, <2>5, <2>7, <2>8, Zenon DEF CallsInv
  <1> QED BY <1>1, <1>2, <1>3, Zenon
-----------------------------------------------------------------------------
ClientInv == CallsInv /\ PageInv /\ TourFits /\ PictureFits(data)

\* What becomes of the query, but for the arrival of its answer.
QueryMove ==
    \/ UNCHANGED dataVars
    \/ refetch /\ UNCHANGED <<data, isError, version, acked>>
    \/ onSuccess
    \/ FetchFails

\* A step of the console leaves the tables alone.
ClientMove ==
    /\ UNCHANGED <<db, used>>
    /\ CallsInv' /\ PageInv' /\ TourFits'
    /\ SavesMove(calls, calls')

LEMMA QueryKeepsData == QueryMove => UNCHANGED data
PROOF
  BY Zenon DEF QueryMove, dataVars, onSuccess, FetchFails

LEMMA PageInvKept ==
    ASSUME PageInv, PageKept, UNCHANGED <<sidebar, data>>, page # None => PageFits(page')
    PROVE  PageInv'
PROOF
  <1>1. Shown' = Shown
    BY Zenon DEF Shown, PageKept
  <1> QED BY <1>1, Zenon DEF PageInv, PageKept

LEMMA DraftSet ==
    ASSUME page # None, PageFits(page), NEW x, x \in DraftOf(page.key[1]),
           page.key[2] # NEW_SIDEBAR_ITEM_ID =>
              /\ page.key[1] = "models" => x.model_name # None
              /\ page.key[1] = "providers" => x.endpoint # None,
           page' = [page EXCEPT !.draft = x]
    PROVE  PageKept /\ PageFits(page')
PROOF
  <1>1. page \in Page
    BY DEF PageFits
  <1>2. page.key[1] \in LIST_SECTIONS
    BY <1>1 DEF Page
  <1>3. x \in ModelDraft \cup ProviderDraft \cup PolicyDraft \cup ApiKeyDraft
    BY <1>2 DEF DraftOf, LIST_SECTIONS
  <1>4. page' \in Page /\ page'.draft = x /\ page'.key = page.key /\ page'.of = page.of
    BY <1>1, <1>3 DEF Page
  <1>5. page' # None
    BY <1>4, NoneAssumption, Zenon
  <1>6. PageFits(page')
    BY <1>4, Zenon DEF PageFits
  <1> QED BY <1>4, <1>5, <1>6, Zenon DEF PageKept

LEMMA ModalSet ==
    ASSUME page # None, PageFits(page), page' \in Page,
           page'.key = page.key, page'.of = page.of, page'.draft = page.draft
    PROVE  PageKept /\ PageFits(page')
PROOF
  <1>1. page' # None
    BY NoneAssumption, Zenon
  <1>2. PageFits(page')
    BY Zenon DEF PageFits
  <1> QED BY <1>1, <1>2, Zenon DEF PageKept

\* A handler of the page begins with its first request.
LEMMA Begins ==
    ASSUME ClientInv, page # None,
           NEW op, NEW id, NEW with, NEW by, NEW todo,
           WellFormed(op, id, with), SectionOf(by) = page.key[1],
           HandlerFits([op |-> op, id |-> id, by |-> by, todo |-> todo]),
           op \in Updates => id = page.key[2],
           op = "update_mapping_policy" => by = "handleSavePolicy" /\ todo = {},
           mutateAsync(op, id, with, by, todo), PageKept, PageFits(page')
    PROVE  ClientMove /\ QueryMove
PROOF
  <1> DEFINE x == NewCall(op, id, with, by, todo)
  <1>1. /\ Len(calls) < tour.calls /\ calls' = Append(calls, x)
        /\ UNCHANGED <<db, used, dataVars, sidebar, tour>>
    BY Zenon DEF mutateAsync
  <1>2. PICK of : of = page.key[2]
    OBVIOUS
  <1>3. PageFits(page)
    BY Zenon DEF ClientInv, PageInv
  <1>4. page.of = of /\ of \in Ids
    <2>1. page.key \in LIST_SECTIONS \X (Models \cup Providers \cup Policies \cup Keys \cup {NEW_SIDEBAR_ITEM_ID})
      BY <1>3 DEF PageFits, Page
    <2>2. page.key[2] \in Ids
      BY <2>1 DEF Ids
    <2> QED BY <1>2, <1>3, <2>2, Zenon DEF PageFits
  <1>5. x = [op |-> op, id |-> id, with |-> with, cleared |-> {}, at |-> "sent",
             page |-> "mounted", by |-> by, todo |-> todo, of |-> of]
    BY <1>4, Zenon DEF NewCall
  <1> HIDE DEF x
  <1>6. op = "update_mapping_policy" => x \in SaveCall
    <2>1. op = "update_mapping_policy" => id \in Policies /\ with \in Documents
      BY DEF WellFormed
    <2> QED BY <1>4, <1>5, <2>1 DEF SaveCall, Ids
  <1>7. CallTyped(x)
    BY <1>5, <1>6 DEF CallTyped
  <1>8. HandlerFits(x)
    <2>1. x.op = op /\ x.id = id /\ x.by = by /\ x.todo = todo
      BY <1>5
    <2> QED BY <2>1 DEF HandlerFits
  <1>9. page' # None /\ page'.key = page.key
    BY Zenon DEF PageKept
  <1>10. CallFits(x, page')
    <2>1. x.op = op /\ x.id = id /\ x.by = by /\ x.of = of
      BY <1>5
    <2> QED BY <1>2, <1>7, <1>8, <1>9, <2>1, Zenon DEF CallFits
  <1>11. CallsFit(calls, page')
    BY KeptPageFits, Zenon DEF ClientInv, CallsInv
  <1>12. Len(calls) < MaxCalls
    <2>1. Len(calls) \in 0..MaxCalls
      BY CallsFacts, Zenon DEF ClientInv, CallsInv
    <2>2. tour.calls \in 0..MaxCalls
      BY DEF ClientInv, TourFits
    <2> QED BY <1>1, <2>1, <2>2, MaxCallsAssumption
  <1>13. x.at = "sent"
    BY <1>5
  <1>14. CallsFit(calls', page') /\ SavesMove(calls, calls')
    BY <1>1, <1>10, <1>11, <1>12, <1>13, AppendFits, Zenon
  <1>15. UNCHANGED data
    BY <1>1, Zenon DEF dataVars
  <1>16. PageInv'
    BY <1>1, <1>15, PageInvKept, Zenon DEF ClientInv
  <1>17. TourFits'
    BY <1>1, Zenon DEF ClientInv, TourFits
  <1> QED BY <1>1, <1>14, <1>16, <1>17, Zenon DEF ClientMove, CallsInv, QueryMove

\* A handler takes its answer; it is over, or sends another request.
LEMMA Takes ==
    ASSUME ClientInv, NEW c \in Live, calls[c].at \in {"ok", "failed"},
           NEW x, x = None \/ (CallFits(x, page) /\ x.op \notin Updates),
           calls' = [calls EXCEPT ![c] = x],
           PageKept, page # None => PageFits(page'), QueryMove,
           UNCHANGED <<db, used, sidebar, tour>>
    PROVE  ClientMove /\ QueryMove
PROOF
  <1>1. c \in DOMAIN calls /\ calls[c] # None
    BY DEF Live
  <1>2. CallsFit(calls', page) /\ SavesBut(calls, calls', {})
    BY <1>1, ReplaceFits, Zenon DEF ClientInv, CallsInv
  <1>3. CallsInv'
    BY <1>2, KeptPageFits, Zenon DEF CallsInv
  <1>4. UNCHANGED data
    BY QueryKeepsData, Zenon
  <1>5. PageInv'
    BY <1>4, PageInvKept, Zenon DEF ClientInv
  <1>6. TourFits'
    BY Zenon DEF ClientInv, TourFits
  <1> QED BY <1>2, <1>3, <1>5, <1>6, Zenon DEF ClientMove, SavesMove

\* Only the page changes.
LEMMA PageMoves ==
    ASSUME ClientInv, page # None, PageKept, PageFits(page'), TourFits', QueryMove,
           UNCHANGED <<db, used, calls, sidebar>>
    PROVE  ClientMove /\ QueryMove
PROOF
  <1>1. CallsInv'
    BY KeptPageFits, Zenon DEF ClientInv, CallsInv
  <1>2. UNCHANGED data
    BY QueryKeepsData, Zenon
  <1>3. PageInv'
    BY <1>2, PageInvKept, Zenon DEF ClientInv
  <1> QED BY <1>1, <1>3, SavesStay, Zenon DEF ClientMove

LEMMA Edits ==
    ASSUME ClientInv, page # None, NEW x, Edit(x), x \in DraftOf(page.key[1]),
           page.key[2] # NEW_SIDEBAR_ITEM_ID =>
              /\ page.key[1] = "models" => x.model_name # None
              /\ page.key[1] = "providers" => x.endpoint # None
    PROVE  ClientMove /\ QueryMove
PROOF
  <1>1. PageFits(page)
    BY Zenon DEF ClientInv, PageInv
  <1>2. page' = [page EXCEPT !.draft = x] /\ UNCHANGED <<db, used, calls, dataVars, sidebar>>
    BY Zenon DEF Edit
  <1>3. PageKept /\ PageFits(page')
    BY <1>1, <1>2, DraftSet, Zenon
  <1>4. TourFits'
    BY DEF ClientInv, TourFits, Edit
  <1> QED BY <1>2, <1>3, <1>4, PageMoves, Zenon DEF QueryMove

\* A handler whose one request was answered.
LEMMA Succeeding ==
    ASSUME ClientInv, NEW c \in Live, NEW by, Succeeds(c, by),
           PageKept, page # None => PageFits(page')
    PROVE  ClientMove /\ QueryMove
PROOF
  <1>1. /\ calls[c].at \in {"ok", "failed"} /\ onSuccess
        /\ calls' = [calls EXCEPT ![c] = None]
        /\ UNCHANGED <<db, used, sidebar, tour>>
    BY Zenon DEF Succeeds, Answered, Over
  <1> QED BY <1>1, Takes, Zenon DEF QueryMove

LEMMA Failing ==
    ASSUME ClientInv, NEW c \in Live, NEW by, Fails(c, by)
    PROVE  ClientMove /\ QueryMove
PROOF
  <1>1. /\ calls[c].at \in {"ok", "failed"}
        /\ calls' = [calls EXCEPT ![c] = None]
        /\ UNCHANGED <<db, used, dataVars, sidebar, tour, page>>
    BY Zenon DEF Fails, Answered, Over
  <1>2. PageKept /\ (page # None => PageFits(page'))
    BY <1>1, Zenon DEF PageKept, ClientInv, PageInv
  <1> QED BY <1>1, <1>2, Takes, Zenon DEF QueryMove

LEMMA StaysAsItIs ==
    ASSUME ClientInv, UNCHANGED page
    PROVE  PageKept /\ (page # None => PageFits(page'))
PROOF
  BY Zenon DEF PageKept, ClientInv, PageInv

\* A page is shown for a picture, and its draft is one of its section.
LEMMA OnPageFacts ==
    ASSUME ClientInv, NEW resource, OnPage(resource)
    PROVE  /\ page # None /\ PageFits(page)
           /\ page.key[1] = resource /\ resource \in LIST_SECTIONS
           /\ page.draft \in DraftOf(resource)
           /\ data # None /\ data.tables \in Tables
           /\ ~IsNew => /\ Item \in IdsOf(resource)
                        /\ resource = "models" => page.draft.model_name # None
                        /\ resource = "providers" => page.draft.endpoint # None
PROOF
  <1>1. page # None /\ page.key[1] = resource /\ PageFits(page)
    BY Zenon DEF OnPage, ClientInv, PageInv
  <1>2. page.key \in LIST_SECTIONS \X (Models \cup Providers \cup Policies \cup Keys \cup {NEW_SIDEBAR_ITEM_ID})
    BY <1>1 DEF PageFits, Page
  <1>3. resource \in LIST_SECTIONS
    BY <1>1, <1>2
  <1>4. page.key # NoPage
    BY <1>2, IdsAssumption DEF NoPage
  <1>5. page.key = PageKey(sidebar, data) /\ PictureFits(data)
    BY <1>1, Zenon DEF ClientInv, PageInv, Shown
  <1>6. data # None
    BY <1>4, <1>5, PageKeyIs, Zenon
  <1>7. data.tables \in Tables
    BY <1>5, <1>6 DEF PictureFits, Picture
  <1> QED BY <1>1, <1>3, <1>6, <1>7, Zenon DEF PageFits, IsNew, Item

\* A request of the page that leaves the page as it is.
LEMMA BeginsHere ==
    ASSUME ClientInv, NEW op, NEW id, NEW with, NEW by,
           OnPage(SectionOf(by)), WellFormed(op, id, with),
           HandlerFits([op |-> op, id |-> id, by |-> by, todo |-> {}]),
           op \in Updates => id = Item,
           op = "update_mapping_policy" => by = "handleSavePolicy",
           mutateAsync(op, id, with, by, {}), UNCHANGED page
    PROVE  ClientMove /\ QueryMove
PROOF
  <1>1. page # None /\ SectionOf(by) = page.key[1]
    BY OnPageFacts, Zenon
  <1>2. PageKept /\ PageFits(page')
    BY <1>1, StaysAsItIs, Zenon
  <1> QED BY <1>1, <1>2, Begins, Zenon DEF Item

\* A link leads from the page to a policy.
LEMMA PolicyOpens ==
    ASSUME ClientInv, NEW p \in Policies, navigateToPolicy(p)
    PROVE  ClientMove /\ QueryMove
PROOF
  <1>1. /\ sidebar' = [resource |-> "routes", selected |-> p]
        /\ Render(sidebar', data)
        /\ UNCHANGED <<db, used, dataVars, tour>>
    BY Zenon DEF navigateToPolicy
  <1>2. SidebarFits(sidebar')
    BY <1>1 DEF SidebarFits, SidebarResource, Ids
  <1>3. data' = data
    BY <1>1, Zenon DEF dataVars
  <1>4. PictureFits(data') /\ Render(sidebar', data')
    BY <1>1, <1>3, Zenon DEF ClientInv
  <1>5. CallsInv' /\ PageInv' /\ SavesBut(calls, calls', {})
    BY <1>2, <1>4, RenderFits, Zenon DEF ClientInv
  <1>6. TourFits'
    BY <1>1, Zenon DEF ClientInv, TourFits
  <1> QED BY <1>1, <1>5, <1>6, Zenon DEF ClientMove, SavesMove, QueryMove
-----------------------------------------------------------------------------
LEMMA Sections ==
    /\ DraftOf("models") = ModelDraft /\ IdsOf("models") = Models
    /\ DraftOf("providers") = ProviderDraft /\ IdsOf("providers") = Providers
    /\ DraftOf("routes") = PolicyDraft /\ IdsOf("routes") = Policies
    /\ DraftOf("keys") = ApiKeyDraft /\ IdsOf("keys") = Keys
PROOF
  BY DEF DraftOf, IdsOf

LEMMA ModelPageMoves ==
    ASSUME ClientInv, ModelStep
    PROVE  ClientMove /\ QueryMove
PROOF
  <1>1. CASE ModelHeader
    <2>1. OnPage("models")
      BY <1>1, Zenon DEF ModelHeader, handleSaveModel, handleUpdateModel, handleDeleteModel, OnModelPage
    <2>2. page.draft \in ModelDraft
      BY <2>1, OnPageFacts, Sections, Zenon
    <2>3. page.draft.model_name \in Names \cup {None}
      BY <2>2 DEF ModelDraft
    <2>4. ~IsNew => Item \in Models /\ page.draft.model_name \in Names
      <3>1. ~IsNew => Item \in IdsOf("models") /\ page.draft.model_name # None
        BY <2>1, OnPageFacts, Zenon
      <3> QED BY <2>3, <3>1, Sections
    <2>5. /\ SectionOf("handleSaveModel") = "models"
          /\ SectionOf("handleUpdateModel") = "models"
          /\ SectionOf("handleDeleteModel") = "models"
      BY DEF SectionOf
    <2>6. CASE handleSaveModel
      <3>1. PICK name \in Names : mutateAsync("create_epichust_model", None, name, "handleSaveModel", {})
        BY <2>3, <2>6 DEF handleSaveModel
      <3>2. WellFormed("create_epichust_model", None, name)
        BY DEF WellFormed
      <3>3. HandlerFits([op |-> "create_epichust_model", id |-> None, by |-> "handleSaveModel", todo |-> {}])
        BY DEF HandlerFits
      <3>4. "create_epichust_model" \notin Updates /\ UNCHANGED page
        BY <2>6 DEF Updates, handleSaveModel
      <3> QED BY <2>1, <2>5, <3>1, <3>2, <3>3, <3>4, BeginsHere
    <2>7. CASE handleUpdateModel
      <3>1. /\ ~IsNew /\ UNCHANGED page
            /\ mutateAsync("update_epichust_model", Item, page.draft.model_name, "handleUpdateModel", {})
        BY <2>7, Zenon DEF handleUpdateModel
      <3>2. WellFormed("update_epichust_model", Item, page.draft.model_name)
        BY <2>4, <3>1 DEF WellFormed
      <3>3. HandlerFits([op |-> "update_epichust_model", id |-> Item, by |-> "handleUpdateModel", todo |-> {}])
        BY DEF HandlerFits
      <3> QED BY <2>1, <2>5, <3>1, <3>2, <3>3, BeginsHere
    <2>8. CASE handleDeleteModel
      <3>1. /\ ~IsNew /\ UNCHANGED page
            /\ mutateAsync("delete_epichust_model", Item, None, "handleDeleteModel", {})
        BY <2>8, Zenon DEF handleDeleteModel
      <3>2. WellFormed("delete_epichust_model", Item, None)
        BY <2>4, <3>1 DEF WellFormed
      <3>3. HandlerFits([op |-> "delete_epichust_model", id |-> Item, by |-> "handleDeleteModel", todo |-> {}])
        BY DEF HandlerFits
      <3>4. "delete_epichust_model" \notin Updates
        BY DEF Updates
      <3> QED BY <2>1, <2>5, <3>1, <3>2, <3>3, <3>4, BeginsHere
    <2> QED BY <1>1, <2>6, <2>7, <2>8, Zenon DEF ModelHeader
  <1>2. CASE ModelStatus
    <2>1. PICK name \in Names : OnPage("models") /\ Edit([model_name |-> name])
      BY <1>2, Zenon DEF ModelStatus, editModel, OnModelPage
    <2>2. [model_name |-> name] \in ModelDraft /\ [model_name |-> name].model_name # None
      BY ControlPlaneAssumption DEF ModelDraft
    <2>3. page # None /\ page.key[1] = "models"
      BY <2>1, OnPageFacts, Zenon
    <2>4. [model_name |-> name] \in DraftOf(page.key[1])
      BY <2>2, <2>3 DEF DraftOf
    <2> QED BY <2>1, <2>2, <2>3, <2>4, Edits
  <1>3. CASE ModelPolicyList
    BY <1>3, PolicyOpens, Zenon DEF ModelPolicyList, openModelPolicy
  <1>4. CASE \E c \in Live : ModelAnswer(c)
    BY <1>4, Succeeding, Failing, StaysAsItIs, Zenon DEF ModelAnswer
  <1> QED BY <1>1, <1>2, <1>3, <1>4, Zenon DEF ModelStep
-----------------------------------------------------------------------------
LEMMA ProviderPageFacts ==
    ASSUME ClientInv, OnPage("providers")
    PROVE  /\ page # None /\ PageFits(page) /\ page.key[1] = "providers"
           /\ page.draft \in ProviderDraft
           /\ page.draft.endpoint \in Endpoints \cup {None}
           /\ page.draft.providerModels \subseteq ProviderModels
           /\ ~IsNew => Item \in Providers /\ page.draft.endpoint \in Endpoints
PROOF
  <1>1. page.draft \in ProviderDraft
    BY OnPageFacts, Sections, Zenon
  <1>2. /\ page.draft.endpoint \in Endpoints \cup {None}
        /\ page.draft.providerModels \subseteq ProviderModels
    BY <1>1 DEF ProviderDraft
  <1>3. ~IsNew => Item \in Providers /\ page.draft.endpoint # None
    BY OnPageFacts, Sections, Zenon
  <1>4. page # None /\ PageFits(page) /\ page.key[1] = "providers"
    BY OnPageFacts, Zenon
  <1> QED BY <1>1, <1>2, <1>3, <1>4

LEMMA ProviderSections ==
    \A by \in {"handleSaveProvider", "handleUpdateProvider", "handleDeleteProvider",
               "addProviderModel", "removeProviderModel", "doFetchModels"} :
        SectionOf(by) = "providers"
PROOF
  BY DEF SectionOf

LEMMA CallIs ==
    ASSUME ClientInv, NEW c \in Live
    PROVE  /\ CallFits(calls[c], page)
           /\ calls[c].page = "mounted" => page # None /\ page.key[1] = SectionOf(calls[c].by)
           /\ \E n \in Nat : IsSequence(calls, n) /\ c \in 1..n
PROOF
  <1>1. c \in DOMAIN calls /\ calls[c] # None
    BY DEF Live
  <1>2. CallFits(calls[c], page)
    BY <1>1, Zenon DEF ClientInv, CallsInv, CallsFit
  <1>3. Len(calls) \in 0..MaxCalls /\ DOMAIN calls = 1..Len(calls) /\ IsSequence(calls, Len(calls))
    BY CallsFacts, Zenon DEF ClientInv, CallsInv
  <1>4. Len(calls) \in Nat
    BY <1>3, MaxCallsAssumption
  <1> QED BY <1>1, <1>2, <1>3, <1>4, Zenon DEF CallFits

\* A handler goes on to another request.
Continued(c, x, op, id, with, todo) ==
    /\ calls' = [calls EXCEPT ![c] = x]
    /\ DOMAIN x = DOMAIN calls[c]
    /\ x.op = op /\ x.id = id /\ x.with = with
    /\ x.at = "sent" /\ x.todo = todo /\ x.page = calls[c].page
    /\ x.by = calls[c].by /\ x.of = calls[c].of

LEMMA ContinueIs ==
    ASSUME ClientInv, NEW c \in Live, NEW op, NEW id, NEW with, NEW todo,
           Continue(c, op, id, with, todo)
    PROVE  \E x : Continued(c, x, op, id, with, todo)
PROOF
  <1>1. PICK n \in Nat : IsSequence(calls, n) /\ c \in 1..n
    BY CallIs, Zenon
  <1>2. DOMAIN calls[c] = {"op", "id", "with", "cleared", "at", "page", "by", "todo", "of"}
    BY CallIs, Zenon DEF CallFits, CallTyped
  <1>3. PICK call : call = calls[c]
    OBVIOUS
  <1> DEFINE x == [call EXCEPT !.op = op, !.id = id, !.with = with, !.at = "sent", !.todo = todo]
  <1>4. calls = [i \in 1..n |-> calls[i]]
    BY <1>1, Zenon DEF IsSequence
  <1>5. calls' = [calls EXCEPT ![c] = x]
    BY <1>1, <1>3, <1>4 DEF Continue
  <1>6. /\ DOMAIN x = DOMAIN call
        /\ x.op = op /\ x.id = id /\ x.with = with
        /\ x.at = "sent" /\ x.todo = todo /\ x.page = call.page
        /\ x.by = call.by /\ x.of = call.of
    BY <1>2, <1>3
  <1> HIDE DEF x
  <1>7. Continued(c, x, op, id, with, todo)
    BY <1>3, <1>5, <1>6, Zenon DEF Continued
  <1> QED BY <1>7, Zenon

\* doFetchModels goes on to its next request.
LEMMA FetchGoesOn ==
    ASSUME ClientInv, NEW c \in Live, calls[c].by = "doFetchModels",
           calls[c].at \in {"ok", "failed"},
           NEW op, NEW id, NEW with, NEW todo,
           \/ op = "provider_available_models" /\ id \in Providers
           \/ op = "create_provider_model" /\ id \in Providers /\ with \in ProviderModels,
           todo \subseteq ProviderModels,
           Continue(c, op, id, with, todo),
           PageKept, page # None => PageFits(page'), QueryMove,
           UNCHANGED <<db, used, sidebar, tour>>
    PROVE  ClientMove /\ QueryMove
PROOF
  <1>0. PICK x : Continued(c, x, op, id, with, todo)
    BY ContinueIs, Zenon
  <1>1. /\ calls' = [calls EXCEPT ![c] = x]
        /\ DOMAIN x = DOMAIN calls[c]
        /\ x.op = op /\ x.id = id /\ x.with = with
        /\ x.at = "sent" /\ x.todo = todo /\ x.page = calls[c].page
        /\ x.by = calls[c].by /\ x.of = calls[c].of
    BY <1>0, Zenon DEF Continued
  <1>2. CallFits(calls[c], page)
    BY CallIs, Zenon
  <1>3. CallTyped(x)
    <2>1. WellFormed(x.op, x.id, x.with)
      BY <1>1 DEF WellFormed
    <2>2. DOMAIN calls[c] = {"op", "id", "with", "cleared", "at", "page", "by", "todo", "of"}
          /\ calls[c].page \in {"mounted", "gone", "other"}
      BY <1>2, Zenon DEF CallFits, CallTyped
    <2>3. x.op # "update_mapping_policy"
      BY <1>1
    <2> QED BY <1>1, <2>1, <2>2, <2>3 DEF CallTyped
  <1>4. HandlerFits(x)
    BY <1>1 DEF HandlerFits
  <1>5. x.op \notin Updates
    BY <1>1 DEF Updates
  <1>6. x.page = "mounted" => page # None /\ page.key[1] = SectionOf(x.by)
    BY <1>1, <1>2, Zenon DEF CallFits
  <1>7. CallFits(x, page)
    BY <1>3, <1>4, <1>5, <1>6, Zenon DEF CallFits
  <1> QED BY <1>1, <1>5, <1>7, Takes, Zenon

\* The next of the models offered is registered, or the handler is over.
LEMMA RegisteringGoesOn ==
    ASSUME ClientInv, NEW c \in Live, calls[c].by = "doFetchModels",
           calls[c].at \in {"ok", "failed"},
           NEW provider \in Providers, NEW models \in SUBSET ProviderModels,
           RegisterNext(c, provider, models),
           PageKept, page # None => PageFits(page'), QueryMove,
           UNCHANGED <<db, used, sidebar, tour>>
    PROVE  ClientMove /\ QueryMove
PROOF
  <1>1. CASE models = {} /\ Over(c)
    BY <1>1, Takes, Zenon DEF Over
  <1>2. CASE \E pm \in models :
                 Continue(c, "create_provider_model", provider, pm, models \ {pm})
    <2>1. PICK pm \in models :
                 Continue(c, "create_provider_model", provider, pm, models \ {pm})
      BY <1>2, Zenon
    <2>2. pm \in ProviderModels /\ models \ {pm} \subseteq ProviderModels
      BY Zenon
    <2> QED BY <2>1, <2>2, FetchGoesOn
  <1> QED BY <1>1, <1>2, Zenon DEF RegisterNext

LEMMA ProviderModelsSet ==
    ASSUME ClientInv, page # None, page.key[1] = "providers",
           NEW ms \in SUBSET ProviderModels, page' = [page EXCEPT !.draft.providerModels = ms]
    PROVE  PageKept /\ PageFits(page')
PROOF
  <1>1. OnPage("providers")
    BY Zenon DEF OnPage
  <1>2. PICK draft : draft = page.draft
    OBVIOUS
  <1>3. PICK x : x = [draft EXCEPT !.providerModels = ms]
    OBVIOUS
  <1>4. page' = [page EXCEPT !.draft = x]
    BY <1>2, <1>3, Zenon
  <1>5. draft \in ProviderDraft /\ PageFits(page)
    BY <1>1, <1>2, ProviderPageFacts, Zenon
  <1>6. x \in ProviderDraft /\ x.endpoint = draft.endpoint
    BY <1>3, <1>5 DEF ProviderDraft
  <1>7. page.key[2] # NEW_SIDEBAR_ITEM_ID => x.endpoint # None
    BY <1>2, <1>5, <1>6, Zenon DEF PageFits
  <1>8. page.key[1] # "models"
    OBVIOUS
  <1>9. x \in DraftOf(page.key[1])
    BY <1>6, Sections, Zenon
  <1> QED BY <1>4, <1>5, <1>7, <1>8, <1>9, DraftSet

\* Answers to the page's handlers with one request.
LEMMA ProviderSingleAnswers ==
    ASSUME ClientInv, NEW c \in Live,
           \/ \E by \in {"handleSaveProvider", "handleUpdateProvider", "handleDeleteProvider"} :
                 (Succeeds(c, by) /\ UNCHANGED page) \/ Fails(c, by)
           \/ /\ Succeeds(c, "addProviderModel")
              /\ setState(c, [page EXCEPT !.draft.providerModels = @ \cup {calls[c].with}])
           \/ /\ Succeeds(c, "removeProviderModel")
              /\ setState(c, [page EXCEPT !.draft.providerModels = @ \ {calls[c].id}])
           \/ Fails(c, "addProviderModel") \/ Fails(c, "removeProviderModel")
    PROVE  ClientMove /\ QueryMove
PROOF
  <1>0. CallFits(calls[c], page)
    BY CallIs, Zenon
  <1>1. CASE \E by : (Succeeds(c, by) /\ UNCHANGED page) \/ Fails(c, by)
    BY <1>1, Succeeding, Failing, StaysAsItIs, Zenon
  <1>2. ASSUME NEW by \in {"addProviderModel", "removeProviderModel"}, Succeeds(c, by),
               NEW ms, ms \subseteq page.draft.providerModels \cup {calls[c].with},
               by = "addProviderModel" \/ ms \subseteq page.draft.providerModels,
               setState(c, [page EXCEPT !.draft.providerModels = ms])
        PROVE  ClientMove /\ QueryMove
    <2>1. CASE calls[c].page = "mounted"
      <3>1. calls[c].by = by /\ SectionOf(by) = "providers"
        BY <1>2, ProviderSections, Zenon DEF Succeeds, Answered
      <3>2. page # None /\ page.key[1] = "providers"
        BY <2>1, <3>1, CallIs, Zenon
      <3>3. page.draft.providerModels \subseteq ProviderModels
        BY <3>2, ProviderPageFacts, Zenon DEF OnPage
      <3>4. by = "addProviderModel" => calls[c].with \in ProviderModels
        <4>1. by = "addProviderModel" => calls[c].op = "create_provider_model"
          BY <1>0, <2>1, <3>1 DEF CallFits, HandlerFits
        <4>2. WellFormed(calls[c].op, calls[c].id, calls[c].with)
          BY <1>0, Zenon DEF CallFits, CallTyped
        <4> QED BY <4>1, <4>2 DEF WellFormed
      <3>5. ms \in SUBSET ProviderModels
        BY <1>2, <3>3, <3>4
      <3>6. page' = [page EXCEPT !.draft.providerModels = ms]
        BY <1>2, <2>1, Zenon DEF setState
      <3>7. PageKept /\ PageFits(page')
        BY <3>2, <3>5, <3>6, ProviderModelsSet, Zenon
      <3> QED BY <1>2, <3>7, Succeeding, Zenon
    <2>2. CASE calls[c].page # "mounted"
      <3>1. UNCHANGED page
        BY <1>2, <2>2, Zenon DEF setState
      <3> QED BY <1>2, <3>1, StaysAsItIs, Succeeding, Zenon
    <2> QED BY <2>1, <2>2, Zenon
  <1>3. CASE /\ Succeeds(c, "addProviderModel")
             /\ setState(c, [page EXCEPT !.draft.providerModels = @ \cup {calls[c].with}])
    <2>1. PICK ms : ms = page.draft.providerModels \cup {calls[c].with}
      OBVIOUS
    <2>2. setState(c, [page EXCEPT !.draft.providerModels = ms])
      BY <1>3, <2>1, Zenon DEF setState
    <2> QED BY <1>2, <1>3, <2>1, <2>2
  <1>4. CASE /\ Succeeds(c, "removeProviderModel")
             /\ setState(c, [page EXCEPT !.draft.providerModels = @ \ {calls[c].id}])
    <2>1. PICK ms : ms = page.draft.providerModels \ {calls[c].id}
      OBVIOUS
    <2>2. setState(c, [page EXCEPT !.draft.providerModels = ms])
      BY <1>4, <2>1, Zenon DEF setState
    <2> QED BY <1>2, <1>4, <2>1, <2>2
  <1> QED BY <1>1, <1>3, <1>4, Zenon

\* Answers to the handler that fetches models.
LEMMA FetchAnswers ==
    ASSUME ClientInv, NEW c \in Live,
           FetchCreated(c) \/ FetchListed(c) \/ FetchRegistered(c) \/ FetchFailed(c)
    PROVE  ClientMove /\ QueryMove
PROOF
  <1>1. /\ calls[c].by = "doFetchModels" /\ calls[c].at \in {"ok", "failed"}
        /\ calls[c].page # "other"
        /\ UNCHANGED <<db, used, sidebar, tour>>
    BY DEF FetchCreated, FetchListed, FetchRegistered, FetchFailed, Answered
  <1>2. CallTyped(calls[c]) /\ HandlerFits(calls[c])
    BY <1>1, CallIs, Zenon DEF CallFits
  <1>3. /\ calls[c].op = "create_provider" /\ calls[c].at = "ok" => calls[c].id \in Providers
        /\ calls[c].op = "provider_available_models" =>
              /\ calls[c].id \in Providers
              /\ calls[c].at = "ok" => calls[c].with \in SUBSET ProviderModels
        /\ calls[c].op = "create_provider_model" =>
              calls[c].id \in Providers /\ calls[c].with \in ProviderModels
        /\ calls[c].todo \in SUBSET ProviderModels
    <2>1. WellFormed(calls[c].op, calls[c].id, calls[c].with)
      BY <1>2, Zenon DEF CallTyped
    <2>2. /\ calls[c].op = "provider_available_models" => calls[c].id \in Providers
          /\ calls[c].op = "create_provider_model" => calls[c].with \in ProviderModels
      BY <2>1 DEF WellFormed
    <2> QED BY <1>1, <1>2, <2>2, Zenon DEF CallTyped, HandlerFits
  <1>4. CASE FetchCreated(c)
    <2>1. /\ calls[c].id \in Providers /\ onSuccess /\ UNCHANGED page
          /\ Continue(c, "provider_available_models", calls[c].id, None, {})
      BY <1>3, <1>4, Zenon DEF FetchCreated, Answered
    <2>2. PageKept /\ (page # None => PageFits(page')) /\ QueryMove
      BY <2>1, StaysAsItIs, Zenon DEF QueryMove
    <2>3. {} \subseteq ProviderModels
      OBVIOUS
    <2> QED BY <1>1, <2>1, <2>2, <2>3, FetchGoesOn
  <1>5. CASE FetchListed(c)
    <2>1. /\ calls[c].id \in Providers /\ calls[c].with \in SUBSET ProviderModels /\ UNCHANGED page
          /\ RegisterNext(c, calls[c].id, calls[c].with)
      BY <1>3, <1>5, Zenon DEF FetchListed, Answered
    <2>2. QueryMove
      BY <1>5, Zenon DEF FetchListed, QueryMove, dataVars
    <2>3. PageKept /\ (page # None => PageFits(page'))
      BY <2>1, StaysAsItIs, Zenon
    <2> QED BY <1>1, <2>1, <2>2, <2>3, RegisteringGoesOn, Zenon
  <1>6. CASE FetchRegistered(c)
    <2>1. /\ calls[c].id \in Providers /\ calls[c].with \in ProviderModels /\ onSuccess
          /\ RegisterNext(c, calls[c].id, calls[c].todo)
          /\ setState(c, [page EXCEPT !.draft.providerModels = @ \cup {calls[c].with}])
      BY <1>3, <1>6, Zenon DEF FetchRegistered, Answered
    <2>2. QueryMove
      BY <2>1, Zenon DEF QueryMove
    <2>3. PageKept /\ (page # None => PageFits(page'))
      <3>1. CASE calls[c].page = "mounted"
        <4>1. page # None /\ page.key[1] = "providers"
          BY <1>1, <3>1, CallIs, ProviderSections, Zenon
        <4>2. PICK ms : ms = page.draft.providerModels \cup {calls[c].with}
          OBVIOUS
        <4>3. page.draft.providerModels \subseteq ProviderModels
          BY <4>1, ProviderPageFacts, Zenon DEF OnPage
        <4>4. ms \in SUBSET ProviderModels
          BY <2>1, <4>2, <4>3
        <4>5. page' = [page EXCEPT !.draft.providerModels = ms]
          BY <2>1, <3>1, <4>2, Zenon DEF setState
        <4> QED BY <4>1, <4>4, <4>5, ProviderModelsSet, Zenon
      <3>2. CASE calls[c].page # "mounted"
        BY <2>1, <3>2, StaysAsItIs, Zenon DEF setState
      <3> QED BY <3>1, <3>2, Zenon
    <2> QED BY <1>1, <1>3, <2>1, <2>2, <2>3, RegisteringGoesOn, Zenon
  <1>7. CASE FetchFailed(c)
    <2>1. QueryMove /\ UNCHANGED page
      BY <1>7, Zenon DEF FetchFailed, QueryMove, dataVars
    <2>2. PageKept /\ (page # None => PageFits(page'))
      BY <2>1, StaysAsItIs, Zenon
    <2>3. CASE Over(c)
      BY <1>1, <2>1, <2>2, <2>3, Takes, Zenon DEF Over
    <2>4. CASE calls[c].op = "create_provider_model" /\ RegisterNext(c, calls[c].id, calls[c].todo)
      BY <1>1, <1>3, <2>1, <2>2, <2>4, RegisteringGoesOn, Zenon
    <2> QED BY <1>7, <2>3, <2>4, Zenon DEF FetchFailed
  <1> QED BY <1>4, <1>5, <1>6, <1>7, Zenon

LEMMA ProviderPageMoves ==
    ASSUME ClientInv, ProviderStep
    PROVE  ClientMove /\ QueryMove
PROOF
  <1>0. ASSUME OnPage("providers"),
               NEW op \in {"create_provider", "delete_provider", "update_provider",
                           "create_provider_model", "delete_provider_model",
                           "provider_available_models"},
               NEW id, NEW with,
               NEW by \in {"handleSaveProvider", "handleUpdateProvider", "handleDeleteProvider",
                           "addProviderModel", "removeProviderModel", "doFetchModels"},
               WellFormed(op, id, with),
               by = "addProviderModel" => op = "create_provider_model",
               by = "removeProviderModel" => op = "delete_provider_model",
               by = "doFetchModels" => op \in {"create_provider", "provider_available_models"},
               op = "update_provider" => id = Item,
               mutateAsync(op, id, with, by, {}), UNCHANGED page
        PROVE  ClientMove /\ QueryMove
    <2>1. HandlerFits([op |-> op, id |-> id, by |-> by, todo |-> {}])
      BY <1>0 DEF HandlerFits
    <2>2. op \in Updates => id = Item
      BY <1>0 DEF Updates
    <2>3. OnPage(SectionOf(by))
      BY <1>0, ProviderSections, Zenon
    <2>4. op # "update_mapping_policy"
      OBVIOUS
    <2> QED BY <1>0, <2>1, <2>2, <2>3, <2>4, BeginsHere
  <1>1. CASE ProviderHeader
    <2>1. OnPage("providers")
      BY <1>1, Zenon DEF ProviderHeader, handleSaveProvider, handleUpdateProvider,
                         handleDeleteProvider, OnProviderPage
    <2>2. /\ page.draft.endpoint \in Endpoints \cup {None}
          /\ ~IsNew => Item \in Providers /\ page.draft.endpoint \in Endpoints
      BY <2>1, ProviderPageFacts, Zenon
    <2>3. CASE handleSaveProvider
      <3>1. PICK e \in Endpoints : mutateAsync("create_provider", None, e, "handleSaveProvider", {})
        BY <2>2, <2>3 DEF handleSaveProvider, endpointSent
      <3>2. WellFormed("create_provider", None, e) /\ UNCHANGED page
        BY <2>3 DEF WellFormed, handleSaveProvider
      <3> QED BY <1>0, <2>1, <3>1, <3>2
    <2>4. CASE handleUpdateProvider
      <3>1. /\ ~IsNew /\ UNCHANGED page
            /\ mutateAsync("update_provider", Item, page.draft.endpoint, "handleUpdateProvider", {})
        BY <2>4, Zenon DEF handleUpdateProvider
      <3>2. WellFormed("update_provider", Item, page.draft.endpoint)
        BY <2>2, <3>1 DEF WellFormed
      <3> QED BY <1>0, <2>1, <3>1, <3>2
    <2>5. CASE handleDeleteProvider
      <3>1. /\ ~IsNew /\ UNCHANGED page
            /\ mutateAsync("delete_provider", Item, None, "handleDeleteProvider", {})
        BY <2>5, Zenon DEF handleDeleteProvider
      <3>2. WellFormed("delete_provider", Item, None)
        BY <2>2, <3>1 DEF WellFormed
      <3> QED BY <1>0, <2>1, <3>1, <3>2
    <2> QED BY <1>1, <2>3, <2>4, <2>5, Zenon DEF ProviderHeader
  <1>2. CASE ProviderStatus
    <2>1. PICK e \in Endpoints : OnPage("providers") /\ Edit([page.draft EXCEPT !.endpoint = e])
      BY <1>2, Zenon DEF ProviderStatus, editProvider, OnProviderPage
    <2>2. /\ page # None /\ page.key[1] = "providers"
          /\ page.draft \in ProviderDraft
      BY <2>1, ProviderPageFacts, Zenon
    <2>3. PICK x : x = [page.draft EXCEPT !.endpoint = e]
      OBVIOUS
    <2>4. x \in ProviderDraft /\ x.endpoint # None
      BY <2>2, <2>3, ControlPlaneAssumption DEF ProviderDraft
    <2>5. x \in DraftOf(page.key[1]) /\ page.key[1] # "models"
      BY <2>2, <2>4, Sections
    <2> QED BY <2>1, <2>2, <2>3, <2>4, <2>5, Edits
  <1>3. ASSUME NEW ms \in SUBSET ProviderModels, OnPage("providers"), IsNew,
               Edit([page.draft EXCEPT !.providerModels = ms])
        PROVE  ClientMove /\ QueryMove
    <2>1. /\ page # None /\ page.key[1] = "providers"
          /\ page.draft \in ProviderDraft
      BY <1>3, ProviderPageFacts, Zenon
    <2>2. PICK x : x = [page.draft EXCEPT !.providerModels = ms]
      OBVIOUS
    <2>3. x \in ProviderDraft
      BY <2>1, <2>2 DEF ProviderDraft
    <2>4. x \in DraftOf(page.key[1])
      BY <2>1, <2>3, Sections, Zenon
    <2>5. page.key[2] = NEW_SIDEBAR_ITEM_ID
      BY <1>3, Zenon DEF IsNew, Item
    <2> QED BY <1>3, <2>1, <2>2, <2>4, <2>5, Edits
  <1>4. CASE InputModal
    <2>1. PICK pm \in ProviderModels : addProviderModel(pm)
      BY <1>4, Zenon DEF InputModal
    <2>2. OnPage("providers")
      BY <2>1, Zenon DEF addProviderModel, OnProviderPage
    <2>3. CASE /\ mutateAsync("create_provider_model", Item, pm, "addProviderModel", {})
               /\ UNCHANGED page
      <3>1. WellFormed("create_provider_model", Item, pm)
        BY DEF WellFormed
      <3> QED BY <1>0, <2>2, <2>3, <3>1
    <2>4. CASE IsNew /\ Edit([page.draft EXCEPT !.providerModels = @ \cup {pm}])
      <3>1. PICK ms : ms = page.draft.providerModels \cup {pm}
        OBVIOUS
      <3>2. ms \in SUBSET ProviderModels
        BY <2>2, <3>1, ProviderPageFacts
      <3>3. Edit([page.draft EXCEPT !.providerModels = ms])
        BY <2>4, <3>1, Zenon
      <3> QED BY <1>3, <2>2, <2>4, <3>2, <3>3
    <2> QED BY <2>1, <2>3, <2>4, Zenon DEF addProviderModel
  <1>5. CASE \E pm \in ProviderModels : removeProviderModel(pm)
    <2>1. PICK pm \in ProviderModels : removeProviderModel(pm)
      BY <1>5, Zenon
    <2>2. OnPage("providers")
      BY <2>1, Zenon DEF removeProviderModel, OnProviderPage
    <2>3. CASE /\ mutateAsync("delete_provider_model", pm, None, "removeProviderModel", {})
               /\ UNCHANGED page
      <3>1. WellFormed("delete_provider_model", pm, None)
        BY DEF WellFormed
      <3> QED BY <1>0, <2>2, <2>3, <3>1
    <2>4. CASE IsNew /\ Edit([page.draft EXCEPT !.providerModels = @ \ {pm}])
      <3>1. PICK ms : ms = page.draft.providerModels \ {pm}
        OBVIOUS
      <3>2. ms \in SUBSET ProviderModels
        BY <2>2, <3>1, ProviderPageFacts
      <3>3. Edit([page.draft EXCEPT !.providerModels = ms])
        BY <2>4, <3>1, Zenon
      <3> QED BY <1>3, <2>2, <2>4, <3>2, <3>3
    <2> QED BY <2>1, <2>3, <2>4, Zenon DEF removeProviderModel
  <1>6. CASE doFetchModels
    <2>1. OnPage("providers") /\ UNCHANGED page
      BY <1>6, Zenon DEF doFetchModels, OnProviderPage
    <2>2. /\ page.draft.endpoint \in Endpoints \cup {None}
          /\ ~IsNew => Item \in Providers
      BY <2>1, ProviderPageFacts, Zenon
    <2>3. CASE \E e \in endpointSent : mutateAsync("create_provider", None, e, "doFetchModels", {})
      <3>1. PICK e \in Endpoints : mutateAsync("create_provider", None, e, "doFetchModels", {})
        BY <2>2, <2>3 DEF endpointSent
      <3>2. WellFormed("create_provider", None, e)
        BY DEF WellFormed
      <3> QED BY <1>0, <2>1, <3>1, <3>2
    <2>4. CASE ~IsNew /\ mutateAsync("provider_available_models", Item, None, "doFetchModels", {})
      <3>1. WellFormed("provider_available_models", Item, None)
        BY <2>2, <2>4 DEF WellFormed
      <3> QED BY <1>0, <2>1, <2>4, <3>1
    <2> QED BY <1>6, <2>3, <2>4, Zenon DEF doFetchModels
  <1>7. CASE \E c \in Live : ProviderAnswer(c)
    BY <1>7, ProviderSingleAnswers, FetchAnswers, Zenon DEF ProviderAnswer
  <1> QED
    BY <1>1, <1>2, <1>4, <1>5, <1>6, <1>7, Zenon DEF ProviderStep, ProviderModelList
-----------------------------------------------------------------------------
LEMMA PolicyPageFacts ==
    ASSUME ClientInv, OnPage("routes")
    PROVE  /\ page # None /\ page.key[1] = "routes"
           /\ page.draft \in PolicyDraft
           /\ ~IsNew => Item \in Policies
PROOF
  <1>1. page.draft \in PolicyDraft
    BY OnPageFacts, Sections, Zenon
  <1>2. ~IsNew => Item \in Policies
    BY OnPageFacts, Sections, Zenon
  <1>3. page # None /\ page.key[1] = "routes"
    BY OnPageFacts, Zenon
  <1> QED BY <1>1, <1>2, <1>3

LEMMA PolicyEdits ==
    ASSUME ClientInv, OnPage("routes"), NEW x \in PolicyDraft, Edit(x)
    PROVE  ClientMove /\ QueryMove
PROOF
  <1>1. page # None /\ page.key[1] = "routes"
    BY PolicyPageFacts, Zenon
  <1>2. /\ x \in DraftOf(page.key[1])
        /\ page.key[1] # "models" /\ page.key[1] # "providers"
    BY <1>1, Sections
  <1> QED BY <1>1, <1>2, Edits

LEMMA PolicyPageMoves ==
    ASSUME ClientInv, PolicyStep
    PROVE  ClientMove /\ QueryMove
PROOF
  <1>1. CASE handleSavePolicy
    <2>1. OnPage("routes") /\ UNCHANGED page /\ page.draft.epichust_model # None
      BY <1>1, Zenon DEF handleSavePolicy, OnPolicyPage
    <2>2. page.draft \in PolicyDraft /\ (~IsNew => Item \in Policies)
      BY <2>1, PolicyPageFacts, Zenon
    <2>3. Document(page.draft) \in Documents /\ page.draft.epichust_model \in Models
      BY <2>1, <2>2 DEF PolicyDraft, Document, Documents
    <2>4. SectionOf("handleSavePolicy") = "routes"
      BY DEF SectionOf
    <2>5. CASE mutateAsync("create_mapping_policy", None, page.draft, "handleSavePolicy", {})
      <3>1. WellFormed("create_mapping_policy", None, page.draft)
        BY <2>3 DEF WellFormed, Document
      <3>2. HandlerFits([op |-> "create_mapping_policy", id |-> None, by |-> "handleSavePolicy", todo |-> {}])
        BY DEF HandlerFits
      <3>3. "create_mapping_policy" \notin Updates
        BY DEF Updates
      <3> QED BY <2>1, <2>4, <2>5, <3>1, <3>2, <3>3, BeginsHere
    <2>6. CASE /\ ~IsNew
               /\ mutateAsync("update_mapping_policy", Item, Document(page.draft),
                              "handleSavePolicy", {})
      <3>1. WellFormed("update_mapping_policy", Item, Document(page.draft))
        BY <2>2, <2>3, <2>6 DEF WellFormed
      <3>2. HandlerFits([op |-> "update_mapping_policy", id |-> Item, by |-> "handleSavePolicy", todo |-> {}])
        BY DEF HandlerFits
      <3> QED BY <2>1, <2>4, <2>6, <3>1, <3>2, BeginsHere
    <2> QED BY <1>1, <2>5, <2>6, Zenon DEF handleSavePolicy
  <1>2. CASE handleDeletePolicy
    <2>1. /\ OnPage("routes") /\ UNCHANGED page /\ ~IsNew
          /\ mutateAsync("delete_mapping_policy", Item, None, "handleDeletePolicy", {})
      BY <1>2, Zenon DEF handleDeletePolicy, OnPolicyPage
    <2>2. Item \in Policies
      BY <2>1, PolicyPageFacts, Zenon
    <2>3. WellFormed("delete_mapping_policy", Item, None)
      BY <2>2 DEF WellFormed
    <2>4. HandlerFits([op |-> "delete_mapping_policy", id |-> Item, by |-> "handleDeletePolicy", todo |-> {}])
      BY DEF HandlerFits
    <2>5. "delete_mapping_policy" \notin Updates /\ SectionOf("handleDeletePolicy") = "routes"
      BY DEF Updates, SectionOf
    <2> QED BY <2>1, <2>3, <2>4, <2>5, BeginsHere
  <1>3. CASE PolicyStatus
    <2>1. CASE \E m \in Models : editPolicyModel(m)
      <3>1. PICK m \in Models : OnPage("routes") /\ Edit([page.draft EXCEPT !.epichust_model = m])
        BY <2>1, Zenon DEF editPolicyModel, OnPolicyPage
      <3>2. PICK x : x = [page.draft EXCEPT !.epichust_model = m]
        OBVIOUS
      <3>3. x \in PolicyDraft
        BY <3>1, <3>2, PolicyPageFacts DEF PolicyDraft
      <3> QED BY <3>1, <3>2, <3>3, PolicyEdits
    <2>2. CASE \E enabled \in BOOLEAN : editPolicyEnabled(enabled)
      <3>1. PICK enabled \in BOOLEAN : OnPage("routes") /\ Edit([page.draft EXCEPT !.enabled = enabled])
        BY <2>2, Zenon DEF editPolicyEnabled, OnPolicyPage
      <3>2. PICK x : x = [page.draft EXCEPT !.enabled = enabled]
        OBVIOUS
      <3>3. x \in PolicyDraft
        BY <3>1, <3>2, PolicyPageFacts DEF PolicyDraft
      <3> QED BY <3>1, <3>2, <3>3, PolicyEdits
    <2> QED BY <1>3, <2>1, <2>2, Zenon DEF PolicyStatus
  <1>4. CASE RuleList
    <2>1. PICK limit \in Limits \cup {None} :
              OnPage("routes") /\ Edit([page.draft EXCEPT !.rule = limit])
      BY <1>4, Zenon DEF RuleList, handleAddRateLimitRules, editRule, OnPolicyPage
    <2>2. PICK x : x = [page.draft EXCEPT !.rule = limit]
      OBVIOUS
    <2>3. x \in PolicyDraft
      BY <2>1, <2>2, PolicyPageFacts DEF PolicyDraft
    <2> QED BY <2>1, <2>2, <2>3, PolicyEdits
  <1>5. CASE RouteList
    <2>1. PICK pm \in ProviderModels : addRouteInline(pm) \/ removeRoute(pm)
      BY <1>5, Zenon DEF RouteList
    <2>2. OnPage("routes")
      BY <2>1, Zenon DEF addRouteInline, removeRoute, OnPolicyPage
    <2>3. CASE addRouteInline(pm)
      <3>1. PICK x : x = [page.draft EXCEPT !.routes = @ \cup {pm}]
        OBVIOUS
      <3>2. x \in PolicyDraft
        BY <2>2, <3>1, PolicyPageFacts DEF PolicyDraft
      <3> QED BY <2>2, <2>3, <3>1, <3>2, PolicyEdits DEF addRouteInline
    <2>4. CASE removeRoute(pm)
      <3>1. PICK x : x = [page.draft EXCEPT !.routes = @ \ {pm}]
        OBVIOUS
      <3>2. x \in PolicyDraft
        BY <2>2, <3>1, PolicyPageFacts DEF PolicyDraft
      <3> QED BY <2>2, <2>4, <3>1, <3>2, PolicyEdits DEF removeRoute
    <2> QED BY <2>1, <2>3, <2>4, Zenon
  <1>6. CASE \E c \in Live : PolicyAnswer(c)
    BY <1>6, Succeeding, Failing, StaysAsItIs, Zenon DEF PolicyAnswer
  <1> QED
    BY <1>1, <1>2, <1>3, <1>4, <1>5, <1>6, Zenon DEF PolicyStep, PolicyHeader
-----------------------------------------------------------------------------
LEMMA KeyPageFacts ==
    ASSUME ClientInv, OnPage("keys")
    PROVE  /\ page # None /\ PageFits(page) /\ page \in Page /\ page.key[1] = "keys"
           /\ page.draft \in ApiKeyDraft
           /\ ~IsNew => Item \in Keys
           /\ page.picked \subseteq Policies
PROOF
  <1>1. page.draft \in ApiKeyDraft
    BY OnPageFacts, Sections, Zenon
  <1>2. ~IsNew => Item \in Keys
    BY OnPageFacts, Sections, Zenon
  <1>3. page # None /\ PageFits(page) /\ page.key[1] = "keys"
    BY OnPageFacts, Zenon
  <1>4. page \in Page
    BY <1>3, Zenon DEF PageFits
  <1>5. page.picked \subseteq Policies
    BY <1>4 DEF Page
  <1> QED BY <1>1, <1>2, <1>3, <1>4, <1>5

LEMMA KeySections ==
    \A by \in {"handleSaveKey", "handleUpdateKey", "handleRotateKey", "handleDeleteKey",
               "handleAttachPolicies", "removeMappingPolicy"} :
        SectionOf(by) = "keys"
PROOF
  BY DEF SectionOf

\* The handler that attaches policies begins, or goes on to the next.
LEMMA AttachAnswers ==
    ASSUME ClientInv, NEW c \in Live, AttachAnswer(c)
    PROVE  ClientMove /\ QueryMove
PROOF
  <1>1. /\ calls[c].by = "handleAttachPolicies" /\ calls[c].at \in {"ok", "failed"}
        /\ calls[c].page # "other"
        /\ UNCHANGED <<db, used, sidebar, tour, page>>
    BY DEF AttachAnswer, Answered
  <1>2. QueryMove
    BY Zenon DEF AttachAnswer, QueryMove, dataVars
  <1>3. PageKept /\ (page # None => PageFits(page'))
    BY <1>1, StaysAsItIs, Zenon
  <1>4. CASE Over(c)
    BY <1>1, <1>2, <1>3, <1>4, Takes, Zenon DEF Over
  <1>5. CASE \E p \in calls[c].todo :
                calls' = [calls EXCEPT ![c].with = p, ![c].at = "sent", ![c].todo = @ \ {p}]
    <2>1. PICK p \in calls[c].todo :
                calls' = [calls EXCEPT ![c].with = p, ![c].at = "sent", ![c].todo = @ \ {p}]
      BY <1>5, Zenon
    <2>2. PICK n \in Nat : IsSequence(calls, n) /\ c \in 1..n
      BY CallIs, Zenon
    <2>3. CallFits(calls[c], page) /\ CallTyped(calls[c]) /\ HandlerFits(calls[c])
      BY <1>1, CallIs, Zenon DEF CallFits
    <2>4. PICK call : call = calls[c]
      OBVIOUS
    <2>5. /\ DOMAIN call = {"op", "id", "with", "cleared", "at", "page", "by", "todo", "of"}
          /\ WellFormed(call.op, call.id, call.with)
          /\ call.page \in {"mounted", "gone", "other"}
          /\ call.op = "attach_api_key_mapping_policy"
          /\ call.todo \subseteq Policies
      BY <1>1, <2>3, <2>4, Zenon DEF CallTyped, HandlerFits
    <2>6. PICK todo : todo = call.todo \ {p}
      OBVIOUS
    <2> DEFINE x == [call EXCEPT !.with = p, !.at = "sent", !.todo = todo]
    <2>7. calls = [i \in 1..n |-> calls[i]]
      BY <2>2, Zenon DEF IsSequence
    <2>8. calls' = [calls EXCEPT ![c] = x]
      BY <2>1, <2>2, <2>4, <2>5, <2>6, <2>7
    <2>9. /\ DOMAIN x = DOMAIN call
          /\ x.op = call.op /\ x.id = call.id /\ x.with = p
          /\ x.at = "sent" /\ x.todo = todo /\ x.page = call.page
          /\ x.by = call.by /\ x.of = call.of
      BY <2>5
    <2> HIDE DEF x
    <2>10. x.id \in Keys /\ p \in Policies /\ todo \subseteq Policies
      BY <2>1, <2>4, <2>5, <2>6, <2>9 DEF WellFormed
    <2>11. CallTyped(x)
      BY <2>5, <2>9, <2>10 DEF CallTyped, WellFormed
    <2>12. HandlerFits(x)
      BY <1>1, <2>4, <2>5, <2>9, <2>10 DEF HandlerFits
    <2>13. x.op \notin Updates
      BY <2>5, <2>9 DEF Updates
    <2>14. CallFits(x, page)
      BY <2>3, <2>4, <2>9, <2>11, <2>12, <2>13, Zenon DEF CallFits
    <2> QED BY <1>1, <1>2, <1>3, <2>8, <2>13, <2>14, Takes, Zenon
  <1> QED BY <1>4, <1>5, Zenon DEF AttachAnswer

LEMMA KeyAnswers ==
    ASSUME ClientInv, NEW c \in Live, KeyAnswer(c)
    PROVE  ClientMove /\ QueryMove
PROOF
  <1>1. CASE \E by : (Succeeds(c, by) /\ UNCHANGED page) \/ Fails(c, by)
    BY <1>1, Succeeding, Failing, StaysAsItIs, Zenon
  <1>2. ASSUME NEW by \in {"handleSaveKey", "handleRotateKey"}, Succeeds(c, by),
               setState(c, [page EXCEPT !.secret = calls[c].with])
        PROVE  ClientMove /\ QueryMove
    <2>1. calls[c].by = by /\ calls[c].at = "ok"
      BY <1>2, Zenon DEF Succeeds, Answered
    <2>2. CASE calls[c].page = "mounted"
      <3>1. SectionOf(by) = "keys"
        BY KeySections
      <3>2. page # None /\ page.key[1] = "keys"
        BY <2>1, <2>2, <3>1, CallIs, Zenon
      <3>3. PageFits(page) /\ page \in Page
        BY <3>2, KeyPageFacts, Zenon DEF OnPage
      <3>4. calls[c].with \in Hashes
        <4>1. CallTyped(calls[c]) /\ HandlerFits(calls[c])
          BY <2>2, CallIs DEF CallFits
        <4>2. calls[c].op \in {"create_api_key", "rotate_api_key"}
          BY <2>1, <4>1 DEF HandlerFits
        <4> QED BY <2>1, <4>1, <4>2, Zenon DEF CallTyped
      <3>5. PICK with \in Hashes : with = calls[c].with
        BY <3>4, Zenon
      <3>6. page' = [page EXCEPT !.secret = with]
        BY <1>2, <2>2, <3>5, Zenon DEF setState
      <3>7. page' \in Page /\ page'.key = page.key /\ page'.of = page.of /\ page'.draft = page.draft
        BY <3>3, <3>6 DEF Page
      <3>8. PageKept /\ PageFits(page')
        BY <3>2, <3>3, <3>7, ModalSet, Zenon
      <3> QED BY <1>2, <3>8, Succeeding, Zenon
    <2>3. CASE calls[c].page # "mounted"
      <3>1. UNCHANGED page
        BY <1>2, <2>3, Zenon DEF setState
      <3> QED BY <1>2, <3>1, StaysAsItIs, Succeeding, Zenon
    <2> QED BY <2>2, <2>3, Zenon
  <1>3. CASE AttachAnswer(c)
    BY <1>3, AttachAnswers, Zenon
  <1> QED BY <1>1, <1>2, <1>3, Zenon DEF KeyAnswer

\* The modals change nothing but what they show.
LEMMA ModalMoves ==
    ASSUME ClientInv, OnPage("keys"),
           \/ \E ps \in SUBSET Policies : page' = [page EXCEPT !.picked = ps]
           \/ page' = [page EXCEPT !.secret = None],
           UNCHANGED <<db, used, calls, sidebar, tour>>, QueryMove
    PROVE  ClientMove /\ QueryMove
PROOF
  <1>1. page # None /\ PageFits(page) /\ page \in Page
    BY KeyPageFacts, Zenon
  <1>2. page' \in Page /\ page'.key = page.key /\ page'.of = page.of /\ page'.draft = page.draft
    <2>1. CASE \E ps \in SUBSET Policies : page' = [page EXCEPT !.picked = ps]
      BY <1>1, <2>1 DEF Page
    <2>2. CASE page' = [page EXCEPT !.secret = None]
      BY <1>1, <2>2 DEF Page
    <2> QED BY <2>1, <2>2
  <1>3. PageKept /\ PageFits(page')
    BY <1>1, <1>2, ModalSet, Zenon
  <1>4. TourFits'
    BY Zenon DEF ClientInv, TourFits
  <1> QED BY <1>1, <1>3, <1>4, PageMoves, Zenon

LEMMA AttachBegins ==
    ASSUME ClientInv, handleAttachPolicies
    PROVE  ClientMove /\ QueryMove
PROOF
  <1>1. OnPage("keys")
    BY Zenon DEF handleAttachPolicies, OnApiKeyPage
  <1>2. /\ page # None /\ PageFits(page) /\ page \in Page /\ page.key[1] = "keys"
        /\ page.draft \in ApiKeyDraft
        /\ ~IsNew => Item \in Keys
        /\ page.picked \subseteq Policies
    BY <1>1, KeyPageFacts
  <1>3. PICK found : found = page.picked \cap Rows(data.tables.mapping_policies)
    OBVIOUS
  <1>4. found \subseteq Policies
    BY <1>2, <1>3
  <1>5. CASE /\ ~IsNew
             /\ \E p \in found :
                   mutateAsync("attach_api_key_mapping_policy", Item, p,
                               "handleAttachPolicies", found \ {p})
             /\ page' = [page EXCEPT !.picked = {}]
    <2>1. PICK p \in found :
                   mutateAsync("attach_api_key_mapping_policy", Item, p,
                               "handleAttachPolicies", found \ {p})
      BY <1>5, Zenon
    <2>2. p \in Policies /\ found \ {p} \subseteq Policies
      BY <1>4
    <2>3. WellFormed("attach_api_key_mapping_policy", Item, p)
      BY <1>2, <1>5, <2>2 DEF WellFormed
    <2>4. HandlerFits([op |-> "attach_api_key_mapping_policy", id |-> Item,
                       by |-> "handleAttachPolicies", todo |-> found \ {p}])
      BY <2>2 DEF HandlerFits
    <2>5. page' \in Page /\ page'.key = page.key /\ page'.of = page.of /\ page'.draft = page.draft
      BY <1>2, <1>5 DEF Page
    <2>6. PageKept /\ PageFits(page')
      BY <1>2, <2>5, ModalSet, Zenon
    <2>7. "attach_api_key_mapping_policy" \notin Updates
      BY DEF Updates
    <2>8. SectionOf("handleAttachPolicies") = page.key[1]
      BY <1>2, KeySections
    <2> QED BY <1>2, <2>1, <2>3, <2>4, <2>6, <2>7, <2>8, Begins
  <1>6. CASE /\ refetch
             /\ page' = [page EXCEPT !.picked = {}]
             /\ UNCHANGED <<db, used, calls, data, isError, version, acked, sidebar, tour>>
    <2>1. QueryMove
      BY <1>6, Zenon DEF QueryMove
    <2>2. \E ps \in SUBSET Policies : page' = [page EXCEPT !.picked = ps]
      BY <1>6
    <2> QED BY <1>1, <1>6, <2>1, <2>2, ModalMoves, Zenon
  <1>7. CASE /\ IsNew
             /\ page' = [page EXCEPT !.picked = {}, !.draft.mappingPolicies = @ \cup found]
             /\ UNCHANGED <<db, used, calls, dataVars, sidebar, tour>>
    <2>1. PICK draft : draft = page.draft
      OBVIOUS
    <2>2. PICK x : x = [draft EXCEPT !.mappingPolicies = @ \cup found]
      OBVIOUS
    <2>3. x \in ApiKeyDraft
      BY <1>2, <1>4, <2>1, <2>2 DEF ApiKeyDraft
    <2>4. page' = [page EXCEPT !.picked = {}, !.draft = x]
      BY <1>2, <1>7, <2>1, <2>2 DEF Page
    <2>5. page' \in Page /\ page'.key = page.key /\ page'.of = page.of /\ page'.draft = x
      BY <1>2, <2>3, <2>4 DEF Page
    <2>6. x \in DraftOf(page.key[1])
      BY <1>2, <2>3, Sections, Zenon
    <2>7. page.key[2] = NEW_SIDEBAR_ITEM_ID
      BY <1>7, Zenon DEF IsNew, Item
    <2>8. page' # None
      BY <2>5, NoneAssumption, Zenon
    <2>9. PageKept /\ PageFits(page')
      BY <1>2, <2>5, <2>6, <2>7, <2>8, Zenon DEF PageKept, PageFits
    <2>10. TourFits' /\ QueryMove
      BY <1>7, Zenon DEF ClientInv, TourFits, QueryMove
    <2> QED BY <1>2, <1>7, <2>9, <2>10, PageMoves, Zenon
  <1> QED BY <1>3, <1>5, <1>6, <1>7 DEF handleAttachPolicies

LEMMA KeyPageMoves ==
    ASSUME ClientInv, ApiKeyStep
    PROVE  ClientMove /\ QueryMove
PROOF
  <1>0. ASSUME OnPage("keys"),
               NEW op \in {"create_api_key", "update_api_key", "rotate_api_key",
                           "delete_api_key", "detach_api_key_mapping_policy"},
               NEW id, NEW with,
               NEW by \in {"handleSaveKey", "handleUpdateKey", "handleRotateKey",
                           "handleDeleteKey", "removeMappingPolicy"},
               WellFormed(op, id, with),
               by = "handleSaveKey" => op = "create_api_key",
               by = "handleRotateKey" => op = "rotate_api_key",
               op = "update_api_key" => id = Item,
               mutateAsync(op, id, with, by, {}), UNCHANGED page
        PROVE  ClientMove /\ QueryMove
    <2>1. HandlerFits([op |-> op, id |-> id, by |-> by, todo |-> {}])
      BY <1>0 DEF HandlerFits
    <2>2. op \in Updates => id = Item
      BY <1>0 DEF Updates
    <2>3. OnPage(SectionOf(by))
      BY <1>0, KeySections, Zenon
    <2>4. op # "update_mapping_policy"
      OBVIOUS
    <2> QED BY <1>0, <2>1, <2>2, <2>3, <2>4, BeginsHere
  <1>1. CASE KeyHeader
    <2>1. OnPage("keys") /\ UNCHANGED page
      BY <1>1, Zenon DEF KeyHeader, handleSaveKey, handleUpdateKey, handleDeleteKey, OnApiKeyPage
    <2>2. page.draft \in ApiKeyDraft /\ (~IsNew => Item \in Keys)
      BY <2>1, KeyPageFacts, Zenon
    <2>3. CASE mutateAsync("create_api_key", None, None, "handleSaveKey", {})
      <3>1. WellFormed("create_api_key", None, None)
        BY DEF WellFormed
      <3> QED BY <1>0, <2>1, <2>3, <3>1
    <2>4. CASE ~IsNew /\ mutateAsync("update_api_key", Item, page.draft.enabled, "handleUpdateKey", {})
      <3>1. page.draft.enabled \in BOOLEAN
        BY <2>2 DEF ApiKeyDraft
      <3>2. WellFormed("update_api_key", Item, page.draft.enabled)
        BY <2>2, <2>4, <3>1 DEF WellFormed
      <3> QED BY <1>0, <2>1, <2>4, <3>2
    <2>5. CASE ~IsNew /\ mutateAsync("delete_api_key", Item, None, "handleDeleteKey", {})
      <3>1. WellFormed("delete_api_key", Item, None)
        BY <2>2, <2>5 DEF WellFormed
      <3> QED BY <1>0, <2>1, <2>5, <3>1
    <2> QED BY <1>1, <2>3, <2>4, <2>5, Zenon DEF KeyHeader, handleSaveKey, handleUpdateKey, handleDeleteKey
  <1>2. CASE KeyStatus
    <2>1. CASE handleRotateKey
      <3>1. /\ OnPage("keys") /\ UNCHANGED page /\ ~IsNew
            /\ mutateAsync("rotate_api_key", Item, None, "handleRotateKey", {})
        BY <2>1, Zenon DEF handleRotateKey, OnApiKeyPage
      <3>2. Item \in Keys
        BY <3>1, KeyPageFacts, Zenon
      <3>3. WellFormed("rotate_api_key", Item, None)
        BY <3>2 DEF WellFormed
      <3> QED BY <1>0, <3>1, <3>3
    <2>2. CASE \E enabled \in BOOLEAN : editKeyEnabled(enabled)
      <3>1. PICK enabled \in BOOLEAN : OnPage("keys") /\ Edit([page.draft EXCEPT !.enabled = enabled])
        BY <2>2, Zenon DEF editKeyEnabled, OnApiKeyPage
      <3>2. page # None /\ page.key[1] = "keys" /\ page.draft \in ApiKeyDraft
        BY <3>1, KeyPageFacts, Zenon
      <3>3. PICK x : x = [page.draft EXCEPT !.enabled = enabled]
        OBVIOUS
      <3>4. x \in ApiKeyDraft
        BY <3>2, <3>3 DEF ApiKeyDraft
      <3>5. x \in DraftOf(page.key[1]) /\ page.key[1] # "models" /\ page.key[1] # "providers"
        BY <3>2, <3>4, Sections
      <3> QED BY <3>1, <3>2, <3>3, <3>5, Edits
    <2> QED BY <1>2, <2>1, <2>2, Zenon DEF KeyStatus
  <1>3. CASE KeyPolicyList
    <2>1. PICK p \in Policies : openKeyPolicy(p) \/ removeMappingPolicy(p)
      BY <1>3, Zenon DEF KeyPolicyList
    <2>2. CASE openKeyPolicy(p)
      BY <2>2, PolicyOpens, Zenon DEF openKeyPolicy
    <2>3. CASE /\ removeMappingPolicy(p) /\ ~IsNew
               /\ mutateAsync("detach_api_key_mapping_policy", Item, p, "removeMappingPolicy", {})
               /\ UNCHANGED page
      <3>1. OnPage("keys")
        BY <2>3, Zenon DEF removeMappingPolicy, OnApiKeyPage
      <3>2. Item \in Keys
        BY <2>3, <3>1, KeyPageFacts, Zenon
      <3>3. WellFormed("detach_api_key_mapping_policy", Item, p)
        BY <3>2 DEF WellFormed
      <3> QED BY <1>0, <2>3, <3>1, <3>3
    <2>4. CASE /\ removeMappingPolicy(p) /\ IsNew
               /\ Edit([page.draft EXCEPT !.mappingPolicies = @ \ {p}])
      <3>1. OnPage("keys")
        BY <2>4, Zenon DEF removeMappingPolicy, OnApiKeyPage
      <3>2. page # None /\ page.key[1] = "keys" /\ page.draft \in ApiKeyDraft
        BY <3>1, KeyPageFacts, Zenon
      <3>3. PICK x : x = [page.draft EXCEPT !.mappingPolicies = @ \ {p}]
        OBVIOUS
      <3>4. x \in ApiKeyDraft
        BY <3>2, <3>3 DEF ApiKeyDraft
      <3>5. x \in DraftOf(page.key[1]) /\ page.key[1] # "models" /\ page.key[1] # "providers"
        BY <3>2, <3>4, Sections
      <3> QED BY <2>4, <3>2, <3>3, <3>5, Edits
    <2> QED BY <2>1, <2>2, <2>3, <2>4, Zenon DEF removeMappingPolicy
  <1>4. CASE AddItemModal
    <2>1. CASE handleAttachPolicies
      BY <2>1, AttachBegins, Zenon
    <2>2. CASE handleClose
      <3>1. /\ OnPage("keys") /\ page' = [page EXCEPT !.picked = {}]
            /\ UNCHANGED <<db, used, calls, dataVars, sidebar, tour>>
        BY <2>2, Zenon DEF handleClose, OnApiKeyPage
      <3>2. \E ps \in SUBSET Policies : page' = [page EXCEPT !.picked = ps]
        BY <3>1
      <3> QED BY <3>1, <3>2, ModalMoves, Zenon DEF QueryMove
    <2>3. CASE \E p \in Policies : toggle(p)
      <3>1. PICK p \in Policies :
                /\ OnPage("keys")
                /\ page' = [page EXCEPT !.picked = IF p \in @ THEN @ \ {p} ELSE @ \cup {p}]
                /\ UNCHANGED <<db, used, calls, dataVars, sidebar, tour>>
        BY <2>3, Zenon DEF toggle, OnApiKeyPage
      <3>2. PICK ps : ps = IF p \in page.picked THEN page.picked \ {p} ELSE page.picked \cup {p}
        OBVIOUS
      <3>3. ps \in SUBSET Policies
        BY <3>1, <3>2, KeyPageFacts
      <3>4. page' = [page EXCEPT !.picked = ps]
        BY <3>1, <3>2, Zenon
      <3> QED BY <3>1, <3>3, <3>4, ModalMoves, Zenon DEF QueryMove
    <2> QED BY <1>4, <2>1, <2>2, <2>3, Zenon DEF AddItemModal
  <1>5. CASE closeSecret
    <2>1. /\ OnPage("keys") /\ page' = [page EXCEPT !.secret = None]
          /\ UNCHANGED <<db, used, calls, dataVars, sidebar, tour>>
      BY <1>5, Zenon DEF closeSecret, OnApiKeyPage
    <2> QED BY <2>1, ModalMoves, Zenon DEF QueryMove
  <1>6. CASE \E c \in Live : KeyAnswer(c)
    BY <1>6, KeyAnswers, Zenon
  <1> QED
    BY <1>1, <1>2, <1>3, <1>4, <1>5, <1>6, Zenon DEF ApiKeyStep
-----------------------------------------------------------------------------
LEMMA NavigationMoves ==
    ASSUME ClientInv, Navigate
    PROVE  ClientMove /\ QueryMove
PROOF
  <1>0. ASSUME SidebarFits(sidebar'), Render(sidebar', data), UNCHANGED <<db, used, tour>>, QueryMove
        PROVE  ClientMove /\ QueryMove
    <2>1. data' = data
      BY <1>0, QueryKeepsData, Zenon
    <2>2. PictureFits(data') /\ Render(sidebar', data')
      BY <1>0, <2>1, Zenon DEF ClientInv
    <2>3. CallsInv' /\ PageInv' /\ SavesBut(calls, calls', {})
      BY <1>0, <2>2, RenderFits, Zenon DEF ClientInv
    <2>4. TourFits'
      BY <1>0, Zenon DEF ClientInv, TourFits
    <2> QED BY <1>0, <2>3, <2>4, Zenon DEF ClientMove, SavesMove
  <1>1. CASE \E resource \in tour.sections : setSidebarResource(resource)
    <2>1. PICK resource \in tour.sections : setSidebarResource(resource)
      BY <1>1, Zenon
    <2>2. sidebar' = [resource |-> resource, selected |-> None]
      BY <2>1, Zenon DEF setSidebarResource
    <2>3. resource \in SidebarResource
      BY <2>1 DEF ClientInv, TourFits
    <2>4. SidebarFits(sidebar')
      BY <2>2, <2>3 DEF SidebarFits
    <2>5. QueryMove
      BY <2>1, Zenon DEF setSidebarResource, useAdminData, QueryMove, refetch, dataVars
    <2>6. Render(sidebar', data) /\ UNCHANGED <<db, used, tour>>
      BY <2>1, Zenon DEF setSidebarResource
    <2> QED BY <1>0, <2>4, <2>5, <2>6, Zenon
  <1>2. CASE \E id \in Models \cup Providers \cup Policies \cup Keys \cup {NEW_SIDEBAR_ITEM_ID} :
                setSelectedSidebarItemId(id)
    <2>1. PICK id \in Ids : setSelectedSidebarItemId(id)
      BY <1>2, Zenon DEF Ids
    <2>2. sidebar' = [sidebar EXCEPT !.selected = id]
      BY <2>1, Zenon DEF setSelectedSidebarItemId
    <2>3. SidebarFits(sidebar')
      BY <2>1, <2>2 DEF SidebarFits, ClientInv, PageInv
    <2>4. /\ Render(sidebar', data) /\ UNCHANGED <<db, used, tour>> /\ QueryMove
      BY <2>1, Zenon DEF setSelectedSidebarItemId, QueryMove
    <2> QED BY <1>0, <2>3, <2>4, Zenon
  <1>3. CASE onRefresh
    <2>1. QueryMove /\ UNCHANGED <<db, used, calls, data, sidebar, tour, page>>
      BY <1>3, Zenon DEF onRefresh, QueryMove
    <2>2. CallsInv' /\ TourFits'
      BY <2>1, Zenon DEF ClientInv, CallsInv, TourFits
    <2>3. PageInv'
      BY <2>1, Zenon DEF ClientInv, PageInv, Shown
    <2> QED BY <2>1, <2>2, <2>3, SavesStay, Zenon DEF ClientMove
  <1> QED BY <1>1, <1>2, <1>3, Zenon DEF Navigate

\* Another administrator sends a request.
LEMMA OthersMove ==
    ASSUME ClientInv, OtherCall
    PROVE  ClientMove /\ QueryMove
PROOF
  <1>1. PICK other \in tour.others :
            calls' = Append(calls, [NewCall(other.op, other.id, other.with, None, {})
                                        EXCEPT !.page = "other", !.of = None])
    BY Zenon DEF OtherCall
  <1>2. /\ Len(calls) < tour.calls
        /\ UNCHANGED <<db, used, dataVars, sidebar, tour, page>>
    BY Zenon DEF OtherCall
  <1>3. PICK op, id, with : op = other.op /\ id = other.id /\ with = other.with
    OBVIOUS
  <1>4. WellFormed(op, id, with)
    <2>1. other \in Others
      BY <1>1 DEF ClientInv, TourFits
    <2> QED BY <1>3, <2>1, OthersAssumption, Zenon
  <1>5. PICK x : x = [NewCall(op, id, with, None, {}) EXCEPT !.page = "other", !.of = None]
    OBVIOUS
  <1>6. /\ DOMAIN x = {"op", "id", "with", "cleared", "at", "page", "by", "todo", "of"}
        /\ x.op = op /\ x.id = id /\ x.with = with /\ x.cleared = {} /\ x.at = "sent"
        /\ x.page = "other" /\ x.by = None /\ x.todo = {} /\ x.of = None
        /\ x \in [op : {op}, id : {id}, with : {with}, cleared : {{}}, at : {"sent"},
                  page : {"mounted", "other"}, by : {None}, todo : {{}}, of : {x.of}]
    <2>1. PICK of : of = IF page = None THEN None ELSE page.of
      OBVIOUS
    <2>2. PICK y : y = NewCall(op, id, with, None, {})
      OBVIOUS
    <2>3. y = [op |-> op, id |-> id, with |-> with, cleared |-> {}, at |-> "sent",
               page |-> "mounted", by |-> None, todo |-> {}, of |-> of]
      BY <2>1, <2>2, Zenon DEF NewCall
    <2>4. x = [y EXCEPT !.page = "other", !.of = None]
      BY <1>5, <2>2, Zenon
    <2> QED BY <2>3, <2>4
  <1>7. calls' = Append(calls, x)
    BY <1>1, <1>3, <1>5, Zenon
  <1>8. op = "update_mapping_policy" => x \in SaveCall
    <2>1. op = "update_mapping_policy" => id \in Policies /\ with \in Documents
      BY <1>4 DEF WellFormed
    <2> QED BY <1>6, <2>1 DEF SaveCall
  <1>9. CallFits(x, page)
    <2>1. CallTyped(x)
      BY <1>4, <1>6, <1>8 DEF CallTyped
    <2>2. x.page = "other"
      BY <1>6
    <2> QED BY <2>1, <2>2 DEF CallFits
  <1>10. Len(calls) < MaxCalls
    <2>1. Len(calls) \in 0..MaxCalls
      BY CallsFacts, Zenon DEF ClientInv, CallsInv
    <2>2. tour.calls \in 0..MaxCalls
      BY DEF ClientInv, TourFits
    <2> QED BY <1>2, <2>1, <2>2, MaxCallsAssumption
  <1>11. x.at = "sent"
    BY <1>6
  <1>12. CallsFit(calls', page) /\ SavesMove(calls, calls')
    BY <1>7, <1>9, <1>10, <1>11, AppendFits, Zenon DEF ClientInv, CallsInv
  <1>13. CallsInv' /\ TourFits'
    BY <1>2, <1>12, Zenon DEF CallsInv, ClientInv, TourFits
  <1>14. PageInv'
    <2>1. UNCHANGED <<data, sidebar, page>>
      BY <1>2, Zenon DEF dataVars
    <2> QED BY <2>1, Zenon DEF ClientInv, PageInv, Shown
  <1> QED BY <1>2, <1>12, <1>13, <1>14, Zenon DEF ClientMove, QueryMove

LEMMA FailuresMove ==
    ASSUME ClientInv, DataFails
    PROVE  ClientMove /\ QueryMove
PROOF
  <1>1. FetchFails /\ UNCHANGED <<db, used, calls, sidebar, tour, page>>
    BY Zenon DEF DataFails
  <1>2. QueryMove /\ UNCHANGED data
    BY <1>1, Zenon DEF QueryMove, FetchFails
  <1>3. CallsInv' /\ TourFits'
    BY <1>1, Zenon DEF ClientInv, CallsInv, TourFits
  <1>4. PageInv'
    BY <1>1, <1>2, Zenon DEF ClientInv, PageInv, Shown
  <1> QED BY <1>1, <1>2, <1>3, <1>4, SavesStay, Zenon DEF ClientMove
-----------------------------------------------------------------------------
\* A fetch has seen the tables of now last, and if none changed, only these.
FetchFits ==
    /\ fetch \in Fetch
    /\ \E n \in Nat \ {0} :
          /\ Len(fetch.seen) = n /\ DOMAIN fetch.seen = 1..n /\ fetch.seen[n] = db
          /\ fetch.since = version => \A i \in 1..n : fetch.seen[i] = db
    /\ fetch.since <= version /\ acked <= fetch.since

DataInv ==
    /\ version \in Nat /\ acked \in Nat /\ acked <= version
    /\ PictureFits(data) /\ (data # None => data.asOf <= version)
    /\ fetch # None => FetchFits
    /\ OwnChangesShown
    /\ QuietPictureIsExact

\* A fetch begins.
LEMMA StartFits ==
    ASSUME Sound(db'), version' \in Nat, acked' \in Nat, acked' <= version',
           NEW count \in 0..1, fetch' = [seen |-> <<db'>>, since |-> version', failureCount |-> count]
    PROVE  fetch' # None /\ FetchFits'
PROOF
  <1>1. db' \in Tables
    BY DEF Sound
  <1>2. <<db'>> \in Seq(Tables) /\ Len(<<db'>>) = 1 /\ DOMAIN <<db'>> = 1..1 /\ <<db'>>[1] = db'
    BY <1>1
  <1>3. fetch' \in Fetch
    BY <1>2 DEF Fetch
  <1>4. fetch'.seen = <<db'>> /\ fetch'.since = version'
    OBVIOUS
  <1>5. \A i \in 1..1 : <<db'>>[i] = db'
    BY <1>2
  <1>6. 1 \in Nat \ {0}
    OBVIOUS
  <1>7. FetchFits'
    BY <1>2, <1>3, <1>4, <1>5, <1>6 DEF FetchFits
  <1> QED BY <1>3, <1>7, DataAssumption, Zenon

\* The console's steps, but for the arrival of a picture.
LEMMA QueryKeepsDataInv ==
    ASSUME DataInv, Sound(db), UNCHANGED db, QueryMove
    PROVE  DataInv'
PROOF
  <1>0. /\ version \in Nat /\ acked \in Nat /\ acked <= version
        /\ PictureFits(data) /\ (data # None => data.asOf <= version)
        /\ OwnChangesShown /\ QuietPictureIsExact
    BY Zenon DEF DataInv
  <1>1. ASSUME NEW count \in 0..1, fetch' = StartFetch(count),
               UNCHANGED <<data, version>>, acked' = acked \/ acked' = version
        PROVE  DataInv'
    <2>1. fetch' = [seen |-> <<db'>>, since |-> version', failureCount |-> count]
      BY <1>1, Zenon DEF StartFetch
    <2>2. version' \in Nat /\ acked' \in Nat /\ acked' <= version'
      BY <1>0, <1>1
    <2>3. Sound(db')
      BY Zenon
    <2>4. fetch' # None /\ FetchFits'
      BY <2>1, <2>2, <2>3, StartFits, Zenon
    <2>5. OwnChangesShown'
      BY <2>4, Zenon DEF OwnChangesShown
    <2>6. PictureFits(data') /\ (data' # None => data'.asOf <= version') /\ QuietPictureIsExact'
      BY <1>0, <1>1, Zenon DEF QuietPictureIsExact
    <2> QED BY <2>2, <2>4, <2>5, <2>6, Zenon DEF DataInv
  <1>2. CASE UNCHANGED dataVars
    BY <1>2, Zenon DEF DataInv, dataVars, FetchFits, OwnChangesShown, QuietPictureIsExact
  <1>3. CASE refetch /\ UNCHANGED <<data, isError, version, acked>>
    BY <1>1, <1>3 DEF refetch
  <1>4. CASE onSuccess
    BY <1>1, <1>4 DEF refetch, onSuccess
  <1>5. CASE FetchFails
    <2>1. CASE fetch' = StartFetch(1)
      BY <1>1, <1>5, <2>1 DEF FetchFails
    <2>2. CASE fetch' = None /\ isError' = TRUE
      <3>1. UNCHANGED <<data, version, acked>>
        BY <1>5, Zenon DEF FetchFails
      <3>2. OwnChangesShown'
        BY <2>2, Zenon DEF OwnChangesShown
      <3>3. QuietPictureIsExact'
        BY <1>0, <3>1, Zenon DEF QuietPictureIsExact
      <3> QED BY <1>0, <2>2, <3>1, <3>2, <3>3, Zenon DEF DataInv
    <2> QED BY <1>5, <2>1, <2>2, Zenon DEF FetchFails
  <1> QED BY <1>2, <1>3, <1>4, <1>5, Zenon DEF QueryMove

\* The tables change under the query.
LEMMA WatchKeepsDataInv ==
    ASSUME DataInv, Sound(db'), WatchTables
    PROVE  DataInv'
PROOF
  <1>0. /\ version \in Nat /\ acked \in Nat /\ acked <= version
        /\ PictureFits(data) /\ (data # None => data.asOf <= version)
        /\ OwnChangesShown /\ QuietPictureIsExact
    BY Zenon DEF DataInv
  <1>1. UNCHANGED <<data, isError, acked>>
    BY Zenon DEF WatchTables
  <1>2. CASE db' = db
    <2>1. version' = version /\ fetch' = fetch
      BY <1>2, Zenon DEF WatchTables
    <2> QED BY <1>1, <1>2, <2>1, Zenon DEF DataInv, FetchFits, OwnChangesShown, QuietPictureIsExact
  <1>3. CASE db' # db
    <2>1. /\ version' = version + 1
          /\ fetch = None => fetch' = None
          /\ fetch # None => fetch' = [fetch EXCEPT !.seen = Append(@, db')]
      BY <1>3, Zenon DEF WatchTables
    <2>2. version' \in Nat /\ acked' \in Nat /\ acked' <= version' /\ version' > version
      BY <1>0, <1>1, <2>1
    <2>3. data' # None => data'.asOf <= version' /\ data'.asOf # version'
      <3>1. data # None => data.asOf \in Nat
        BY <1>0 DEF PictureFits, Picture
      <3> QED BY <1>0, <1>1, <2>1, <3>1
    <2>4. QuietPictureIsExact'
      BY <2>3, Zenon DEF QuietPictureIsExact
    <2>5. fetch # None => fetch' # None /\ FetchFits'
      <3> SUFFICES ASSUME fetch # None PROVE fetch' # None /\ FetchFits'
        OBVIOUS
      <3>1. FetchFits
        BY Zenon DEF DataInv
      <3>2. PICK n \in Nat \ {0} :
                Len(fetch.seen) = n /\ DOMAIN fetch.seen = 1..n
        BY <3>1, Zenon DEF FetchFits
      <3>3. /\ fetch.seen \in Seq(Tables) /\ fetch.since \in Nat /\ fetch.since <= version
            /\ acked <= fetch.since /\ fetch \in Fetch
        BY <3>1 DEF FetchFits, Fetch
      <3>4. PICK t : t = Append(fetch.seen, db')
        OBVIOUS
      <3>5. /\ t \in Seq(Tables) /\ Len(t) = n + 1 /\ t[n + 1] = db' /\ DOMAIN t = 1..(n + 1)
        BY <3>2, <3>3, <3>4, AppendProperties, LenProperties DEF Sound
      <3>6. fetch' = [fetch EXCEPT !.seen = t]
        BY <2>1, <3>4, Zenon
      <3>7. fetch' \in Fetch /\ fetch'.seen = t /\ fetch'.since = fetch.since
        BY <3>3, <3>5, <3>6 DEF Fetch
      <3>8. fetch'.since # version' /\ fetch'.since <= version' /\ acked' <= fetch'.since
        BY <1>0, <1>1, <2>1, <3>3, <3>7
      <3>9. n + 1 \in Nat \ {0}
        BY <3>2
      <3>10. FetchFits'
        BY <3>5, <3>7, <3>8, <3>9, Zenon DEF FetchFits
      <3> QED BY <3>7, <3>10, DataAssumption, Zenon
    <2>6. OwnChangesShown'
      BY <1>0, <1>1, <2>1, <2>5, Zenon DEF OwnChangesShown
    <2> QED BY <1>0, <1>1, <2>1, <2>2, <2>3, <2>4, <2>5, <2>6, Zenon DEF DataInv
  <1> QED BY <1>2, <1>3, Zenon

\* A picture with parts of several moments.
Torn(m, v, x, h, r, l, k, a) ==
    [epichust_models          |-> m.epichust_models,
     providers                |-> v.providers,
     provider_models          |-> x.provider_models,
     mapping_policies         |-> h.mapping_policies,
     mapping_policy_routes    |-> {s \in r.mapping_policy_routes : h.mapping_policies[s[1]] # None},
     rate_limit_rules         |-> [p \in Policies |-> IF h.mapping_policies[p] = None THEN None
                                                      ELSE l.rate_limit_rules[p]],
     api_keys                 |-> k.api_keys,
     api_key_mapping_policies |-> {s \in a.api_key_mapping_policies : k.api_keys[s[1]] # None}]

IsTorn(parts, m, v, x, h, r, l, k, a) ==
    Assembled(parts) = Torn(m, v, x, h, r, l, k, a) /\ parts.policies.heads = h.mapping_policies

Seen == {fetch.seen[i] : i \in DOMAIN fetch.seen}

LEMMA PartsAreTorn ==
    ASSUME NEW parts \in getAdminData
    PROVE  \E m, v, x, h, r, l, k, a \in Seen : IsTorn(parts, m, v, x, h, r, l, k, a)
PROOF
  <1>1. /\ parts.epichust_models \in Found("epichust_models")
        /\ parts.providers \in Found("providers")
        /\ parts.provider_models \in Found("provider_models")
        /\ parts.policies \in FoundPolicies
        /\ parts.keys \in FoundKeys
    BY DEF getAdminData
  <1>2. PICK m, v, x \in Seen : /\ parts.epichust_models = m.epichust_models
                                /\ parts.providers = v.providers
                                /\ parts.provider_models = x.provider_models
    <2>1. PICK m \in Seen : parts.epichust_models = m.epichust_models
      BY <1>1 DEF Found, Seen
    <2>2. PICK v \in Seen : parts.providers = v.providers
      BY <1>1 DEF Found, Seen
    <2>3. PICK x \in Seen : parts.provider_models = x.provider_models
      BY <1>1 DEF Found, Seen
    <2> QED BY <2>1, <2>2, <2>3
  <1>3. PICK h, r, l \in Seen :
            parts.policies = [heads  |-> h.mapping_policies,
                              routes |-> {s \in r.mapping_policy_routes : h.mapping_policies[s[1]] # None},
                              rules  |-> [p \in Policies |-> IF h.mapping_policies[p] = None THEN None
                                                             ELSE l.rate_limit_rules[p]]]
    <2>1. PICK t \in Moments(3) :
            parts.policies =
              LET heads == fetch.seen[t[1]].mapping_policies IN
              [heads  |-> heads,
               routes |-> {s \in fetch.seen[t[2]].mapping_policy_routes : heads[s[1]] # None},
               rules  |-> [p \in Policies |-> IF heads[p] = None THEN None
                                              ELSE fetch.seen[t[3]].rate_limit_rules[p]]]
      BY <1>1, Zenon DEF FoundPolicies
    <2>2. t[1] \in DOMAIN fetch.seen /\ t[2] \in DOMAIN fetch.seen /\ t[3] \in DOMAIN fetch.seen
      BY DEF Moments
    <2>3. fetch.seen[t[1]] \in Seen /\ fetch.seen[t[2]] \in Seen /\ fetch.seen[t[3]] \in Seen
      BY <2>2, Zenon DEF Seen
    <2> QED BY <2>1, <2>3, Zenon
  <1>4. PICK k, a \in Seen :
            parts.keys = [keys  |-> k.api_keys,
                          links |-> {s \in a.api_key_mapping_policies : k.api_keys[s[1]] # None}]
    <2>1. PICK t \in Moments(2) :
            parts.keys =
              LET keys == fetch.seen[t[1]].api_keys IN
              [keys  |-> keys,
               links |-> {s \in fetch.seen[t[2]].api_key_mapping_policies : keys[s[1]] # None}]
      BY <1>1, Zenon DEF FoundKeys
    <2>2. t[1] \in DOMAIN fetch.seen /\ t[2] \in DOMAIN fetch.seen
      BY DEF Moments
    <2>3. fetch.seen[t[1]] \in Seen /\ fetch.seen[t[2]] \in Seen
      BY <2>2, Zenon DEF Seen
    <2> QED BY <2>1, <2>3, Zenon
  <1>5. /\ parts.policies.heads = h.mapping_policies
        /\ parts.policies.routes = {s \in r.mapping_policy_routes : h.mapping_policies[s[1]] # None}
        /\ parts.policies.rules = [p \in Policies |-> IF h.mapping_policies[p] = None THEN None
                                                      ELSE l.rate_limit_rules[p]]
    BY <1>3
  <1>6. /\ parts.keys.keys = k.api_keys
        /\ parts.keys.links = {s \in a.api_key_mapping_policies : k.api_keys[s[1]] # None}
    BY <1>4
  <1>7. Assembled(parts) = Torn(m, v, x, h, r, l, k, a)
    BY <1>2, <1>5, <1>6, Zenon DEF Assembled, Torn
  <1>8. IsTorn(parts, m, v, x, h, r, l, k, a)
    BY <1>5, <1>7, Zenon DEF IsTorn
  <1> QED BY <1>8, Zenon

LEMMA TornIsTyped ==
    ASSUME NEW m \in Tables, NEW v \in Tables, NEW x \in Tables, NEW h \in Tables,
           NEW r \in Tables, NEW l \in Tables, NEW k \in Tables, NEW a \in Tables
    PROVE  Torn(m, v, x, h, r, l, k, a) \in Tables
PROOF
  <1>1. /\ m.epichust_models \in [Models -> Names \cup {None}]
        /\ v.providers \in [Providers -> Endpoints \cup {None}]
        /\ x.provider_models \in SUBSET ProviderModels
        /\ h.mapping_policies \in [Policies -> Policy \cup {None}]
        /\ k.api_keys \in [Keys -> ApiKey \cup {None}]
    BY DEF Tables
  <1>2. {s \in r.mapping_policy_routes : h.mapping_policies[s[1]] # None}
            \in SUBSET (Policies \X ProviderModels)
    BY DEF Tables
  <1>3. [p \in Policies |-> IF h.mapping_policies[p] = None THEN None ELSE l.rate_limit_rules[p]]
            \in [Policies -> Limits \cup {None}]
    BY DEF Tables
  <1>4. {s \in a.api_key_mapping_policies : k.api_keys[s[1]] # None} \in SUBSET (Keys \X Policies)
    BY DEF Tables
  <1> QED BY <1>1, <1>2, <1>3, <1>4, Zenon DEF Tables, Torn

\* A picture of one moment is that of the tables.
LEMMA UntornIsExact ==
    ASSUME NEW d, Sound(d)
    PROVE  Torn(d, d, d, d, d, d, d, d) = d
PROOF
  <1>1. d \in Tables /\ References(d)
    BY DEF Sound
  <1>2. {s \in d.mapping_policy_routes : d.mapping_policies[s[1]] # None} = d.mapping_policy_routes
    BY <1>1 DEF References
  <1>3. {s \in d.api_key_mapping_policies : d.api_keys[s[1]] # None} = d.api_key_mapping_policies
    BY <1>1 DEF References
  <1>4. [p \in Policies |-> IF d.mapping_policies[p] = None THEN None ELSE d.rate_limit_rules[p]]
            = d.rate_limit_rules
    <2>1. d.rate_limit_rules \in [Policies -> Limits \cup {None}]
      BY <1>1 DEF Tables
    <2>2. \A p \in Policies : d.mapping_policies[p] = None => d.rate_limit_rules[p] = None
      BY <1>1, Zenon DEF References
    <2> QED BY <2>1, <2>2
  <1>5. d = [epichust_models          |-> d.epichust_models,
             providers                |-> d.providers,
             provider_models          |-> d.provider_models,
             mapping_policies         |-> d.mapping_policies,
             mapping_policy_routes    |-> d.mapping_policy_routes,
             rate_limit_rules         |-> d.rate_limit_rules,
             api_keys                 |-> d.api_keys,
             api_key_mapping_policies |-> d.api_key_mapping_policies]
    BY <1>1 DEF Tables
  <1> QED BY <1>2, <1>3, <1>4, <1>5, Zenon DEF Torn

\* A picture arrives.
LEMMA ArriveKeepsDataInv ==
    ASSUME DataInv, Sound(db), UNCHANGED db, Arrive
    PROVE  DataInv' /\ data' # None
PROOF
  <1>1. PICK parts \in getAdminData : \E first \in FirstIn(parts.policies.heads) :
            data' = [tables |-> Assembled(parts), first |-> first, asOf |-> fetch.since]
    BY Zenon DEF Arrive
  <1>2. PICK first \in FirstIn(parts.policies.heads) :
            data' = [tables |-> Assembled(parts), first |-> first, asOf |-> fetch.since]
    BY <1>1, Zenon
  <1>3. fetch # None /\ fetch' = None /\ UNCHANGED <<version, acked>>
    BY Zenon DEF Arrive
  <1>4. FetchFits /\ version \in Nat /\ acked \in Nat /\ acked <= version
    BY <1>3, Zenon DEF DataInv
  <1>5. PICK n \in Nat \ {0} :
            /\ DOMAIN fetch.seen = 1..n
            /\ fetch.since = version => \A i \in 1..n : fetch.seen[i] = db
    BY <1>4, Zenon DEF FetchFits
  <1>6. /\ fetch.seen \in Seq(Tables) /\ fetch.since \in Nat
        /\ fetch.since <= version /\ acked <= fetch.since
    BY <1>4 DEF FetchFits, Fetch
  <1>7. Seen \subseteq Tables
    BY <1>6 DEF Seen
  <1>8. PICK m, v, x, h, r, l, k, a \in Seen : IsTorn(parts, m, v, x, h, r, l, k, a)
    BY PartsAreTorn, Zenon
  <1>9. PICK d : d = Assembled(parts)
    OBVIOUS
  <1>10. d = Torn(m, v, x, h, r, l, k, a) /\ parts.policies.heads = h.mapping_policies
    BY <1>8, <1>9, Zenon DEF IsTorn
  <1>11. d \in Tables
    BY <1>7, <1>10, TornIsTyped, Zenon
  <1>12. d.mapping_policies = h.mapping_policies
    BY <1>10 DEF Torn
  <1>13. first \in FirstIn(d.mapping_policies)
    BY <1>2, <1>10, <1>12, Zenon
  <1>14. first \in Policies \cup {None}
    BY <1>11, <1>13 DEF FirstIn, Rows, Tables
  <1>15. data' = [tables |-> d, first |-> first, asOf |-> fetch.since]
    BY <1>2, <1>9, Zenon
  <1>16. /\ data' \in Picture /\ data'.tables = d /\ data'.first = first
         /\ data'.asOf = fetch.since
    BY <1>6, <1>11, <1>14, <1>15 DEF Picture
  <1>17. PictureFits(data') /\ data' # None
    BY <1>13, <1>16, DataAssumption, Zenon DEF PictureFits
  <1>18. OwnChangesShown'
    BY <1>3, <1>6, <1>16 DEF OwnChangesShown
  <1>19. QuietPictureIsExact'
    <2>1. SUFFICES ASSUME fetch.since = version
                   PROVE  d = db
      BY <1>3, <1>16, Zenon DEF QuietPictureIsExact
    <2>2. \A d1 \in Seen : d1 = db
      BY <1>5, <2>1 DEF Seen
    <2>3. m = db /\ v = db /\ x = db /\ h = db /\ r = db /\ l = db /\ k = db /\ a = db
      BY <2>2, Zenon
    <2>4. d = Torn(db, db, db, db, db, db, db, db)
      BY <1>10, <2>3, Zenon
    <2> QED BY <2>4, UntornIsExact, Zenon
  <1>20. data'.asOf <= version'
    BY <1>3, <1>6, <1>16
  <1> QED BY <1>3, <1>4, <1>17, <1>18, <1>19, <1>20, Zenon DEF DataInv

LEMMA ArrivalsMove ==
    ASSUME ClientInv, DataInv, Sound(db), DataArrives
    PROVE  ClientMove /\ DataInv' /\ data' # None
PROOF
  <1>1. Arrive /\ Render(sidebar, data') /\ UNCHANGED <<db, used, sidebar, tour>>
    BY Zenon DEF DataArrives
  <1>2. DataInv' /\ data' # None
    BY <1>1, ArriveKeepsDataInv, Zenon
  <1>3. PictureFits(data')
    BY <1>2, Zenon DEF DataInv
  <1>4. SidebarFits(sidebar') /\ Render(sidebar', data')
    BY <1>1, Zenon DEF ClientInv, PageInv, SidebarFits
  <1>5. CallsInv' /\ PageInv' /\ SavesBut(calls, calls', {})
    BY <1>3, <1>4, RenderFits, Zenon DEF ClientInv
  <1>6. TourFits'
    BY <1>1, Zenon DEF ClientInv, TourFits
  <1> QED BY <1>1, <1>2, <1>5, <1>6, Zenon DEF ClientMove, SavesMove
-----------------------------------------------------------------------------
\* A transaction holds its policy and its targets, and has seen every route
\* its policy has.
Transacting(cs, c) == Saving(cs, c) /\ cs[c].at = "replaced"

TransactionFits(d, call) ==
    /\ d.mapping_policies[call.id] # None
    /\ call.with.routes \subseteq d.provider_models
    /\ \A r \in d.mapping_policy_routes : r[1] = call.id => r[2] \in call.cleared

\* No two transactions are about one policy.
TransactionsInv ==
    /\ \A c \in Callers : Transacting(calls, c) => TransactionFits(db, calls[c])
    /\ \A c, e \in Callers :
          Transacting(calls, c) /\ Transacting(calls, e) /\ calls[c].id = calls[e].id => c = e

\* What the admin API does: it changes the tables for a request that is no
\* save, or takes a save one step further.
Replaces(c) ==
    /\ UNCHANGED <<db, used>>
    /\ SavesBut(calls, calls', {c})
    /\ Saving(calls, c) /\ Saving(calls', c)
    /\ calls'[c].at = "replaced" /\ calls'[c].id = calls[c].id /\ calls'[c].with = calls[c].with
    /\ calls'[c].cleared = DocumentOf(db, calls[c].id).routes
    /\ ~RowLocked(calls[c].id)
    /\ db.mapping_policies[calls[c].id] # None
    /\ calls[c].with.routes \subseteq db.provider_models

Commits(c) ==
    /\ UNCHANGED used
    /\ SavesBut(calls, calls', {c})
    /\ Transacting(calls, c) /\ ~Saving(calls', c)
    /\ LET call == calls[c] IN
       IsWritten(db, db', call.id, [db.mapping_policies[call.id] EXCEPT !.enabled = call.with.enabled],
                 call.with.rule, call.with.routes, db.mapping_policy_routes \ ({call.id} \X call.cleared))

Refuses(c) ==
    /\ UNCHANGED <<db, used>>
    /\ SavesBut(calls, calls', {c})
    /\ Saving(calls, c) /\ ~Saving(calls', c)

ServerMove ==
    \/ TablesMove /\ UsedGrows /\ SavesBut(calls, calls', {})
    \/ \E c \in Callers : Replaces(c) \/ Commits(c) \/ Refuses(c)

LEMMA SaveIs ==
    ASSUME CallsInv, NEW c, Saving(calls, c)
    PROVE  /\ calls[c] \in SaveCall
           /\ calls[c].id \in Policies /\ calls[c].with \in Documents
           /\ calls[c].with.enabled \in BOOLEAN
           /\ calls[c].with.rule \in Limits \cup {None}
           /\ calls[c].with.routes \subseteq ProviderModels
           /\ calls[c].cleared \subseteq ProviderModels
PROOF
  <1>1. CallTyped(calls[c]) /\ calls[c].op = "update_mapping_policy"
    BY Zenon DEF CallsInv, CallsFit, CallFits, Saving
  <1>2. calls[c] \in SaveCall
    BY <1>1, Zenon DEF CallTyped
  <1>3. calls[c].id \in Policies /\ calls[c].with \in Documents /\ calls[c].cleared \subseteq ProviderModels
    BY <1>2 DEF SaveCall
  <1> QED BY <1>2, <1>3 DEF Documents

LEMMA TransactionIs ==
    ASSUME CallsInv, NEW c
    PROVE  InTransaction(c) <=> c \in Callers /\ Transacting(calls, c)
PROOF
  <1>1. DOMAIN calls \subseteq Callers
    BY CallsFacts, Zenon DEF CallsInv
  <1>2. c \in Live /\ calls[c].at = "replaced" => calls[c].op = "update_mapping_policy"
    BY Zenon DEF Live, CallsInv, CallsFit, CallFits, CallTyped
  <1> QED BY <1>1, <1>2 DEF InTransaction, Transacting, Saving, Live

\* One request changes while its page stays as it is.
LEMMA OneCallChanges ==
    ASSUME CallsInv, UNCHANGED page, NEW c \in Live,
           NEW x, x = None \/ CallFits(x, page), calls' = [calls EXCEPT ![c] = x]
    PROVE  CallsInv' /\ SavesBut(calls, calls', {c}) /\ c \in Callers
           /\ DOMAIN calls' = DOMAIN calls /\ calls'[c] = x
PROOF
  <1>1. c \in DOMAIN calls /\ calls[c] # None /\ c \in Callers
    BY CallsFacts, Zenon DEF Live, CallsInv
  <1>2. PICK n \in 0..MaxCalls : IsSequence(calls, n)
    BY DEF CallsInv, CallsFit
  <1>3. IsSequence(calls', n)
    <2>1. calls = [i \in 1..n |-> calls[i]]
      BY <1>2, Zenon DEF IsSequence
    <2>2. [calls EXCEPT ![c] = x] = [i \in 1..n |-> [calls EXCEPT ![c] = x][i]]
      BY <2>1
    <2> QED BY <2>2, Zenon DEF IsSequence
  <1>4. /\ DOMAIN calls' = DOMAIN calls /\ calls'[c] = x
        /\ \A e \in DOMAIN calls : e # c => calls'[e] = calls[e]
    BY <1>1, Zenon
  <1>5. ASSUME NEW e \in DOMAIN calls', calls'[e] # None
        PROVE  CallFits(calls'[e], page)
    <2>1. CASE e = c
      BY <1>4, <1>5, <2>1, Zenon
    <2>2. CASE e # c
      BY <1>4, <1>5, <2>2, Zenon DEF CallsInv, CallsFit
    <2> QED BY <2>1, <2>2, Zenon
  <1>6. CallsInv'
    BY <1>3, <1>5, Zenon DEF CallsInv, CallsFit
  <1>7. SavesBut(calls, calls', {c})
    BY <1>4 DEF SavesBut, Saving, SameCall
  <1> QED BY <1>1, <1>4, <1>6, <1>7, Zenon

\* A request that is answered.
LEMMA AnswerFits ==
    ASSUME CallsInv, UNCHANGED page, NEW c \in Live,
           NEW answer \in {"ok", "failed"}, NEW id, NEW with, Answer(c, answer, id, with),
           WellFormed(calls[c].op, id, with),
           calls[c].op \notin {"create_epichust_model", "create_provider",
                               "create_mapping_policy", "create_api_key"} => id = calls[c].id,
           calls[c].op = "update_mapping_policy" => with = calls[c].with,
           answer = "ok" =>
              /\ calls[c].op = "provider_available_models" => with \subseteq ProviderModels
              /\ calls[c].op = "create_provider" => id \in Providers
              /\ calls[c].op \in {"create_api_key", "rotate_api_key"} => with \in Hashes
    PROVE  CallsInv' /\ SavesBut(calls, calls', {c}) /\ ~Saving(calls', c) /\ c \in Callers
PROOF
  <1>1. CallFits(calls[c], page)
    BY Zenon DEF CallsInv, CallsFit, Live
  <1>2. PICK call : call = calls[c]
    OBVIOUS
  <1>3. /\ DOMAIN call = {"op", "id", "with", "cleared", "at", "page", "by", "todo", "of"}
        /\ call.page \in {"mounted", "gone", "other"}
    BY <1>1, <1>2, Zenon DEF CallFits, CallTyped
  <1>4. CASE call.page = "other"
    <2>1. calls' = [calls EXCEPT ![c] = None]
      BY <1>2, <1>4, Zenon DEF Answer
    <2>2. /\ CallsInv' /\ SavesBut(calls, calls', {c}) /\ c \in Callers
          /\ calls'[c] = None
      BY <2>1, OneCallChanges, Zenon
    <2> QED BY <2>2, Zenon DEF Saving
  <1>5. CASE call.page # "other"
    <2> DEFINE x == [call EXCEPT !.at = answer, !.id = id, !.with = with]
    <2>1. calls' = [calls EXCEPT ![c] = x]
      BY <1>2, <1>5, Zenon DEF Answer
    <2>2. /\ DOMAIN x = DOMAIN call
          /\ x.op = call.op /\ x.id = id /\ x.with = with /\ x.cleared = call.cleared
          /\ x.at = answer /\ x.page = call.page
          /\ x.by = call.by /\ x.todo = call.todo /\ x.of = call.of
      BY <1>3
    <2>3. call.op = "update_mapping_policy" => x \in SaveCall
      <3>1. call.op = "update_mapping_policy" => call \in SaveCall
        BY <1>1, <1>2, Zenon DEF CallFits, CallTyped
      <3>2. call.op = "update_mapping_policy" => id = call.id /\ with = call.with
        BY <1>2
      <3> QED BY <3>1, <3>2 DEF SaveCall
    <2> HIDE DEF x
    <2>4. CallTyped(x)
      BY <1>2, <1>3, <2>2, <2>3 DEF CallTyped
    <2>5. HandlerFits(x)
      <3>1. HandlerFits(call)
        BY <1>1, <1>2, <1>5, Zenon DEF CallFits
      <3>2. call.op = "create_provider_model" => id = call.id
        BY <1>2
      <3> QED BY <2>2, <3>1, <3>2, Zenon DEF HandlerFits
    <2>6. x.op \in Updates /\ x.page # "other" => x.of = x.id
      <3>1. call.op \in Updates => id = call.id /\ call.of = call.id
        BY <1>1, <1>2, <1>5 DEF Updates, CallFits
      <3> QED BY <2>2, <3>1
    <2>7. CallFits(x, page)
      BY <1>1, <1>2, <2>2, <2>4, <2>5, <2>6 DEF CallFits
    <2>8. /\ CallsInv' /\ SavesBut(calls, calls', {c}) /\ c \in Callers
          /\ calls'[c] = x
      BY <2>1, <2>7, OneCallChanges, Zenon
    <2>9. ~Saving(calls', c)
      BY <2>2, <2>8 DEF Saving
    <2> QED BY <2>8, <2>9, Zenon
  <1> QED BY <1>4, <1>5, Zenon

\* If the request is no save, no save is decided.
LEMMA NoSaveDecided ==
    ASSUME NEW c, SavesBut(calls, calls', {c}), ~Saving(calls, c), ~Saving(calls', c)
    PROVE  SavesBut(calls, calls', {})
PROOF
  BY Zenon DEF SavesBut

LEMMA TablesStay == UNCHANGED <<db, used>> /\ TablesInv => Sound(db') /\ TablesMove /\ UsedGrows
PROOF
  BY Zenon DEF TablesInv, TablesMove, UsedGrows, Keeps, SamePolicies

LEMMA ServeMoves ==
    ASSUME CallsInv, TablesInv, UNCHANGED page, NEW c \in Live, Serve(c)
    PROVE  CallsInv' /\ Sound(db') /\ ServerMove
PROOF
  <1>1. PICK call : call = calls[c]
    OBVIOUS
  <1>2. PICK id \in IdsFor(call), with \in BodiesFor(call) :
          /\ \/ OnModels(call.op, id, with)
             \/ OnProviders(call.op, id, with)
             \/ OnPolicies(call.op, id, with)
             \/ OnKeys(call.op, id, with)
             \/ FindsNothing(call.op, id) /\ UNCHANGED <<db, used>>
             \/ /\ call.op = "provider_available_models"
                /\ db.providers[id] # None
                /\ UNCHANGED <<db, used>>
          /\ Answer(c, "ok", id, with)
    BY <1>1, Zenon DEF Serve
  <1>3. CallTyped(call)
    BY <1>1, Zenon DEF CallsInv, CallsFit, CallFits, Live
  <1>4. WellFormed(call.op, call.id, call.with)
    BY <1>3, Zenon DEF CallTyped
  <1>5. Served(call.op, id, with)
    BY <1>4, ServedAsAsked, Zenon
  <1>6. call.op # "update_mapping_policy"
    <2>1. ASSUME call.op = "update_mapping_policy"
          PROVE  FALSE
      <3>1. ~OnModels(call.op, id, with) /\ ~OnProviders(call.op, id, with)
        BY <2>1 DEF OnModels, OnProviders
      <3>2. ~OnPolicies(call.op, id, with) /\ ~OnKeys(call.op, id, with)
        BY <2>1 DEF OnPolicies, OnKeys
      <3>3. ~FindsNothing(call.op, id)
        BY <2>1 DEF FindsNothing
      <3> QED BY <1>2, <2>1, <3>1, <3>2, <3>3
    <2> QED BY <2>1, Zenon
  <1>7. Sound(db') /\ TablesMove /\ UsedGrows
    BY <1>2, <1>5, ModelsMove, ProvidersMove, PoliciesMove, KeysMove, TablesStay, Zenon
  <1>8. call.op \notin {"create_epichust_model", "create_provider",
                        "create_mapping_policy", "create_api_key"} => id = call.id
    BY <1>2 DEF IdsFor
  <1>9. /\ call.op = "provider_available_models" => with \subseteq ProviderModels
        /\ call.op = "create_provider" => id \in Providers
        /\ call.op \in {"create_api_key", "rotate_api_key"} => with \in Hashes
        /\ WellFormed(call.op, id, with)
    BY <1>5, Zenon DEF Served
  <1>10. CallsInv' /\ SavesBut(calls, calls', {c}) /\ ~Saving(calls', c) /\ c \in Callers
    BY <1>1, <1>2, <1>6, <1>8, <1>9, AnswerFits
  <1>11. ~Saving(calls, c)
    BY <1>1, <1>6, Zenon DEF Saving
  <1> QED BY <1>7, <1>10, <1>11, NoSaveDecided, Zenon DEF ServerMove

LEMMA RefuseMoves ==
    ASSUME CallsInv, TablesInv, UNCHANGED page, NEW c \in Live, Refuse(c)
    PROVE  CallsInv' /\ Sound(db') /\ ServerMove
PROOF
  <1>1. /\ calls[c].at \in {"sent", "replaced"}
        /\ Answer(c, "failed", calls[c].id, calls[c].with)
        /\ UNCHANGED <<db, used>>
    BY Zenon DEF Refuse
  <1>2. WellFormed(calls[c].op, calls[c].id, calls[c].with)
    BY Zenon DEF CallsInv, CallsFit, CallFits, CallTyped, Live
  <1>3. CallsInv' /\ SavesBut(calls, calls', {c}) /\ ~Saving(calls', c) /\ c \in Callers
    BY <1>1, <1>2, AnswerFits
  <1>4. Sound(db') /\ TablesMove /\ UsedGrows
    BY <1>1, TablesStay, Zenon
  <1>5. CASE Saving(calls, c)
    <2>1. Refuses(c)
      BY <1>1, <1>3, <1>5, Zenon DEF Refuses
    <2> QED BY <1>3, <1>4, <2>1, Zenon DEF ServerMove
  <1>6. CASE ~Saving(calls, c)
    BY <1>3, <1>4, <1>6, NoSaveDecided, Zenon DEF ServerMove
  <1> QED BY <1>5, <1>6, Zenon

LEMMA LoseAnswerMoves ==
    ASSUME CallsInv, TablesInv, UNCHANGED page, NEW c \in Live, LoseAnswer(c)
    PROVE  CallsInv' /\ Sound(db') /\ ServerMove
PROOF
  <1>1. PICK call : call = calls[c]
    OBVIOUS
  <1> DEFINE x == [call EXCEPT !.at = "failed"]
  <1>2. calls' = [calls EXCEPT ![c] = x] /\ call.at = "ok" /\ UNCHANGED <<db, used>>
    BY <1>1, Zenon DEF LoseAnswer
  <1>3. CallFits(call, page) /\ CallTyped(call)
    BY <1>1, Zenon DEF CallsInv, CallsFit, CallFits, Live
  <1>4. DOMAIN call = {"op", "id", "with", "cleared", "at", "page", "by", "todo", "of"}
    BY <1>3, Zenon DEF CallTyped
  <1>5. /\ DOMAIN x = DOMAIN call
        /\ x.op = call.op /\ x.id = call.id /\ x.with = call.with /\ x.cleared = call.cleared
        /\ x.at = "failed" /\ x.page = call.page
        /\ x.by = call.by /\ x.todo = call.todo /\ x.of = call.of
    BY <1>4
  <1>6. call.op = "update_mapping_policy" => x \in SaveCall
    <2>1. call.op = "update_mapping_policy" => call \in SaveCall
      BY <1>3, Zenon DEF CallTyped
    <2> QED BY <2>1 DEF SaveCall
  <1> HIDE DEF x
  <1>7. CallTyped(x)
    BY <1>3, <1>5, <1>6 DEF CallTyped
  <1>8. HandlerFits(call) => HandlerFits(x)
    BY <1>5, Zenon DEF HandlerFits
  <1>9. CallFits(x, page)
    BY <1>3, <1>5, <1>7, <1>8, Zenon DEF CallFits
  <1>10. CallsInv' /\ SavesBut(calls, calls', {c}) /\ calls'[c] = x
    BY <1>2, <1>9, OneCallChanges, Zenon
  <1>11. ~Saving(calls, c) /\ ~Saving(calls', c)
    BY <1>1, <1>2, <1>5, <1>10 DEF Saving
  <1>12. Sound(db') /\ TablesMove /\ UsedGrows
    BY <1>2, TablesStay, Zenon
  <1> QED BY <1>10, <1>11, <1>12, NoSaveDecided, Zenon DEF ServerMove

LEMMA ReplaceMoves ==
    ASSUME CallsInv, TablesInv, UNCHANGED page, NEW c \in Live, Replace(c)
    PROVE  CallsInv' /\ Sound(db') /\ ServerMove
PROOF
  <1>1. PICK call : call = calls[c]
    OBVIOUS
  <1>2. /\ call.at = "sent" /\ call.op = "update_mapping_policy"
        /\ ~RowLocked(call.id)
        /\ db.mapping_policies[call.id] # None
        /\ call.with.routes \subseteq db.provider_models
        /\ UNCHANGED <<db, used>>
    BY <1>1, Zenon DEF Replace
  <1>3. PICK cleared : cleared = DocumentOf(db, call.id).routes
    OBVIOUS
  <1> DEFINE x == [call EXCEPT !.at = "replaced", !.cleared = cleared]
  <1>4. CallFits(call, page) /\ CallTyped(call) /\ call \in SaveCall
    BY <1>1, <1>2, Zenon DEF CallsInv, CallsFit, CallFits, CallTyped, Live
  <1>5. DOMAIN call = {"op", "id", "with", "cleared", "at", "page", "by", "todo", "of"}
    BY <1>4, Zenon DEF CallTyped
  <1>6. /\ DOMAIN x = DOMAIN call
        /\ x.op = call.op /\ x.id = call.id /\ x.with = call.with /\ x.cleared = cleared
        /\ x.at = "replaced" /\ x.page = call.page
        /\ x.by = call.by /\ x.todo = call.todo /\ x.of = call.of
    BY <1>5
  <1>7. cleared \subseteq ProviderModels
    BY <1>3 DEF DocumentOf, TablesInv, Sound, Tables
  <1>8. x \in SaveCall
    BY <1>4, <1>7 DEF SaveCall
  <1>9. calls' = [calls EXCEPT ![c] = x]
    <2>1. PICK n \in 0..MaxCalls : IsSequence(calls, n)
      BY DEF CallsInv, CallsFit
    <2>2. calls = [i \in 1..n |-> calls[i]]
      BY <2>1, Zenon DEF IsSequence
    <2>3. calls' = [calls EXCEPT ![c].at = "replaced", ![c].cleared = cleared]
      BY <1>1, <1>3, Zenon DEF Replace
    <2>4. c \in 1..n
      BY <2>2 DEF Live
    <2> QED BY <1>1, <1>5, <2>2, <2>3, <2>4
  <1> HIDE DEF x
  <1>10. CallTyped(x)
    BY <1>2, <1>4, <1>6, <1>8 DEF CallTyped
  <1>11. HandlerFits(call) => HandlerFits(x)
    BY <1>6, Zenon DEF HandlerFits
  <1>12. CallFits(x, page)
    BY <1>4, <1>6, <1>10, <1>11, Zenon DEF CallFits
  <1>13. /\ CallsInv' /\ SavesBut(calls, calls', {c}) /\ c \in Callers
         /\ DOMAIN calls' = DOMAIN calls /\ calls'[c] = x
    BY <1>9, <1>12, OneCallChanges, Zenon
  <1>14. Saving(calls, c)
    BY <1>1, <1>2 DEF Saving, Live
  <1>15. Saving(calls', c)
    <2>1. x # None
      BY <1>8, NoneAssumption
    <2>2. c \in DOMAIN calls'
      BY <1>13 DEF Live
    <2> QED BY <1>2, <1>6, <1>13, <2>1, <2>2 DEF Saving
  <1>16. Replaces(c)
    BY <1>1, <1>2, <1>3, <1>6, <1>13, <1>14, <1>15, Zenon DEF Replaces
  <1>17. Sound(db')
    BY <1>2, TablesStay, Zenon
  <1> QED BY <1>13, <1>16, <1>17, Zenon DEF ServerMove

LEMMA CommitMoves ==
    ASSUME CallsInv, TablesInv, TransactionsInv, UNCHANGED page, NEW c \in Live, Commit(c)
    PROVE  CallsInv' /\ Sound(db') /\ ServerMove
PROOF
  <1>1. PICK call : call = calls[c]
    OBVIOUS
  <1>2. PICK p : p = call.id
    OBVIOUS
  <1>3. /\ call.at = "replaced"
        /\ db' = [db EXCEPT !.mapping_policies[p].enabled = call.with.enabled,
                            !.rate_limit_rules[p] = call.with.rule,
                            !.mapping_policy_routes =
                                (@ \ ({p} \X call.cleared)) \cup ({p} \X call.with.routes)]
        /\ Answer(c, "ok", p, call.with)
        /\ UNCHANGED used
    BY <1>1, <1>2, Zenon DEF Commit
  <1>4. c \in Callers /\ Transacting(calls, c)
    BY <1>1, <1>3, TransactionIs, Zenon DEF InTransaction
  <1>5. Saving(calls, c) /\ TransactionFits(db, call)
    BY <1>1, <1>4, Zenon DEF Transacting, TransactionsInv
  <1>6. /\ p \in Policies
        /\ call.with.enabled \in BOOLEAN /\ call.with.rule \in Limits \cup {None}
        /\ call.with.routes \subseteq ProviderModels
    BY <1>1, <1>2, <1>5, SaveIs, Zenon
  <1>7. db.mapping_policies[p] # None /\ call.with.routes \subseteq db.provider_models
    BY <1>2, <1>5, Zenon DEF TransactionFits
  <1>8. db \in Tables /\ References(db)
    BY DEF TablesInv, Sound
  <1>9. PICK old : old = db.mapping_policies[p]
    OBVIOUS
  <1>10. old \in Policy
    BY <1>6, <1>7, <1>8, <1>9 DEF Tables
  <1>11. PICK policy : policy = [old EXCEPT !.enabled = call.with.enabled]
    OBVIOUS
  <1>12. policy \in Policy /\ policy.epichust_model = old.epichust_model
    BY <1>6, <1>10, <1>11 DEF Policy
  <1>13. db.epichust_models[policy.epichust_model] # None
    BY <1>6, <1>7, <1>8, <1>9, <1>12 DEF References
  <1>14. PICK kept : kept = db.mapping_policy_routes \ ({p} \X call.cleared)
    OBVIOUS
  <1>15. kept \in SUBSET db.mapping_policy_routes
    BY <1>14
  <1>16. PICK rule, targets : rule = call.with.rule /\ targets = call.with.routes
    OBVIOUS
  <1>17. db' = Written(db, p, policy, rule, targets, kept)
    BY <1>3, <1>9, <1>11, <1>14, <1>16, Zenon DEF Written
  <1>18. Sound(db') /\ IsWritten(db, db', p, policy, rule, targets, kept)
    <2>1. rule \in Limits \cup {None} /\ targets \in SUBSET db.provider_models
      BY <1>6, <1>7, <1>16, Zenon
    <2>2. Sound(db)
      BY DEF TablesInv
    <2> QED BY <1>6, <1>12, <1>13, <1>15, <1>17, <2>1, <2>2, PutPolicy, Zenon
  <1>19. WellFormed(calls[c].op, p, call.with) /\ calls[c].op = "update_mapping_policy"
    BY <1>1, <1>2, <1>5, Zenon DEF CallsInv, CallsFit, CallFits, CallTyped, Live, Saving
  <1>20. CallsInv' /\ SavesBut(calls, calls', {c}) /\ ~Saving(calls', c)
    BY <1>1, <1>2, <1>3, <1>19, AnswerFits
  <1>21. Commits(c)
    BY <1>1, <1>2, <1>3, <1>4, <1>9, <1>11, <1>14, <1>16, <1>18, <1>20, Zenon DEF Commits
  <1> QED BY <1>4, <1>18, <1>20, <1>21, Zenon DEF ServerMove

LEMMA ServerMoves ==
    ASSUME CallsInv, TablesInv, TransactionsInv, Server
    PROVE  /\ CallsInv' /\ Sound(db') /\ ServerMove /\ WatchTables
           /\ UNCHANGED <<sidebar, page, tour>>
PROOF
  <1>1. ApiStep /\ WatchTables /\ UNCHANGED <<sidebar, page, tour>>
    BY Zenon DEF Server, consoleVars
  <1>2. PICK c \in Live : Serve(c) \/ Replace(c) \/ Commit(c) \/ Refuse(c) \/ LoseAnswer(c)
    BY <1>1, Zenon DEF ApiStep
  <1> QED
    BY <1>1, <1>2, ServeMoves, ReplaceMoves, CommitMoves, RefuseMoves, LoseAnswerMoves, Zenon
-----------------------------------------------------------------------------
\* An undisturbed transaction goes on holding what it holds.
LEMMA TransactionStays ==
    ASSUME NEW c \in Callers, NEW saves, c \notin saves, SavesBut(calls, calls', saves),
           Transacting(calls', c)
    PROVE  /\ Transacting(calls, c)
           /\ calls'[c].id = calls[c].id /\ calls'[c].with = calls[c].with
           /\ calls'[c].cleared = calls[c].cleared
PROOF
  BY Zenon DEF Transacting, SavesBut, SameCall

LEMMA ClientKeepsTransactions ==
    ASSUME TransactionsInv, UNCHANGED db, SavesMove(calls, calls')
    PROVE  TransactionsInv'
PROOF
  <1>1. ASSUME NEW c \in Callers, Transacting(calls', c)
        PROVE  /\ Transacting(calls, c)
               /\ calls'[c].id = calls[c].id /\ calls'[c].with = calls[c].with
               /\ calls'[c].cleared = calls[c].cleared
    <2>1. CASE SavesBut(calls, calls', {})
      BY <1>1, <2>1, TransactionStays, Zenon
    <2>2. CASE \E e \in Callers : SavesBut(calls, calls', {e}) /\ calls'[e].at = "sent"
      <3>1. PICK e \in Callers : SavesBut(calls, calls', {e}) /\ calls'[e].at = "sent"
        BY <2>2, Zenon
      <3>2. c # e
        BY <1>1, <3>1 DEF Transacting
      <3>3. c \notin {e}
        BY <3>2
      <3> QED BY <1>1, <3>1, <3>3, TransactionStays, Zenon
    <2> QED BY <2>1, <2>2, Zenon DEF SavesMove
  <1> QED BY <1>1, Zenon DEF TransactionsInv, TransactionFits

\* What a transaction holds is safe from every operation on the tables.
LEMMA TablesKeepTransactions ==
    ASSUME TablesInv, CallsInv, Sound(db'), TablesMove, NEW c \in Callers, Transacting(calls, c),
           TransactionFits(db, calls[c])
    PROVE  TransactionFits(db', calls[c])
PROOF
  <1>1. PICK call : call = calls[c]
    OBVIOUS
  <1>2. /\ call.id \in Policies /\ call.with.routes \subseteq ProviderModels
    BY <1>1, SaveIs, Zenon DEF Transacting
  <1>3. InTransaction(c) /\ c \in Live
    BY TransactionIs, Zenon DEF InTransaction
  <1>4. /\ db.mapping_policies[call.id] # None
        /\ call.with.routes \subseteq db.provider_models
        /\ \A r \in db.mapping_policy_routes : r[1] = call.id => r[2] \in call.cleared
    BY <1>1, Zenon DEF TransactionFits
  <1>5. db \in Tables /\ db' \in Tables
    BY DEF TablesInv, Sound
  <1>6. CASE Keeps(db, db')
    BY <1>1, <1>4, <1>6 DEF Keeps, SamePolicies, TransactionFits
  <1>7. CASE \E p \in Policies : \E policy, rule, targets : Makes(db, db', p, policy, rule, targets)
    <2>0. PICK p \in Policies : \E policy, rule, targets : Makes(db, db', p, policy, rule, targets)
      BY <1>7, Zenon
    <2>1. PICK policy, rule, targets : Makes(db, db', p, policy, rule, targets)
      BY <2>0, Zenon
    <2>2. p # call.id
      BY <1>4, <2>1, Zenon DEF Makes
    <2>3. /\ db'.mapping_policies = [db.mapping_policies EXCEPT ![p] = policy]
          /\ db'.mapping_policy_routes = db.mapping_policy_routes \cup ({p} \X targets)
          /\ db'.provider_models = db.provider_models
      BY <2>1, Zenon DEF Makes
    <2>4. db'.mapping_policies[call.id] # None
      BY <1>2, <1>4, <1>5, <2>2, <2>3 DEF Tables
    <2>5. \A r \in {p} \X targets : r[1] # call.id
      BY <2>2
    <2> QED BY <1>1, <1>4, <2>3, <2>4, <2>5 DEF TransactionFits
  <1>8. CASE \E gone \in SUBSET Policies :
                Removes(db, db', gone) /\ \A p \in gone : db.mapping_policies[p] # None /\ ~RowLocked(p)
    <2>1. PICK gone \in SUBSET Policies :
                Removes(db, db', gone) /\ \A p \in gone : ~RowLocked(p)
      BY <1>8, Zenon
    <2>2. call.id \notin gone
      BY <1>1, <1>3, <2>1, Zenon DEF RowLocked
    <2>3. /\ db'.mapping_policies = Nulled(db.mapping_policies, gone)
          /\ db'.mapping_policy_routes \subseteq db.mapping_policy_routes
          /\ db'.provider_models = db.provider_models
      BY <2>1 DEF Removes
    <2>4. db'.mapping_policies[call.id] # None
      BY <1>2, <1>4, <1>5, <2>2, <2>3 DEF Tables, Nulled
    <2> QED BY <1>1, <1>4, <2>3, <2>4 DEF TransactionFits
  <1>9. CASE \E gone \in SUBSET ProviderModels : Drops(db, db', gone) /\ \A pm \in gone : ~TargetShared(pm)
    <2>1. PICK gone \in SUBSET ProviderModels : Drops(db, db', gone) /\ \A pm \in gone : ~TargetShared(pm)
      BY <1>9, Zenon
    <2>2. \A pm \in gone : pm \notin call.with.routes
      BY <1>1, <1>3, <2>1, Zenon DEF TargetShared
    <2>3. /\ db'.mapping_policies = db.mapping_policies
          /\ db'.mapping_policy_routes \subseteq db.mapping_policy_routes
          /\ db'.provider_models = db.provider_models \ gone
      BY <2>1 DEF Drops
    <2> QED BY <1>1, <1>4, <2>2, <2>3 DEF TransactionFits
  <1> QED BY <1>6, <1>7, <1>8, <1>9, Zenon DEF TablesMove

LEMMA ServerKeepsTransactions ==
    ASSUME CallsInv, TablesInv, TransactionsInv, Sound(db'), ServerMove
    PROVE  TransactionsInv'
PROOF
  <1>1. CASE TablesMove /\ SavesBut(calls, calls', {})
    <2>1. ASSUME NEW c \in Callers, Transacting(calls', c)
          PROVE  /\ Transacting(calls, c) /\ TransactionFits(db', calls'[c])
                 /\ calls'[c].id = calls[c].id
      <3>1. /\ Transacting(calls, c)
            /\ calls'[c].id = calls[c].id /\ calls'[c].with = calls[c].with
            /\ calls'[c].cleared = calls[c].cleared
        BY <1>1, <2>1, TransactionStays, Zenon
      <3>2. TransactionFits(db, calls[c])
        BY <3>1, Zenon DEF TransactionsInv
      <3>3. TransactionFits(db', calls[c])
        BY <1>1, <3>1, <3>2, TablesKeepTransactions, Zenon
      <3> QED BY <3>1, <3>3, Zenon DEF TransactionFits
    <2> QED BY <2>1, Zenon DEF TransactionsInv
  <1>2. ASSUME NEW c \in Callers, Replaces(c)
        PROVE  TransactionsInv'
    <2>1. ASSUME NEW e \in Callers, e # c, Transacting(calls', e)
          PROVE  /\ Transacting(calls, e) /\ TransactionFits(db', calls'[e])
                 /\ calls'[e].id = calls[e].id /\ calls[e].id # calls[c].id
      <3>1. SavesBut(calls, calls', {c}) /\ e \notin {c} /\ UNCHANGED db /\ ~RowLocked(calls[c].id)
        BY <1>2, <2>1, Zenon DEF Replaces
      <3>2. /\ Transacting(calls, e)
            /\ calls'[e].id = calls[e].id /\ calls'[e].with = calls[e].with
            /\ calls'[e].cleared = calls[e].cleared
        BY <2>1, <3>1, TransactionStays, Zenon
      <3>3. TransactionFits(db', calls'[e])
        BY <3>1, <3>2, Zenon DEF TransactionsInv, TransactionFits
      <3>4. InTransaction(e) /\ e \in Live
        BY <3>2, TransactionIs, Zenon DEF InTransaction
      <3>5. calls[e].id # calls[c].id
        BY <3>1, <3>4, Zenon DEF RowLocked
      <3> QED BY <3>2, <3>3, <3>5, Zenon
    <2>2. TransactionFits(db', calls'[c]) /\ calls'[c].id = calls[c].id
      <3>1. /\ UNCHANGED db
            /\ calls'[c].id = calls[c].id /\ calls'[c].with = calls[c].with
            /\ calls'[c].cleared = DocumentOf(db, calls[c].id).routes
            /\ db.mapping_policies[calls[c].id] # None
            /\ calls[c].with.routes \subseteq db.provider_models
        BY <1>2, Zenon DEF Replaces
      <3>2. \A r \in db.mapping_policy_routes :
                r[1] = calls[c].id => r[2] \in DocumentOf(db, calls[c].id).routes
        BY DEF DocumentOf
      <3> QED BY <3>1, <3>2, Zenon DEF TransactionFits
    <2>3. \A e1 \in Callers : Transacting(calls', e1) => TransactionFits(db', calls'[e1])
      BY <2>1, <2>2, Zenon
    <2>4. ASSUME NEW e1 \in Callers, NEW e2 \in Callers, Transacting(calls', e1), Transacting(calls', e2),
                 calls'[e1].id = calls'[e2].id
          PROVE  e1 = e2
      BY <2>1, <2>2, <2>4, Zenon DEF TransactionsInv
    <2> QED BY <2>3, <2>4, Zenon DEF TransactionsInv
  <1>3. ASSUME NEW c \in Callers, Refuses(c)
        PROVE  TransactionsInv'
    <2>1. ASSUME NEW e \in Callers, Transacting(calls', e)
          PROVE  /\ Transacting(calls, e) /\ TransactionFits(db', calls'[e])
                 /\ calls'[e].id = calls[e].id
      <3>1. SavesBut(calls, calls', {c}) /\ ~Saving(calls', c) /\ UNCHANGED db
        BY <1>3, Zenon DEF Refuses
      <3>2. e # c
        BY <2>1, <3>1, Zenon DEF Transacting
      <3>3. e \notin {c}
        BY <3>2
      <3>4. /\ Transacting(calls, e)
            /\ calls'[e].id = calls[e].id /\ calls'[e].with = calls[e].with
            /\ calls'[e].cleared = calls[e].cleared
        BY <2>1, <3>1, <3>3, TransactionStays, Zenon
      <3> QED BY <3>1, <3>4, Zenon DEF TransactionsInv, TransactionFits
    <2> QED BY <2>1, Zenon DEF TransactionsInv
  <1>4. ASSUME NEW c \in Callers, Commits(c)
        PROVE  TransactionsInv'
    <2>1. ASSUME NEW e \in Callers, Transacting(calls', e)
          PROVE  /\ Transacting(calls, e) /\ TransactionFits(db', calls'[e])
                 /\ calls'[e].id = calls[e].id
      <3>1. SavesBut(calls, calls', {c}) /\ ~Saving(calls', c) /\ Transacting(calls, c)
        BY <1>4, Zenon DEF Commits
      <3>2. e # c
        BY <2>1, <3>1, Zenon DEF Transacting
      <3>3. e \notin {c}
        BY <3>2
      <3>4. /\ Transacting(calls, e)
            /\ calls'[e].id = calls[e].id /\ calls'[e].with = calls[e].with
            /\ calls'[e].cleared = calls[e].cleared
        BY <2>1, <3>1, <3>3, TransactionStays, Zenon
      <3>5. PICK call, other : call = calls[c] /\ other = calls[e]
        OBVIOUS
      <3>6. call.id # other.id
        BY <3>1, <3>2, <3>4, <3>5, Zenon DEF TransactionsInv
      <3>7. other.id \in Policies
        BY <3>4, <3>5, SaveIs, Zenon DEF Transacting
      <3>8. PICK policy, rule, targets, kept :
                /\ IsWritten(db, db', call.id, policy, rule, targets, kept)
                /\ kept = db.mapping_policy_routes \ ({call.id} \X call.cleared)
        BY <1>4, <3>5, Zenon DEF Commits
      <3>9. /\ db'.mapping_policies = [db.mapping_policies EXCEPT ![call.id] = policy]
            /\ db'.mapping_policy_routes = kept \cup ({call.id} \X targets)
            /\ db'.provider_models = db.provider_models
        BY <3>8, Zenon DEF IsWritten
      <3>10. db \in Tables
        BY DEF TablesInv, Sound
      <3>11. TransactionFits(db, other)
        BY <3>4, <3>5, Zenon DEF TransactionsInv
      <3>12. db'.mapping_policies[other.id] # None
        BY <3>6, <3>7, <3>9, <3>10, <3>11 DEF TransactionFits, Tables
      <3>13. \A r \in db'.mapping_policy_routes : r[1] = other.id => r \in db.mapping_policy_routes
        BY <3>6, <3>8, <3>9
      <3>14. TransactionFits(db', other)
        BY <3>9, <3>11, <3>12, <3>13, Zenon DEF TransactionFits
      <3> QED BY <3>4, <3>5, <3>14, Zenon DEF TransactionFits
    <2> QED BY <2>1, Zenon DEF TransactionsInv
  <1> QED BY <1>1, <1>2, <1>3, <1>4, Zenon DEF ServerMove

\* Policies keep to generated ids.
LEMMA ServerKeepsTables ==
    ASSUME CallsInv, TablesInv, TransactionsInv, Sound(db'), ServerMove
    PROVE  TablesInv'
PROOF
  <1>1. CASE TablesMove /\ UsedGrows
    <2>1. used \subseteq used' /\ db \in Tables /\ db' \in Tables
      BY <1>1 DEF UsedGrows, TablesInv, Sound
    <2>2. ASSUME NEW p \in Policies, db'.mapping_policies[p] # None
          PROVE  p \in used'
      <3>1. db.mapping_policies[p] # None => p \in used'
        BY <2>1 DEF TablesInv
      <3>2. CASE Keeps(db, db')
        BY <2>2, <3>1, <3>2, Zenon DEF Keeps, SamePolicies
      <3>3. CASE \E q \in Policies : \E policy, rule, targets :
                    Makes(db, db', q, policy, rule, targets) /\ q \in used'
        <4>0. PICK q \in Policies : \E policy, rule, targets :
                    Makes(db, db', q, policy, rule, targets) /\ q \in used'
          BY <3>3, Zenon
        <4>1. PICK policy, rule, targets : Makes(db, db', q, policy, rule, targets) /\ q \in used'
          BY <4>0, Zenon
        <4>2. db'.mapping_policies = [db.mapping_policies EXCEPT ![q] = policy]
          BY <4>1, Zenon DEF Makes
        <4>3. p # q => db'.mapping_policies[p] = db.mapping_policies[p]
          BY <2>1, <4>2 DEF Tables
        <4> QED BY <2>2, <3>1, <4>1, <4>3, Zenon
      <3>4. CASE \E gone \in SUBSET Policies : Removes(db, db', gone)
        <4>1. PICK gone \in SUBSET Policies : Removes(db, db', gone)
          BY <3>4, Zenon
        <4>2. db'.mapping_policies = Nulled(db.mapping_policies, gone)
          BY <4>1, Zenon DEF Removes
        <4>3. db.mapping_policies[p] # None
          BY <2>1, <2>2, <4>2 DEF Nulled, Tables
        <4> QED BY <3>1, <4>3, Zenon
      <3>5. CASE \E gone \in SUBSET ProviderModels : Drops(db, db', gone)
        BY <2>2, <3>1, <3>5, Zenon DEF Drops
      <3> QED BY <1>1, <3>2, <3>3, <3>4, <3>5, Zenon DEF TablesMove
    <2> QED BY <1>1, <2>2, Zenon DEF TablesInv, UsedGrows
  <1>2. CASE UNCHANGED <<db, used>>
    BY <1>2, Zenon DEF TablesInv
  <1>3. ASSUME NEW c \in Callers, Commits(c)
        PROVE  TablesInv'
    <2>1. PICK call : call = calls[c]
      OBVIOUS
    <2>2. call.id \in Policies /\ db.mapping_policies[call.id] # None
      <3>1. Transacting(calls, c)
        BY <1>3, Zenon DEF Commits
      <3>2. calls[c].id \in Policies
        BY <3>1, SaveIs, Zenon DEF Transacting
      <3> QED BY <2>1, <3>1, <3>2, Zenon DEF TransactionsInv, TransactionFits
    <2>3. UNCHANGED used /\ \E policy : db'.mapping_policies = [db.mapping_policies EXCEPT ![call.id] = policy]
      BY <1>3, <2>1, Zenon DEF Commits, IsWritten
    <2>4. ASSUME NEW p \in Policies, db'.mapping_policies[p] # None
          PROVE  db.mapping_policies[p] # None
      <3>1. PICK policy : db'.mapping_policies = [db.mapping_policies EXCEPT ![call.id] = policy]
        BY <2>3, Zenon
      <3>2. p # call.id => db'.mapping_policies[p] = db.mapping_policies[p]
        BY <3>1 DEF TablesInv, Sound, Tables
      <3> QED BY <2>2, <2>4, <3>2, Zenon
    <2> QED BY <2>3, <2>4, Zenon DEF TablesInv
  <1> QED BY <1>1, <1>2, <1>3, Zenon DEF ServerMove, Replaces, Refuses
-----------------------------------------------------------------------------
IInv == TablesInv /\ TransactionsInv /\ ClientInv /\ DataInv

LEMMA Initially == Init => IInv
PROOF
  <1> SUFFICES ASSUME Init PROVE IInv
    OBVIOUS
  <1>1. db \in Seeds /\ used = IdsIn(db) /\ calls = <<>>
    BY Zenon DEF Init, ApiInit, ControlInit
  <1>2. Sound(db)
    BY <1>1, ControlPlaneAssumption, Zenon DEF Sound
  <1>3. TablesInv
    <2>1. db \in Tables
      BY <1>2 DEF Sound
    <2>2. /\ Rows(db.epichust_models) \subseteq Models
          /\ Rows(db.providers) \subseteq Providers
          /\ db.provider_models \subseteq ProviderModels
          /\ Rows(db.mapping_policies) \subseteq Policies
          /\ Rows(db.api_keys) \subseteq Keys
      BY <2>1 DEF Tables, Rows
    <2>3. \A k \in Rows(db.api_keys) : db.api_keys[k].key_hash \in Hashes
      BY <2>1 DEF Tables, Rows, ApiKey
    <2>4. used \subseteq Models \cup Providers \cup ProviderModels \cup Policies \cup Keys \cup Hashes
      BY <1>1, <2>2, <2>3 DEF IdsIn
    <2>5. \A p \in Policies : db.mapping_policies[p] # None => p \in Rows(db.mapping_policies)
      BY <2>1 DEF Tables, Rows
    <2>6. Rows(db.mapping_policies) \subseteq used
      BY <1>1, Zenon DEF IdsIn
    <2> QED BY <1>2, <2>4, <2>5, <2>6, Zenon DEF TablesInv
  <1>4. DOMAIN calls = {} /\ IsSequence(calls, 0)
    BY <1>1 DEF IsSequence
  <1>5. CallsInv
    <2>1. 0 \in 0..MaxCalls
      BY MaxCallsAssumption
    <2> QED BY <1>4, <2>1, Zenon DEF CallsInv, CallsFit
  <1>6. TransactionsInv
    BY <1>4 DEF TransactionsInv, Transacting, Saving
  <1>7. /\ version = 0 /\ acked = 0 /\ data = None
        /\ fetch = [seen |-> <<db>>, since |-> version, failureCount |-> 0]
    BY Zenon DEF Init, DataInit, StartFetch
  <1>8. DataInv
    <2>1. db \in Tables
      BY <1>2 DEF Sound
    <2>2. fetch \in Fetch
      BY <1>7, <2>1 DEF Fetch
    <2>3. fetch.seen = <<db>> /\ fetch.since = version
      BY <1>7
    <2>4. Len(<<db>>) = 1 /\ DOMAIN <<db>> = 1..1 /\ \A i \in 1..1 : <<db>>[i] = db
      OBVIOUS
    <2>5. FetchFits
      <3>1. 1 \in Nat \ {0} /\ <<db>>[1] = db
        OBVIOUS
      <3>2. fetch.since <= version /\ acked <= fetch.since
        BY <1>7, <2>3
      <3> QED BY <2>2, <2>3, <2>4, <3>1, <3>2, Zenon DEF FetchFits
    <2>6. version \in Nat /\ acked \in Nat /\ acked <= version
      BY <1>7
    <2> QED BY <1>7, <2>5, <2>6, Zenon DEF DataInv, PictureFits, OwnChangesShown, QuietPictureIsExact
  <1>9. ClientInv
    <2>1. sidebar = [resource |-> "dashboard", selected |-> None] /\ page = None /\ tour \in Tours
      BY Zenon DEF Init, StoreInit
    <2>2. TourFits
      BY <2>1, ConsoleAssumption DEF TourFits
    <2>3. sidebar \in [resource : SidebarResource, selected : Ids \cup {None}]
      BY <2>1 DEF SidebarResource
    <2>4. Shown = PageKey(sidebar, data)
      BY <1>7, <2>1, Zenon DEF Shown, PageKey
    <2>5. PageInv
      BY <2>1, <2>3, <2>4, Zenon DEF PageInv
    <2> QED BY <1>5, <1>7, <2>2, <2>5, Zenon DEF ClientInv, PictureFits
  <1> QED BY <1>3, <1>6, <1>8, <1>9, Zenon DEF IInv

\* A step is the console's or the admin API's.
LEMMA StepIs ==
    ASSUME IInv, Next
    PROVE  \/ ClientMove /\ QueryMove
           \/ DataArrives /\ ClientMove /\ DataInv' /\ data' # None
           \/ /\ CallsInv' /\ Sound(db') /\ ServerMove /\ WatchTables
              /\ UNCHANGED <<sidebar, page, tour>>
PROOF
  <1>1. CASE Navigate
    BY <1>1, NavigationMoves, Zenon DEF IInv
  <1>2. CASE ModelStep \/ ProviderStep \/ PolicyStep \/ ApiKeyStep
    BY <1>2, ModelPageMoves, ProviderPageMoves, PolicyPageMoves, KeyPageMoves, Zenon DEF IInv
  <1>3. CASE DataArrives
    BY <1>3, ArrivalsMove, Zenon DEF IInv, TablesInv
  <1>4. CASE DataFails
    BY <1>4, FailuresMove, Zenon DEF IInv
  <1>5. CASE OtherCall
    BY <1>5, OthersMove, Zenon DEF IInv
  <1>6. CASE Server
    BY <1>6, ServerMoves, Zenon DEF IInv, ClientInv
  <1> QED BY <1>1, <1>2, <1>3, <1>4, <1>5, <1>6, Zenon DEF Next

LEMMA Inductive == IInv /\ [Next]_vars => IInv'
PROOF
  <1> SUFFICES ASSUME IInv, [Next]_vars PROVE IInv'
    OBVIOUS
  <1>1. ASSUME ClientMove, DataInv'
        PROVE  IInv'
    <2>1. UNCHANGED <<db, used>> /\ SavesMove(calls, calls')
      BY <1>1, Zenon DEF ClientMove
    <2>2. TablesInv'
      BY <2>1, Zenon DEF IInv, TablesInv
    <2>3. TransactionsInv'
      BY <2>1, ClientKeepsTransactions, Zenon DEF IInv
    <2>4. ClientInv'
      BY <1>1, Zenon DEF ClientMove, ClientInv, DataInv
    <2> QED BY <1>1, <2>2, <2>3, <2>4, Zenon DEF IInv
  <1>2. CASE ClientMove /\ QueryMove
    <2>1. UNCHANGED db
      BY <1>2, Zenon DEF ClientMove
    <2>2. DataInv'
      BY <1>2, <2>1, QueryKeepsDataInv, Zenon DEF IInv, TablesInv
    <2> QED BY <1>1, <1>2, <2>2, Zenon
  <1>3. CASE ClientMove /\ DataInv'
    BY <1>1, <1>3, Zenon
  <1>4. CASE /\ CallsInv' /\ Sound(db') /\ ServerMove /\ WatchTables
             /\ UNCHANGED <<sidebar, page, tour>>
    <2>1. TablesInv'
      BY <1>4, ServerKeepsTables, Zenon DEF IInv, ClientInv
    <2>2. TransactionsInv'
      BY <1>4, ServerKeepsTransactions, Zenon DEF IInv, ClientInv
    <2>3. DataInv'
      BY <1>4, WatchKeepsDataInv, Zenon DEF IInv
    <2>4. UNCHANGED data
      BY <1>4, Zenon DEF WatchTables
    <2>5. PageInv' /\ TourFits'
      BY <1>4, <2>4, Zenon DEF IInv, ClientInv, PageInv, Shown, TourFits
    <2>6. PictureFits(data')
      BY <2>3, Zenon DEF DataInv
    <2> QED BY <1>4, <2>1, <2>2, <2>3, <2>5, <2>6, Zenon DEF IInv, ClientInv
  <1>5. CASE UNCHANGED vars
    BY <1>5, Zenon DEF vars, controlVars, dataVars, consoleVars, IInv, TablesInv, TransactionsInv,
                       Transacting, TransactionFits, Saving, ClientInv, CallsInv, PageInv, TourFits,
                       Shown, DataInv, FetchFits, OwnChangesShown, QuietPictureIsExact
  <1> QED BY <1>2, <1>3, <1>4, <1>5, StepIs, Zenon

LEMMA Invariant == Spec => []IInv
PROOF
  BY Initially, Inductive, PTL DEF Spec

\* The console and the requests stay well typed (TypeOK): whatever is
\* pressed, answered or rewritten meanwhile, the page shown is the one of the
\* sidebar and the picture, with a draft of its section.
THEOREM TypeCorrect == Spec => []TypeOK
PROOF
  <1>1. IInv => TypeOK
    <2> SUFFICES ASSUME IInv PROVE TypeOK
      OBVIOUS
    <2>1. ControlTypeOK
      BY Zenon DEF IInv, TablesInv, Sound, ControlTypeOK
    <2>2. ASSUME NEW c \in Live
          PROVE  /\ calls[c].at \in {"sent", "replaced", "ok", "failed"}
                 /\ calls[c].page \in {"mounted", "gone", "other"}
                 /\ calls[c].page = "mounted" => page # None
                 /\ calls[c].op = "update_mapping_policy" => calls[c].with \in Documents
      <3>1. CallFits(calls[c], page)
        BY CallIs, Zenon DEF IInv
      <3>2. calls[c].op = "update_mapping_policy" => calls[c].with \in Documents
        BY <3>1 DEF CallFits, CallTyped, SaveCall
      <3> QED BY <3>1, <3>2, Zenon DEF CallFits, CallTyped
    <2>3. /\ data # None => data \in Picture /\ data.asOf <= version
          /\ fetch # None => fetch \in Fetch /\ fetch.seen[Len(fetch.seen)] = db
          /\ acked <= version
      BY Zenon DEF IInv, DataInv, PictureFits, FetchFits
    <2>4. sidebar.resource \in SidebarResource
      BY DEF IInv, ClientInv, PageInv
    <2>5. page # None =>
             /\ page.key = PageKey(sidebar, data)
             /\ page.draft \in DraftOf(page.key[1])
      BY Zenon DEF IInv, ClientInv, PageInv, Shown, PageFits
    <2> QED BY <2>1, <2>2, <2>3, <2>4, <2>5, Zenon DEF TypeOK, DraftOf
  <1> QED BY <1>1, Invariant, PTL

\* What a page writes goes to the item its draft was taken from (SavesGoHome).
THEOREM SavesNeverStray == Spec => []SavesGoHome
PROOF
  <1>1. IInv => SavesGoHome
    <2> SUFFICES ASSUME IInv, NEW c \in Live, calls[c].op \in Updates, calls[c].page # "other"
                 PROVE  calls[c].of = calls[c].id
      BY Zenon DEF SavesGoHome, Updates
    <2>1. CallFits(calls[c], page)
      BY CallIs, Zenon DEF IInv
    <2> QED BY <2>1, Zenon DEF CallFits
  <1> QED BY <1>1, Invariant, PTL

\* Once no fetch is under way and the last did not fail, the console shows
\* every change it was told of (OwnChangesShown).
THEOREM OwnChangesAreShown == Spec => []OwnChangesShown
PROOF
  <1>1. IInv => OwnChangesShown
    BY Zenon DEF IInv, DataInv
  <1> QED BY <1>1, Invariant, PTL

\* A picture fetched since the tables last changed is exactly the tables,
\* though its parts were read one by one (QuietPictureIsExact).
THEOREM QuietPicturesAreExact == Spec => []QuietPictureIsExact
PROOF
  <1>1. IInv => QuietPictureIsExact
    BY Zenon DEF IInv, DataInv
  <1> QED BY <1>1, Invariant, PTL

\* A new picture does not take what is being edited away (KeptThroughRefresh).
THEOREM EditsSurviveRefresh == Spec => KeptThroughRefresh
PROOF
  <1>1. ASSUME IInv, Next, data' # data, data # None, Chosen(data), Chosen(data')
        PROVE  page' = page
    <2>1. ~QueryMove
      BY <1>1, QueryKeepsData, Zenon
    <2>2. ~WatchTables
      BY <1>1, Zenon DEF WatchTables
    <2>3. DataArrives /\ data' # None
      BY <1>1, <2>1, <2>2, StepIs, Zenon
    <2>4. Shown = PageKey(sidebar, data)
      BY <1>1, Zenon DEF IInv, ClientInv, PageInv
    <2>5. PageKey(sidebar, data') = PageKey(sidebar, data)
      BY <1>1, <2>3, Zenon DEF Chosen, PageKey, getSelectedItem
    <2> QED BY <2>3, <2>4, <2>5, Zenon DEF DataArrives, Render
  <1>2. IInv /\ [Next]_vars =>
            [data' # data /\ data # None /\ Chosen(data) /\ Chosen(data') => page' = page]_vars
    BY <1>1, Zenon
  <1> QED BY <1>2, Invariant, PTL DEF Spec, KeptThroughRefresh
-----------------------------------------------------------------------------
\* The tables as policy documents, and the saves that are not decided.
SaveOf(cs, c) == [caller |-> c, policy |-> cs[c].id, document |-> cs[c].with]

PendingOf(cs) == {SaveOf(cs, c) : c \in {c \in Callers : Saving(cs, c)}}

LEMMA PendingIs ==
    ASSUME NEW cs, DOMAIN cs \subseteq Callers
    PROVE  PendingOf(cs) =
             {[caller |-> c, policy |-> cs[c].id, document |-> cs[c].with] :
                c \in {c \in {c \in DOMAIN cs : cs[c] # None} :
                          /\ cs[c].op = "update_mapping_policy"
                          /\ cs[c].at \in {"sent", "replaced"}}}
PROOF
  <1>1. {c \in Callers : Saving(cs, c)} =
          {c \in {c \in DOMAIN cs : cs[c] # None} : /\ cs[c].op = "update_mapping_policy"
                                                    /\ cs[c].at \in {"sent", "replaced"}}
    BY DEF Saving
  <1> QED BY <1>1, Zenon DEF PendingOf, SaveOf

LEMMA PendingSame ==
    ASSUME NEW cs, NEW ds, SavesBut(cs, ds, {})
    PROVE  PendingOf(ds) = PendingOf(cs)
PROOF
  <1>1. \A c \in Callers : Saving(ds, c) <=> Saving(cs, c)
    BY Zenon DEF SavesBut
  <1>2. \A c \in Callers : Saving(cs, c) => SaveOf(ds, c) = SaveOf(cs, c)
    BY Zenon DEF SavesBut, SameCall, SaveOf
  <1> QED BY <1>1, <1>2 DEF PendingOf

LEMMA PendingStays ==
    ASSUME NEW cs, NEW ds, NEW c \in Callers, SavesBut(cs, ds, {c}),
           Saving(cs, c), Saving(ds, c), ds[c].id = cs[c].id, ds[c].with = cs[c].with
    PROVE  PendingOf(ds) = PendingOf(cs)
PROOF
  <1>1. \A e \in Callers : Saving(ds, e) <=> Saving(cs, e)
    BY DEF SavesBut
  <1>2. \A e \in Callers : Saving(cs, e) => SaveOf(ds, e) = SaveOf(cs, e)
    BY DEF SavesBut, SameCall, SaveOf
  <1> QED BY <1>1, <1>2 DEF PendingOf

LEMMA PendingGrows ==
    ASSUME NEW cs, NEW ds, NEW c \in Callers, SavesBut(cs, ds, {c}),
           ~Saving(cs, c), Saving(ds, c)
    PROVE  /\ PendingOf(ds) = PendingOf(cs) \cup {SaveOf(ds, c)}
           /\ \A other \in PendingOf(cs) : other.caller # SaveOf(ds, c).caller
PROOF
  <1>1. \A e \in Callers : e # c => (Saving(ds, e) <=> Saving(cs, e))
    BY DEF SavesBut
  <1>2. \A e \in Callers : e # c /\ Saving(cs, e) => SaveOf(ds, e) = SaveOf(cs, e)
    BY DEF SavesBut, SameCall, SaveOf
  <1>3. \A e : SaveOf(cs, e).caller = e /\ SaveOf(ds, e).caller = e
    BY DEF SaveOf
  <1>4. \A other \in PendingOf(cs) : other.caller # c
    BY <1>3 DEF PendingOf
  <1> QED BY <1>1, <1>2, <1>3, <1>4 DEF PendingOf

LEMMA PendingShrinks ==
    ASSUME NEW cs, NEW ds, NEW c \in Callers, SavesBut(cs, ds, {c}),
           Saving(cs, c), ~Saving(ds, c)
    PROVE  /\ SaveOf(cs, c) \in PendingOf(cs)
           /\ PendingOf(ds) = PendingOf(cs) \ {SaveOf(cs, c)}
PROOF
  <1>1. \A e \in Callers : e # c => (Saving(ds, e) <=> Saving(cs, e))
    BY DEF SavesBut
  <1>2. \A e \in Callers : e # c /\ Saving(cs, e) => SaveOf(ds, e) = SaveOf(cs, e)
    BY DEF SavesBut, SameCall, SaveOf
  <1>3. \A e : SaveOf(cs, e).caller = e /\ SaveOf(ds, e).caller = e
    BY DEF SaveOf
  <1> QED BY <1>1, <1>2, <1>3 DEF PendingOf

LEMMA DocumentIs ==
    ASSUME NEW d \in Tables, NEW p \in Policies, d.mapping_policies[p] # None
    PROVE  /\ DocumentsIn(d)[p] = DocumentOf(d, p)
           /\ DocumentOf(d, p) \in Documents
           /\ DocumentsIn(d)[p] # None
PROOF
  <1>1. DocumentsIn(d)[p] = DocumentOf(d, p)
    BY Zenon DEF DocumentsIn
  <1>2. d.mapping_policies[p].enabled \in BOOLEAN
    BY DEF Tables, Policy
  <1>3. d.rate_limit_rules[p] \in Limits \cup {None}
    BY DEF Tables
  <1>4. {r[2] : r \in {r \in d.mapping_policy_routes : r[1] = p}} \subseteq ProviderModels
    BY DEF Tables
  <1>5. DocumentOf(d, p) \in Documents
    BY <1>2, <1>3, <1>4 DEF DocumentOf, Documents
  <1> QED BY <1>1, <1>5, DocumentsAssumption, Zenon

LEMMA NoDocument ==
    \A d, p : p \in Policies /\ d.mapping_policies[p] = None => DocumentsIn(d)[p] = None
PROOF
  BY Zenon DEF DocumentsIn

\* Two tables have the same document of a policy.
LEMMA SameDocument ==
    ASSUME NEW d, NEW e, NEW p \in Policies,
           e.mapping_policies[p] = d.mapping_policies[p],
           e.rate_limit_rules[p] = d.rate_limit_rules[p],
           \A r : r[1] = p => (r \in e.mapping_policy_routes <=> r \in d.mapping_policy_routes)
    PROVE  DocumentsIn(e)[p] = DocumentsIn(d)[p]
PROOF
  <1>1. {r \in e.mapping_policy_routes : r[1] = p} = {r \in d.mapping_policy_routes : r[1] = p}
    OBVIOUS
  <1>2. DocumentOf(e, p) = DocumentOf(d, p)
    BY <1>1, Zenon DEF DocumentOf
  <1> QED BY <1>2, Zenon DEF DocumentsIn

LEMMA DocumentsAre ==
    /\ \A d : DocumentsIn(d) = [p \in Policies |-> DocumentsIn(d)[p]]
PROOF
  BY DEF DocumentsIn

\* The operations on the tables, as the policy documents see them.
LEMMA KeepsDocuments ==
    ASSUME NEW d, NEW e, Keeps(d, e)
    PROVE  DocumentsIn(e) = DocumentsIn(d)
PROOF
  <1>1. \A p \in Policies : DocumentsIn(e)[p] = DocumentsIn(d)[p]
    BY SameDocument, Zenon DEF Keeps, SamePolicies
  <1> QED BY <1>1, DocumentsAre

LEMMA MakesDocument ==
    ASSUME NEW d \in Tables, NEW e \in Tables, NEW p \in Policies, NEW policy, NEW rule, NEW targets,
           Makes(d, e, p, policy, rule, targets)
    PROVE  /\ DocumentsIn(d)[p] = None
           /\ DocumentsIn(e)[p] \in Documents
           /\ DocumentsIn(e) = [DocumentsIn(d) EXCEPT ![p] = DocumentsIn(e)[p]]
PROOF
  <1>1. /\ d.mapping_policies[p] = None /\ policy \in Policy
        /\ e.mapping_policies = [d.mapping_policies EXCEPT ![p] = policy]
        /\ e.rate_limit_rules = [d.rate_limit_rules EXCEPT ![p] = rule]
        /\ e.mapping_policy_routes = d.mapping_policy_routes \cup ({p} \X targets)
    BY Zenon DEF Makes
  <1>2. DocumentsIn(d)[p] = None
    BY <1>1, NoDocument, Zenon
  <1>3. e.mapping_policies[p] # None
    BY <1>1, ControlPlaneAssumption DEF Tables
  <1>4. DocumentsIn(e)[p] \in Documents
    BY <1>3, DocumentIs, Zenon
  <1>5. ASSUME NEW q \in Policies, q # p
        PROVE  DocumentsIn(e)[q] = DocumentsIn(d)[q]
    <2>1. /\ e.mapping_policies[q] = d.mapping_policies[q]
          /\ e.rate_limit_rules[q] = d.rate_limit_rules[q]
      BY <1>1, <1>5 DEF Tables
    <2>2. \A r : r[1] = q => (r \in e.mapping_policy_routes <=> r \in d.mapping_policy_routes)
      BY <1>1, <1>5
    <2> QED BY <2>1, <2>2, SameDocument, Zenon
  <1>6. DocumentsIn(e) = [DocumentsIn(d) EXCEPT ![p] = DocumentsIn(e)[p]]
    BY <1>5, DocumentsAre
  <1> QED BY <1>2, <1>4, <1>6

LEMMA RemovesDocuments ==
    ASSUME NEW d \in Tables, NEW e \in Tables, NEW gone \in SUBSET Policies, Removes(d, e, gone)
    PROVE  DocumentsIn(e) = [p \in Policies |-> IF p \in gone THEN None ELSE DocumentsIn(d)[p]]
PROOF
  <1>1. /\ e.mapping_policies = Nulled(d.mapping_policies, gone)
        /\ e.rate_limit_rules = Nulled(d.rate_limit_rules, gone)
        /\ e.mapping_policy_routes = {r \in d.mapping_policy_routes : r[1] \notin gone}
    BY Zenon DEF Removes
  <1>2. ASSUME NEW p \in gone
        PROVE  DocumentsIn(e)[p] = None
    <2>1. e.mapping_policies[p] = None
      BY <1>1 DEF Nulled, Tables
    <2> QED BY <2>1, NoDocument
  <1>3. ASSUME NEW p \in Policies, p \notin gone
        PROVE  DocumentsIn(e)[p] = DocumentsIn(d)[p]
    <2>1. /\ e.mapping_policies[p] = d.mapping_policies[p]
          /\ e.rate_limit_rules[p] = d.rate_limit_rules[p]
      BY <1>1, <1>3 DEF Nulled, Tables
    <2>2. \A r : r[1] = p => (r \in e.mapping_policy_routes <=> r \in d.mapping_policy_routes)
      BY <1>1, <1>3
    <2> QED BY <2>1, <2>2, SameDocument, Zenon
  <1> QED BY <1>2, <1>3, DocumentsAre

LEMMA DropsTargets ==
    ASSUME NEW d \in Tables, NEW e \in Tables, NEW gone, Drops(d, e, gone)
    PROVE  DocumentsIn(e) = [p \in Policies |-> IF DocumentsIn(d)[p] = None THEN None
                                                ELSE [DocumentsIn(d)[p] EXCEPT !.routes = @ \ gone]]
PROOF
  <1>1. /\ e.mapping_policies = d.mapping_policies
        /\ e.rate_limit_rules = d.rate_limit_rules
        /\ e.mapping_policy_routes = {r \in d.mapping_policy_routes : r[2] \notin gone}
    BY Zenon DEF Drops
  <1>2. ASSUME NEW p \in Policies, d.mapping_policies[p] = None
        PROVE  DocumentsIn(d)[p] = None /\ DocumentsIn(e)[p] = None
    BY <1>1, <1>2, NoDocument, Zenon
  <1>3. ASSUME NEW p \in Policies, d.mapping_policies[p] # None
        PROVE  /\ DocumentsIn(d)[p] # None
               /\ DocumentsIn(e)[p] = [DocumentsIn(d)[p] EXCEPT !.routes = @ \ gone]
    <2>1. DocumentsIn(d)[p] = DocumentOf(d, p) /\ DocumentsIn(d)[p] # None
      BY <1>3, DocumentIs, Zenon
    <2>2. DocumentsIn(e)[p] = DocumentOf(e, p)
      BY <1>1, <1>3, DocumentIs, Zenon
    <2>3. {r[2] : r \in {r \in e.mapping_policy_routes : r[1] = p}} =
            {r[2] : r \in {r \in d.mapping_policy_routes : r[1] = p}} \ gone
      BY <1>1
    <2>4. PICK enabled, rule, old, new :
            /\ enabled = d.mapping_policies[p].enabled
            /\ rule = d.rate_limit_rules[p]
            /\ old = {r[2] : r \in {r \in d.mapping_policy_routes : r[1] = p}}
            /\ new = old \ gone
      BY Zenon
    <2>5. DocumentOf(d, p) = [enabled |-> enabled, rule |-> rule, routes |-> old]
      BY <2>4, Zenon DEF DocumentOf
    <2>6. DocumentOf(e, p) = [enabled |-> enabled, rule |-> rule, routes |-> new]
      BY <1>1, <2>3, <2>4, Zenon DEF DocumentOf
    <2>7. ASSUME NEW document \in [enabled : {enabled}, rule : {rule}, routes : {old, new}]
          PROVE  [document EXCEPT !.routes = new] =
                   [enabled |-> document.enabled, rule |-> document.rule, routes |-> new]
      OBVIOUS
    <2>8. DocumentOf(e, p) = [DocumentOf(d, p) EXCEPT !.routes = @ \ gone]
      <3>1. PICK document : document = DocumentOf(d, p)
        OBVIOUS
      <3>2. /\ document \in [enabled : {enabled}, rule : {rule}, routes : {old, new}]
            /\ document.enabled = enabled /\ document.rule = rule /\ document.routes \ gone = new
        BY <2>4, <2>5, <3>1
      <3>3. [document EXCEPT !.routes = new] = [enabled |-> enabled, rule |-> rule, routes |-> new]
        BY <2>7, <3>2
      <3> QED BY <2>6, <3>1, <3>2, <3>3, Zenon
    <2> QED BY <2>1, <2>2, <2>8, Zenon
  <1> QED BY <1>2, <1>3, DocumentsAre

\* A transaction that commits replaces the document of its policy.
WritesDocument(d, e, p, document, cleared) ==
    IsWritten(d, e, p, [d.mapping_policies[p] EXCEPT !.enabled = document.enabled],
              document.rule, document.routes, d.mapping_policy_routes \ ({p} \X cleared))

LEMMA CommitsDocument ==
    ASSUME NEW d \in Tables, NEW e \in Tables, NEW p \in Policies, NEW document \in Documents,
           NEW cleared, d.mapping_policies[p] # None,
           \A r \in d.mapping_policy_routes : r[1] = p => r[2] \in cleared,
           WritesDocument(d, e, p, document, cleared)
    PROVE  /\ DocumentsIn(d)[p] # None
           /\ DocumentsIn(e) = [DocumentsIn(d) EXCEPT ![p] = document]
PROOF
  <1>1. PICK policy : policy = [d.mapping_policies[p] EXCEPT !.enabled = document.enabled]
    OBVIOUS
  <1>2. /\ e.mapping_policies = [d.mapping_policies EXCEPT ![p] = policy]
        /\ e.rate_limit_rules = [d.rate_limit_rules EXCEPT ![p] = document.rule]
        /\ e.mapping_policy_routes =
             (d.mapping_policy_routes \ ({p} \X cleared)) \cup ({p} \X document.routes)
    BY <1>1, Zenon DEF WritesDocument, IsWritten
  <1>3. d.mapping_policies[p] \in Policy
    BY DEF Tables
  <1>4. document.enabled \in BOOLEAN /\ document.routes \subseteq ProviderModels
        /\ document = [enabled |-> document.enabled, rule |-> document.rule, routes |-> document.routes]
    BY DEF Documents
  <1>5. policy \in Policy /\ policy.enabled = document.enabled
    BY <1>1, <1>3, <1>4 DEF Policy
  <1>6. e.mapping_policies[p] = policy /\ e.rate_limit_rules[p] = document.rule
    BY <1>2 DEF Tables
  <1>7. e.mapping_policies[p] # None
    BY <1>5, <1>6, ControlPlaneAssumption
  <1>8. {r[2] : r \in {r \in e.mapping_policy_routes : r[1] = p}} = document.routes
    <2>1. d.mapping_policy_routes \subseteq Policies \X ProviderModels
      BY DEF Tables
    <2>2. ASSUME NEW r \in e.mapping_policy_routes, r[1] = p
          PROVE  r[2] \in document.routes
      <3>1. r \notin d.mapping_policy_routes \ ({p} \X cleared)
        BY <2>1, <2>2
      <3> QED BY <1>2, <2>2, <3>1
    <2>3. ASSUME NEW x \in document.routes
          PROVE  <<p, x>> \in e.mapping_policy_routes /\ <<p, x>>[1] = p /\ <<p, x>>[2] = x
      BY <1>2
    <2> DEFINE own == {r \in e.mapping_policy_routes : r[1] = p}
    <2>4. {r[2] : r \in own} \subseteq document.routes
      BY <2>2, Zenon
    <2>5. ASSUME NEW x \in document.routes
          PROVE  x \in {r[2] : r \in own}
      <3>1. <<p, x>> \in own
        BY <2>3
      <3> QED BY <3>1, <2>3, Zenon
    <2> HIDE DEF own
    <2>6. {r[2] : r \in own} = document.routes
      BY <2>4, <2>5
    <2> QED BY <2>6 DEF own
  <1>9. DocumentOf(e, p) = document
    BY <1>4, <1>5, <1>6, <1>8, Zenon DEF DocumentOf
  <1>10. DocumentsIn(e)[p] = document /\ DocumentsIn(d)[p] # None
    BY <1>7, <1>9, DocumentIs, Zenon
  <1>11. ASSUME NEW q \in Policies, q # p
         PROVE  DocumentsIn(e)[q] = DocumentsIn(d)[q]
    <2>1. /\ e.mapping_policies[q] = d.mapping_policies[q]
          /\ e.rate_limit_rules[q] = d.rate_limit_rules[q]
      BY <1>2, <1>11 DEF Tables
    <2>2. \A r : r[1] = q => (r \in e.mapping_policy_routes <=> r \in d.mapping_policy_routes)
      BY <1>2, <1>11
    <2> QED BY <2>1, <2>2, SameDocument, Zenon
  <1>12. DocumentsIn(e) = [DocumentsIn(d) EXCEPT ![p] = document]
    BY <1>10, <1>11, DocumentsAre
  <1> QED BY <1>10, <1>12

LEMMA PendingSavesAre ==
    /\ CallsInv => PendingSaves = PendingOf(calls)
    /\ CallsInv' => PendingSaves' = PendingOf(calls')
PROOF
  <1>1. CallsInv => PendingSaves = PendingOf(calls)
    BY CallsFacts, PendingIs, Zenon DEF CallsInv, PendingSaves, Live
  <1>2. CallsInv' => PendingSaves' = PendingOf(calls')
    BY CallsFacts, PendingIs, Zenon DEF CallsInv, PendingSaves, Live
  <1> QED BY <1>1, <1>2

\* A step of the policy documents, or none.
DocsMove(docs, docsNext, pending, pendingNext) ==
    \/ docsNext = docs /\ pendingNext = pending
    \/ \E save \in pending :
          /\ pendingNext = pending \ {save}
          /\ \/ docsNext = docs
             \/ docs[save.policy] # None /\ docsNext = [docs EXCEPT ![save.policy] = save.document]
    \/ \E save \in Docs!Save :
          /\ \A other \in pending : other.caller # save.caller
          /\ pendingNext = pending \cup {save}
          /\ docsNext = docs
    \/ /\ pendingNext = pending
       /\ \/ \E p \in Policies, document \in Documents :
                docs[p] = None /\ docsNext = [docs EXCEPT ![p] = document]
          \/ \E gone \in SUBSET Policies :
                docsNext = [p \in Policies |-> IF p \in gone THEN None ELSE docs[p]]
          \/ \E gone \in SUBSET ProviderModels :
                docsNext = [p \in Policies |-> IF docs[p] = None THEN None
                                               ELSE [docs[p] EXCEPT !.routes = @ \ gone]]

LEMMA DocsMoves ==
    DocsMove(DocumentsIn(db), DocumentsIn(db'), PendingSaves, PendingSaves')
        => [Docs!Next]_(Docs!vars)
PROOF
  BY Zenon DEF DocsMove, Docs!Next, Docs!vars, Docs!Submit, Docs!TakeEffect, Docs!Fail,
               Docs!Create, Docs!Delete, Docs!DropTargets

\* The console begins a save, or touches none.
LEMMA ClientRefines ==
    ASSUME SavesMove(calls, calls'), UNCHANGED db
    PROVE  DocsMove(DocumentsIn(db), DocumentsIn(db'), PendingOf(calls), PendingOf(calls'))
PROOF
  <1>1. DocumentsIn(db') = DocumentsIn(db)
    OBVIOUS
  <1>2. CASE SavesBut(calls, calls', {})
    BY <1>1, <1>2, PendingSame, Zenon DEF DocsMove
  <1>3. ASSUME NEW c \in Callers, SavesBut(calls, calls', {c}), ~Saving(calls, c), Saving(calls', c),
               calls'[c].id \in Policies, calls'[c].with \in Documents
        PROVE  DocsMove(DocumentsIn(db), DocumentsIn(db'), PendingOf(calls), PendingOf(calls'))
    <2>1. SaveOf(calls', c) \in Docs!Save
      BY <1>3 DEF SaveOf, Docs!Save
    <2>2. /\ PendingOf(calls') = PendingOf(calls) \cup {SaveOf(calls', c)}
          /\ \A other \in PendingOf(calls) : other.caller # SaveOf(calls', c).caller
      BY <1>3, PendingGrows, Zenon
    <2> QED BY <1>1, <2>1, <2>2, Zenon DEF DocsMove
  <1> QED BY <1>2, <1>3, Zenon DEF SavesMove

\* The admin API changes the tables, or decides a save.
LEMMA ServerRefines ==
    ASSUME CallsInv, TransactionsInv, Sound(db), Sound(db'), ServerMove
    PROVE  DocsMove(DocumentsIn(db), DocumentsIn(db'), PendingOf(calls), PendingOf(calls'))
PROOF
  <1>1. db \in Tables /\ db' \in Tables
    BY Zenon DEF Sound
  <1>2. CASE TablesMove /\ SavesBut(calls, calls', {})
    <2>1. PendingOf(calls') = PendingOf(calls)
      BY <1>2, PendingSame, Zenon
    <2>2. CASE Keeps(db, db')
      BY <2>1, <2>2, KeepsDocuments, Zenon DEF DocsMove
    <2>3. ASSUME NEW p \in Policies, NEW policy, NEW rule, NEW targets,
                 Makes(db, db', p, policy, rule, targets)
          PROVE  DocsMove(DocumentsIn(db), DocumentsIn(db'), PendingOf(calls), PendingOf(calls'))
      <3>1. /\ DocumentsIn(db)[p] = None
            /\ DocumentsIn(db')[p] \in Documents
            /\ DocumentsIn(db') = [DocumentsIn(db) EXCEPT ![p] = DocumentsIn(db')[p]]
        BY <1>1, <2>3, MakesDocument
      <3>2. PICK document \in Documents : document = DocumentsIn(db')[p]
        BY <3>1, Zenon
      <3>3. DocumentsIn(db') = [DocumentsIn(db) EXCEPT ![p] = document]
        BY <3>1, <3>2
      <3> QED BY <2>1, <3>1, <3>3, Zenon DEF DocsMove
    <2>4. ASSUME NEW gone \in SUBSET Policies, Removes(db, db', gone)
          PROVE  DocsMove(DocumentsIn(db), DocumentsIn(db'), PendingOf(calls), PendingOf(calls'))
      <3>1. DocumentsIn(db') = [p \in Policies |-> IF p \in gone THEN None ELSE DocumentsIn(db)[p]]
        BY <1>1, <2>4, RemovesDocuments
      <3> QED BY <2>1, <3>1, Zenon DEF DocsMove
    <2>5. ASSUME NEW gone \in SUBSET ProviderModels, Drops(db, db', gone)
          PROVE  DocsMove(DocumentsIn(db), DocumentsIn(db'), PendingOf(calls), PendingOf(calls'))
      <3>1. DocumentsIn(db') =
              [p \in Policies |-> IF DocumentsIn(db)[p] = None THEN None
                                  ELSE [DocumentsIn(db)[p] EXCEPT !.routes = @ \ gone]]
        BY <1>1, <2>5, DropsTargets
      <3> QED BY <2>1, <3>1, Zenon DEF DocsMove
    <2> QED BY <1>2, <2>2, <2>3, <2>4, <2>5, Zenon DEF TablesMove
  <1>3. ASSUME NEW c \in Callers, Replaces(c)
        PROVE  DocsMove(DocumentsIn(db), DocumentsIn(db'), PendingOf(calls), PendingOf(calls'))
    <2>1. DocumentsIn(db') = DocumentsIn(db)
      BY <1>3, Zenon DEF Replaces
    <2>2. PendingOf(calls') = PendingOf(calls)
      BY <1>3, PendingStays, Zenon DEF Replaces
    <2> QED BY <2>1, <2>2, Zenon DEF DocsMove
  <1>4. ASSUME NEW c \in Callers, Commits(c)
        PROVE  DocsMove(DocumentsIn(db), DocumentsIn(db'), PendingOf(calls), PendingOf(calls'))
    <2>1. Saving(calls, c) /\ TransactionFits(db, calls[c])
      BY <1>4, Zenon DEF Commits, Transacting, TransactionsInv
    <2>2. calls[c].id \in Policies /\ calls[c].with \in Documents
      BY <2>1, SaveIs, Zenon
    <2>3. /\ DocumentsIn(db)[calls[c].id] # None
          /\ DocumentsIn(db') = [DocumentsIn(db) EXCEPT ![calls[c].id] = calls[c].with]
      <3>1. PICK p, document, cleared :
              /\ p = calls[c].id /\ document = calls[c].with /\ cleared = calls[c].cleared
        OBVIOUS
      <3>2. WritesDocument(db, db', p, document, cleared)
        BY <1>4, <3>1 DEF Commits, WritesDocument
      <3>3. /\ p \in Policies /\ document \in Documents
            /\ db.mapping_policies[p] # None
            /\ \A r \in db.mapping_policy_routes : r[1] = p => r[2] \in cleared
        BY <2>1, <2>2, <3>1, Zenon DEF TransactionFits
      <3>4. /\ DocumentsIn(db)[p] # None
            /\ DocumentsIn(db') = [DocumentsIn(db) EXCEPT ![p] = document]
        BY <1>1, <3>2, <3>3, CommitsDocument
      <3> QED BY <3>1, <3>4
    <2>4. /\ SaveOf(calls, c) \in PendingOf(calls)
          /\ PendingOf(calls') = PendingOf(calls) \ {SaveOf(calls, c)}
      BY <1>4, <2>1, PendingShrinks, Zenon DEF Commits
    <2>5. SaveOf(calls, c).policy = calls[c].id /\ SaveOf(calls, c).document = calls[c].with
      BY DEF SaveOf
    <2>6. /\ DocumentsIn(db)[SaveOf(calls, c).policy] # None
          /\ DocumentsIn(db') =
               [DocumentsIn(db) EXCEPT ![SaveOf(calls, c).policy] = SaveOf(calls, c).document]
      BY <2>3, <2>5
    <2> QED BY <2>4, <2>6, Zenon DEF DocsMove
  <1>5. ASSUME NEW c \in Callers, Refuses(c)
        PROVE  DocsMove(DocumentsIn(db), DocumentsIn(db'), PendingOf(calls), PendingOf(calls'))
    <2>1. DocumentsIn(db') = DocumentsIn(db)
      BY <1>5, Zenon DEF Refuses
    <2>2. /\ SaveOf(calls, c) \in PendingOf(calls)
          /\ PendingOf(calls') = PendingOf(calls) \ {SaveOf(calls, c)}
      BY <1>5, PendingShrinks, Zenon DEF Refuses
    <2> QED BY <2>1, <2>2, Zenon DEF DocsMove
  <1> QED BY <1>2, <1>3, <1>4, <1>5, Zenon DEF ServerMove

LEMMA StepRefines ==
    ASSUME IInv, IInv', [Next]_vars
    PROVE  [Docs!Next]_(Docs!vars)
PROOF
  <1>1. PendingSaves = PendingOf(calls) /\ PendingSaves' = PendingOf(calls')
    BY PendingSavesAre, Zenon DEF IInv, ClientInv
  <1>2. DocsMove(DocumentsIn(db), DocumentsIn(db'), PendingOf(calls), PendingOf(calls'))
    <2>1. CASE Next
      <3>1. \/ ClientMove
            \/ Sound(db') /\ ServerMove
        BY <2>1, StepIs, Zenon
      <3>2. Sound(db) /\ CallsInv /\ TransactionsInv
        BY Zenon DEF IInv, TablesInv, ClientInv
      <3> QED BY <3>1, <3>2, ClientRefines, ServerRefines, Zenon DEF ClientMove
    <2>2. CASE UNCHANGED vars
      <3>1. UNCHANGED <<db, calls>>
        BY <2>2, Zenon DEF vars, controlVars
      <3> QED BY <3>1, Zenon DEF DocsMove
    <2> QED BY <2>1, <2>2, Zenon
  <1> QED BY <1>1, <1>2, DocsMoves, Zenon

LEMMA InitRefines == Init => Docs!Init
PROOF
  <1> SUFFICES ASSUME Init PROVE Docs!Init
    OBVIOUS
  <1>1. db \in Seeds /\ calls = <<>>
    BY Zenon DEF Init, ApiInit, ControlInit
  <1>2. db \in Tables
    BY <1>1, ControlPlaneAssumption, Zenon
  <1>3. ASSUME NEW p \in Policies
        PROVE  DocumentsIn(db)[p] \in Documents \cup {None}
    BY <1>2, DocumentIs, NoDocument, Zenon
  <1>4. DocumentsIn(db) \in [Policies -> Documents \cup {None}]
    BY <1>3, DocumentsAre
  <1>5. PendingSaves = {}
    BY <1>1 DEF PendingSaves, Live
  <1> QED BY <1>4, <1>5, Zenon DEF Docs!Init

\* However updates of one policy interleave with each other, with deletions
\* and with failures, each save takes effect whole and once or not at all: the
\* tables and the requests under way implement PolicyDocuments
\* (SavesAreWhole).
THEOREM SavesTakeEffectWhole == Spec => SavesAreWhole
PROOF
  BY InitRefines, StepRefines, Invariant, PTL DEF Spec, SavesAreWhole, Docs!Spec
=============================================================================
