---------------------------- MODULE ControlPlane ----------------------------
(***************************************************************************)
(* The PostgreSQL tables the gateway is configured from, and the operations *)
(* of the admin API that change them (admin-api/src/repositories.rs, called *)
(* by the handlers of routes.rs).  Each operation is one committed          *)
(* statement or transaction; the foreign keys of deploy/sql cascade with    *)
(* it.  An operation that breaks a constraint (routes.rs answers 409) or    *)
(* names a row that does not exist leaves the tables as they are and is not *)
(* an action.                                                               *)
(*                                                                          *)
(* A table indexed by its primary key is a function that is None at the     *)
(* rows that do not exist; a table that only links others is a set of       *)
(* pairs.  One type of limit stands for the four, each of which is loaded   *)
(* independently; weights, priorities and strategies are in RouteSelection. *)
(* A link or a route that is stored as disabled is left out of the set: the *)
(* gateway's queries skip it.  The API never stores a disabled link; a      *)
(* disabled route the console still lists, and enabling it again is adding  *)
(* it to the set.  An update that a client makes with several statements is *)
(* one step here; AdminApi has its steps.                                   *)
(***************************************************************************)
EXTENDS Integers, FiniteSets

CONSTANTS
    Models,         \* ids of epichust_models
    Names,          \* their names
    Providers,      \* ids of providers
    Endpoints,      \* what a provider is reached by: base url and key
    ProviderModels, \* ids of provider_models
    ProviderOf,     \* the provider each of them belongs to
    Policies,       \* ids of mapping_policies
    Limits,         \* values of a rate limit rule
    Keys,           \* ids of epichust_api_keys
    Hashes,         \* SHA-256 of the API keys handed out
    None,
    Seeds           \* what the tables may hold to begin with

VARIABLES
    db,     \* the committed tables
    used    \* ids and hashes already generated: each is generated once

controlVars == <<db, used>>

Policy == [epichust_model : Models, enabled : BOOLEAN]
ApiKey == [key_hash : Hashes, enabled : BOOLEAN]

Tables ==
    [epichust_models          : [Models -> Names \cup {None}],
     providers                : [Providers -> Endpoints \cup {None}],
     provider_models          : SUBSET ProviderModels,
     mapping_policies         : [Policies -> Policy \cup {None}],
     mapping_policy_routes    : SUBSET (Policies \X ProviderModels),
     rate_limit_rules         : [Policies -> Limits \cup {None}],
     api_keys                 : [Keys -> ApiKey \cup {None}],
     api_key_mapping_policies : SUBSET (Keys \X Policies)]

\* The foreign keys of the schema: what a row names exists.
References(d) ==
    /\ \A pm \in d.provider_models : d.providers[ProviderOf[pm]] # None
    /\ \A p \in Policies :
          /\ d.mapping_policies[p] # None =>
                d.epichust_models[d.mapping_policies[p].epichust_model] # None
          /\ d.rate_limit_rules[p] # None => d.mapping_policies[p] # None
    /\ \A r \in d.mapping_policy_routes :
          d.mapping_policies[r[1]] # None /\ r[2] \in d.provider_models
    /\ \A l \in d.api_key_mapping_policies :
          d.api_keys[l[1]] # None /\ d.mapping_policies[l[2]] # None

\* The UNIQUE constraint on key_hash.
UniqueHashes(d) ==
    \A j, k \in Keys :
        d.api_keys[j] # None /\ d.api_keys[k] # None
            /\ d.api_keys[j].key_hash = d.api_keys[k].key_hash => j = k

\* The database held its constraints before the gateway was started.
ASSUME ControlPlaneAssumption ==
    /\ ProviderOf \in [ProviderModels -> Providers]
    /\ Limits \subseteq Nat
    /\ None \notin Names \cup Endpoints \cup Limits
    /\ None \notin Policy /\ None \notin ApiKey
    /\ \A d \in Seeds : d \in Tables /\ References(d) /\ UniqueHashes(d)

NoRows ==
    [epichust_models          |-> [m \in Models |-> None],
     providers                |-> [p \in Providers |-> None],
     provider_models          |-> {},
     mapping_policies         |-> [p \in Policies |-> None],
     mapping_policy_routes    |-> {},
     rate_limit_rules         |-> [p \in Policies |-> None],
     api_keys                 |-> [k \in Keys |-> None],
     api_key_mapping_policies |-> {}]

Rows(table) == {id \in DOMAIN table : table[id] # None}

IdsIn(d) ==
    Rows(d.epichust_models) \cup Rows(d.providers) \cup d.provider_models
        \cup Rows(d.mapping_policies) \cup Rows(d.api_keys)
        \cup {d.api_keys[k].key_hash : k \in Rows(d.api_keys)}

\* The gateway may be started on a database already in use.
ControlInit ==
    /\ db \in Seeds
    /\ used = IdsIn(db)

\* Ids and keys come from a generator (Uuid::new_v4, the random bytes of a
\* key) that is assumed not to repeat itself.
Generate(ids) == ids \cap used = {} /\ used' = used \cup ids
-----------------------------------------------------------------------------
\* What ON DELETE CASCADE takes along.

Nulled(table, rows) == [id \in DOMAIN table |-> IF id \in rows THEN None ELSE table[id]]

WithoutPolicies(d, gone) ==
    [d EXCEPT !.mapping_policies = Nulled(@, gone),
              !.rate_limit_rules = Nulled(@, gone),
              !.mapping_policy_routes = {r \in @ : r[1] \notin gone},
              !.api_key_mapping_policies = {l \in @ : l[2] \notin gone}]

\* Mutant: the routes to a deleted provider model stay.
WithoutProviderModelsOnly(d, gone) == [d EXCEPT !.provider_models = @ \ gone]

WithoutProviderModels(d, gone) ==
    [d EXCEPT !.provider_models = @ \ gone,
              !.mapping_policy_routes = {r \in @ : r[2] \notin gone}]
-----------------------------------------------------------------------------
create_epichust_model(m, name) ==
    /\ \A other \in Models : db.epichust_models[other] # name
    /\ Generate({m})
    /\ db' = [db EXCEPT !.epichust_models[m] = name]

update_epichust_model(m, name) ==
    /\ db.epichust_models[m] # None
    /\ \A other \in Models \ {m} : db.epichust_models[other] # name
    /\ db' = [db EXCEPT !.epichust_models[m] = name]
    /\ UNCHANGED used

delete_epichust_model(m) ==
    LET targeting == {p \in Policies : /\ db.mapping_policies[p] # None
                                       /\ db.mapping_policies[p].epichust_model = m}
    IN  /\ db.epichust_models[m] # None
        /\ db' = [WithoutPolicies(db, targeting) EXCEPT !.epichust_models[m] = None]
        /\ UNCHANGED used

create_provider(p, endpoint) ==
    /\ Generate({p})
    /\ db' = [db EXCEPT !.providers[p] = endpoint]

update_provider(p, endpoint) ==
    /\ db.providers[p] # None
    /\ db' = [db EXCEPT !.providers[p] = endpoint]
    /\ UNCHANGED used

delete_provider(p) ==
    /\ db.providers[p] # None
    /\ db' = [WithoutProviderModels(db, {pm \in ProviderModels : ProviderOf[pm] = p})
                 EXCEPT !.providers[p] = None]
    /\ UNCHANGED used

\* Creating a model its provider already has only touches updated_at.
create_provider_model(pm) ==
    /\ db.providers[ProviderOf[pm]] # None
    /\ Generate({pm})
    /\ db' = [db EXCEPT !.provider_models = @ \cup {pm}]

delete_provider_model(pm) ==
    /\ pm \in db.provider_models
    /\ db' = WithoutProviderModels(db, {pm})
    /\ UNCHANGED used

create_mapping_policy(p, policy, rule, targets) ==
    /\ db.epichust_models[policy.epichust_model] # None
    /\ targets \subseteq db.provider_models
    /\ Generate({p})
    /\ db' = [db EXCEPT !.mapping_policies[p] = policy,
                        !.rate_limit_rules[p] = rule,
                        !.mapping_policy_routes = @ \cup ({p} \X targets)]

\* The request may leave out any part; what it gives replaces what is stored.
update_mapping_policy(p, enabled, rule, targets) ==
    /\ db.mapping_policies[p] # None
    /\ targets \subseteq db.provider_models
    /\ db' = [db EXCEPT !.mapping_policies[p].enabled = enabled,
                        !.rate_limit_rules[p] = rule,
                        !.mapping_policy_routes = {r \in @ : r[1] # p} \cup ({p} \X targets)]
    /\ UNCHANGED used

delete_mapping_policy(p) ==
    /\ db.mapping_policies[p] # None
    /\ db' = WithoutPolicies(db, {p})
    /\ UNCHANGED used

create_api_key(k, hash) ==
    /\ Generate({k, hash})
    /\ db' = [db EXCEPT !.api_keys[k] = [key_hash |-> hash, enabled |-> TRUE]]

update_api_key(k, enabled) ==
    /\ db.api_keys[k] # None
    /\ db' = [db EXCEPT !.api_keys[k].enabled = enabled]
    /\ UNCHANGED used

\* Rotation replaces the hash in place; the policies stay attached.
rotate_api_key(k, hash) ==
    /\ db.api_keys[k] # None
    /\ Generate({hash})
    /\ db' = [db EXCEPT !.api_keys[k].key_hash = hash]

delete_api_key(k) ==
    /\ db.api_keys[k] # None
    /\ db' = [db EXCEPT !.api_keys[k] = None,
                        !.api_key_mapping_policies = {l \in @ : l[1] # k}]
    /\ UNCHANGED used

attach_api_key_mapping_policy(k, p) ==
    /\ db.api_keys[k] # None
    /\ db.mapping_policies[p] # None
    /\ db' = [db EXCEPT !.api_key_mapping_policies = @ \cup {<<k, p>>}]
    /\ UNCHANGED used

detach_api_key_mapping_policy(k, p) ==
    /\ db' = [db EXCEPT !.api_key_mapping_policies = @ \ {<<k, p>>}]
    /\ UNCHANGED used

ModelOp ==
    \E m \in Models :
        \/ \E name \in Names : create_epichust_model(m, name) \/ update_epichust_model(m, name)
        \/ delete_epichust_model(m)

ProviderOp ==
    \/ \E p \in Providers :
          \/ \E e \in Endpoints : create_provider(p, e) \/ update_provider(p, e)
          \/ delete_provider(p)
    \/ \E pm \in ProviderModels : create_provider_model(pm) \/ delete_provider_model(pm)

PolicyOp ==
    \E p \in Policies :
        \/ \E policy \in Policy, rule \in Limits \cup {None}, targets \in SUBSET ProviderModels :
              create_mapping_policy(p, policy, rule, targets)
        \/ \E enabled \in BOOLEAN, rule \in Limits \cup {None}, targets \in SUBSET ProviderModels :
              update_mapping_policy(p, enabled, rule, targets)
        \/ delete_mapping_policy(p)

KeyOp ==
    \E k \in Keys :
        \/ \E hash \in Hashes : create_api_key(k, hash) \/ rotate_api_key(k, hash)
        \/ \E enabled \in BOOLEAN : update_api_key(k, enabled)
        \/ delete_api_key(k)
        \/ \E p \in Policies :
              attach_api_key_mapping_policy(k, p) \/ detach_api_key_mapping_policy(k, p)

AdminOp == ModelOp \/ ProviderOp \/ PolicyOp \/ KeyOp

-----------------------------------------------------------------------------
\* The tables are well typed and every generated id was generated once.
ControlTypeOK ==
    /\ db \in Tables
    /\ used \subseteq Models \cup Providers \cup ProviderModels \cup Policies \cup Keys \cup Hashes

\* Every foreign key of the schema points at a row that exists, after any
\* order of creations, replacements and cascading deletions.
ReferentialIntegrity == References(db)
=============================================================================
