---------------------------- MODULE MCConfigCache ----------------------------
(***************************************************************************)
(* Instances of ConfigCache for TLC.  The gateway starts on an empty        *)
(* database, or on one where a key is attached to two policies of a model,  *)
(* with limits of their own, and one of them routes it to a provider.       *)
(***************************************************************************)
EXTENDS ConfigCache

CONSTANTS m1, name1, pv1, e1, pm1, pol1, pol2, k1, h1

MCProviderOf == [pm \in ProviderModels |-> pv1]

Configured ==
    [epichust_models          |-> [m \in Models |-> name1],
     providers                |-> [p \in Providers |-> e1],
     provider_models          |-> {pm1},
     mapping_policies         |-> [p \in Policies |-> [epichust_model |-> m1, enabled |-> TRUE]],
     mapping_policy_routes    |-> {<<pol1, pm1>>},
     rate_limit_rules         |-> [p \in Policies |-> IF p = pol1 THEN 1 ELSE 2],
     api_keys                 |-> [k \in Keys |-> [key_hash |-> h1, enabled |-> TRUE]],
     api_key_mapping_policies |-> Keys \X Policies]

MCSeeds == {NoRows, Configured}
=============================================================================
