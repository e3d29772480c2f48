---------------------------- MODULE MCAdminConsole ----------------------------
(***************************************************************************)
(* An instance of AdminConsole for TLC.  The tables hold one row of each    *)
(* kind, joined to a configuration that works, and two provider models; one *)
(* more row of each can be made.  Other administrators rewrite the policy   *)
(* the console may have open, delete the model it routes to, or add one.    *)
(***************************************************************************)
EXTENDS AdminConsole

CONSTANTS m1, n1, v1, v2, e1, x1, x2, x3, p1, k1, h1

MCProviderOf == [pm \in ProviderModels |-> IF pm = x3 THEN v2 ELSE v1]

\* What the tables hold is older than what is made later.
MCAge == [id \in Models \cup Providers \cup Policies \cup Keys \cup Hashes |->
             IF id \in {m1, v1, p1, k1, h1} THEN 0 ELSE 1]

Working ==
    [epichust_models          |-> [NoRows.epichust_models EXCEPT ![m1] = n1],
     providers                |-> [NoRows.providers EXCEPT ![v1] = e1],
     provider_models          |-> {x1, x2},
     mapping_policies         |-> [NoRows.mapping_policies EXCEPT
                                      ![p1] = [epichust_model |-> m1, enabled |-> TRUE]],
     mapping_policy_routes    |-> {<<p1, x1>>},
     rate_limit_rules         |-> [NoRows.rate_limit_rules EXCEPT ![p1] = 5],
     api_keys                 |-> [NoRows.api_keys EXCEPT ![k1] = [key_hash |-> h1, enabled |-> TRUE]],
     api_key_mapping_policies |-> {}]

MCSeeds == {Working}

Request(op, id, with) == [op |-> op, id |-> id, with |-> with]

Rewrite ==
    Request("update_mapping_policy", p1, [enabled |-> FALSE, rule |-> None, routes |-> {x2}])

DropModel == Request("delete_provider_model", x1, None)

AddPolicy ==
    Request("create_mapping_policy", None,
            [epichust_model |-> m1, enabled |-> TRUE, rule |-> None, routes |-> {}])

MCOthers == {Rewrite, DropModel, AddPolicy}

\* Two requests, about policies or about keys, or one of any kind.
MCTours ==
    {[sections |-> {"routes"}, calls |-> 2, edits |-> 1, others |-> {Rewrite}],
     [sections |-> {"keys"}, calls |-> 2, edits |-> 0, others |-> {AddPolicy}],
     [sections |-> SidebarResource, calls |-> 1, edits |-> 1, others |-> {DropModel}]}
=============================================================================
