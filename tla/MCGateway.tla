----------------------------- MODULE MCGateway -----------------------------
(***************************************************************************)
(* Instances of Gateway for TLC.  One API key is rotated from hash old to   *)
(* hash new; its limit is one request.  The caches differ in which hash is  *)
(* valid and in which model is mapped, and each is what one consistent load *)
(* of the tables would give.                                                *)
(***************************************************************************)
EXTENDS Gateway

CONSTANTS old, new, k, m1, m2, pm1, pm2

Route(pm) == [provider_model |-> pm, weight |-> 1, priority |-> 0]

Only(hash, value) == [h \in Hashes |-> IF h = hash THEN value ELSE None]

Before ==
    [key_hashes   |-> Only(old, k),
     rate_limits  |-> Only(old, 1),
     model_routes |-> [m \in Models |->
        IF m = m1 THEN [strategy |-> "round_robin", routes |-> <<Route(pm1), Route(pm2)>>]
        ELSE NoTarget]]

After ==
    [key_hashes   |-> Only(new, k),
     rate_limits  |-> Only(new, 1),
     model_routes |-> [m \in Models |->
        IF m = m2 THEN [strategy |-> "weighted", routes |-> <<Route(pm2)>>]
        ELSE NoTarget]]

Unlimited ==
    [key_hashes   |-> Only(old, k),
     rate_limits  |-> Only(old, None),
     model_routes |-> [m \in Models |->
        [strategy |-> "weighted", routes |-> <<Route(IF m = m1 THEN pm1 ELSE pm2)>>]]]

MCSnapshots == {Before, After, Unlimited}

Chat(token, body) ==
    [path |-> "/v1/chat/completions", post |-> TRUE, token |-> token, body |-> body]

MCInputs ==
    {Chat(old, body) : body \in {"oversized", "unparsable", "not_an_object", m1}}
        \cup {[Chat(old, m1) EXCEPT !.path = "/healthz"], [Chat(old, m1) EXCEPT !.post = FALSE],
              Chat(None, m1)}

Symmetry == Permutations(Requests)
=============================================================================
