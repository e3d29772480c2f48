----------------------------- MODULE MCRouting -----------------------------
(***************************************************************************)
(* An instance of Routing for TLC: one policy with up to two routes of any  *)
(* weights and priorities, one with three plain routes, and pairs of        *)
(* policies with different strategies that share a model.                   *)
(***************************************************************************)
EXTENDS Routing

CONSTANTS pm1, pm2, pm3

Of(strategy, routes) ==
    {[route |-> route, routing_strategy |-> strategy] : route \in routes}

MCRowSets ==
    LET spread(pms) == {r \in RouteCandidate : r.provider_model \in pms /\ r.weight # 1}
        any == {{}} \cup {{a} : a \in spread({pm1})}
                   \cup {{a, b} : a \in spread({pm1}), b \in spread({pm2})}
        plain == {{r \in RouteCandidate : r.weight = w /\ r.priority = 0} : w \in 0..MaxWeight}
    IN  {Of(strategy, list) : strategy \in Strategies, list \in any \cup plain}
            \cup {Of("round_robin", {a}) \cup Of("priority", {b}) :
                     a \in spread({pm1}), b \in spread({pm1, pm2})}
=============================================================================
