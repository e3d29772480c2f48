--------------------------- MODULE RouteSelection ---------------------------
(***************************************************************************)
(* How the gateway orders the routes of a model (the ORDER BY of            *)
(* load_model_routes in gateway/src/db.rs) and picks one of them            *)
(* (select_route in gateway/src/proxy.rs).                                  *)
(*                                                                          *)
(* A row joins a route with the strategy of its policy.  Several enabled    *)
(* policies may target one model: their rows end up in one list.            *)
(***************************************************************************)
EXTENDS Integers, Sequences, FiniteSets, SequencesExt

CONSTANTS
    ProviderModels,
    MaxWeight,      \* bound: weights go from 0 to here
    MaxPriority     \* bound: priorities go from 0 to here

ASSUME RouteSelectionAssumption == MaxWeight \in Nat /\ MaxPriority \in Nat

Strategies == {"weighted", "priority", "round_robin"}

RouteCandidate ==
    [provider_model : ProviderModels, weight : 0..MaxWeight, priority : 0..MaxPriority]

Row == [route : RouteCandidate, routing_strategy : Strategies]

NoTarget == [strategy |-> "weighted", routes |-> <<>>]

\* Mutant: ORDER BY priority ASC, weight ASC.
OrderedByWeightAsc(s) ==
    \A i, j \in DOMAIN s : i < j =>
        \/ s[i].route.priority < s[j].route.priority
        \/ /\ s[i].route.priority = s[j].route.priority
           /\ s[i].route.weight <= s[j].route.weight

\* ORDER BY priority ASC, weight DESC; rows that tie come in any order.
Ordered(s) ==
    \A i, j \in DOMAIN s : i < j =>
        \/ s[i].route.priority < s[j].route.priority
        \/ /\ s[i].route.priority = s[j].route.priority
           /\ s[i].route.weight >= s[j].route.weight

\* The targets one model's rows may be loaded as.  The first row creates the
\* target, and so decides its strategy.
load_model_routes(rows) ==
    IF rows = {} THEN {NoTarget}
    ELSE {[strategy |-> s[1].routing_strategy,
           routes   |-> [i \in DOMAIN s |-> s[i].route]] :
              s \in {s \in SetToSeqs(rows) : Ordered(s)}}

EffectiveWeight(route) == IF route.weight > 1 THEN route.weight ELSE 1

\* What the weights of the first routes add up to.
CumulativeWeight(routes) ==
    LET upTo[n \in 0..Len(routes)] ==
            IF n = 0 THEN 0 ELSE upTo[n - 1] + EffectiveWeight(routes[n])
    IN  upTo

TotalWeight(routes) == CumulativeWeight(routes)[Len(routes)]

\* Mutant: the walk stops with "<=" instead of "<".
WeightedIndexOffByOne(routes, pick) ==
    LET walk[i \in 1..Len(routes) + 1] ==
            [left \in 0..pick |->
                IF i > Len(routes) THEN 1
                ELSE LET w == EffectiveWeight(routes[i])
                     IN  IF left <= w THEN i ELSE walk[i + 1][left - w]]
    IN  walk[1][pick]

\* The walk along the routes that spends pick on their weights; a walk off
\* the end would leave the first route selected.
WeightedIndex(routes, pick) ==
    LET walk[i \in 1..Len(routes) + 1] ==
            [left \in 0..pick |->
                IF i > Len(routes) THEN 1
                ELSE LET w == EffectiveWeight(routes[i])
                     IN  IF left < w THEN i ELSE walk[i + 1][left - w]]
    IN  walk[1][pick]

RoundRobinIndex(routes, cursor) == (cursor % Len(routes)) + 1

\* The position select_route picks: dice is the request id, cursor the model's
\* round-robin counter.
SelectedIndex(target, cursor, dice) ==
    CASE target.strategy = "priority"    -> 1
      [] target.strategy = "round_robin" -> RoundRobinIndex(target.routes, cursor)
      [] target.strategy = "weighted"    ->
            WeightedIndex(target.routes, dice % TotalWeight(target.routes))

\* Mutant: the counter is read but not advanced.
NextCursorStuck(target, cursor, modulus) == cursor

\* Mutant: the counter does not wrap.
NextCursorUnwrapped(target, cursor, modulus) ==
    IF target.strategy = "round_robin" THEN cursor + 1 ELSE cursor

\* The counter after the pick; it wraps at 2^64 (CursorModulus).
NextCursor(target, cursor, modulus) ==
    IF target.strategy = "round_robin" THEN (cursor + 1) % modulus ELSE cursor
=============================================================================
