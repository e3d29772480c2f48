------------------------------- MODULE Routing -------------------------------
(***************************************************************************)
(* Picking routes for one model while its policies change: requests call    *)
(* select_route (gateway/src/proxy.rs) under the cache's read lock, and the *)
(* refresh thread replaces the model's target under the write lock.  The    *)
(* round-robin counter belongs to the gateway, not to the cache, and        *)
(* survives a refresh.                                                      *)
(***************************************************************************)
EXTENDS RouteSelection

CONSTANTS
    RowSets,        \* the sets of rows the model's policies may add up to
    CursorModulus,  \* 2^64 in the code
    MaxPicks        \* bound: picks counted between two changes of the routes

ASSUME RoutingAssumption ==
    /\ RowSets \subseteq SUBSET Row /\ \A set \in RowSets : IsFiniteSet(set)
    /\ CursorModulus \in Nat \ {0, 1}
    /\ MaxPicks \in Nat

VARIABLES
    rows,       \* what the model's policies add up to
    target,     \* the ModelTarget in the cache
    cursor,     \* rr_counters: this model's cursor
    hits,       \* history: picks of each position since the number of routes
                \* or the strategy last changed, or the cursor wrapped
    refused     \* history: a request has found no route

vars == <<rows, target, cursor, hits, refused>>

NoHits(t) == [i \in DOMAIN t.routes |-> 0]

Init ==
    /\ rows = {}
    /\ target = NoTarget
    /\ cursor = 0
    /\ hits = <<>>
    /\ refused = FALSE

\* A refresh loads what the policies add up to by now.
Refresh ==
    /\ rows' \in RowSets
    /\ target' \in load_model_routes(rows')
    /\ hits' = IF /\ Len(target'.routes) = Len(target.routes)
                  /\ target'.strategy = target.strategy
               THEN hits ELSE NoHits(target')
    /\ UNCHANGED <<cursor, refused>>

\* A request picks; the roll of its random id may come up anywhere.
select_route ==
    /\ target.routes # <<>>
    /\ \E dice \in 0..TotalWeight(target.routes) - 1 :
          LET i == SelectedIndex(target, cursor, dice)
          IN  /\ hits[i] < MaxPicks
              /\ cursor' = NextCursor(target, cursor, CursorModulus)
              /\ hits' = IF cursor' < cursor THEN NoHits(target)
                         ELSE [hits EXCEPT ![i] = @ + 1]
    /\ UNCHANGED <<rows, target, refused>>

NoRoute ==
    /\ target.routes = <<>>
    /\ refused' = TRUE
    /\ UNCHANGED <<rows, target, cursor, hits>>

Next == Refresh \/ select_route \/ NoRoute

Spec == Init /\ [][Next]_vars
-----------------------------------------------------------------------------
TypeOK ==
    /\ rows \in RowSets \cup {{}}
    /\ target.strategy \in Strategies
    /\ target.routes \in Seq(RouteCandidate)
    /\ cursor \in 0..CursorModulus - 1
    /\ hits \in [DOMAIN target.routes -> 0..MaxPicks]
    /\ refused \in BOOLEAN

\* Weighted picking is exact (select_route, the Weighted arm): of the values
\* the roll can take, each route gets as many as its weight says, a weight of
\* zero counting as one; this is the reference definition of the walk.
WeightedShares ==
    LET total == TotalWeight(target.routes)
    IN  \A i \in DOMAIN target.routes :
            Cardinality({pick \in 0..total - 1 : WeightedIndex(target.routes, pick) = i})
                = EffectiveWeight(target.routes[i])

\* The Priority arm takes routes[0]: no route of any policy of the model is
\* preferred to it, and the strategy in force is the one of a policy that has
\* such a most-preferred route (db.rs:107-110).
FirstIsPreferred ==
    target.routes # <<>> =>
        LET best == target.routes[1]
        IN  /\ \A row \in rows :
                  \/ best.priority < row.route.priority
                  \/ /\ best.priority = row.route.priority
                     /\ best.weight >= row.route.weight
            /\ [route |-> best, routing_strategy |-> target.strategy] \in rows

\* Round robin is fair: as long as the number of routes stays the same, and
\* however the routes are reordered or replaced by refreshes, the picks of any
\* two positions differ by one at most.
RoundRobinFair ==
    target.strategy = "round_robin" =>
        \A i, j \in DOMAIN hits : hits[i] <= hits[j] + 1
=============================================================================
