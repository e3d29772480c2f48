---------------------------- MODULE RoutingProofs ----------------------------
(***************************************************************************)
(* Proofs about Routing, for any lists of routes, weights and priorities,   *)
(* and any width of the round-robin cursor: weighted shares are exact, the  *)
(* first route is a preferred one, round robin is fair across refreshes.    *)
(***************************************************************************)
EXTENDS Routing, RouteSelectionProofs

\* What a load returns for a set of rows.
LEMMA LoadIsOrdered ==
    ASSUME NEW set \in SUBSET Row, IsFiniteSet(set), NEW t \in load_model_routes(set)
    PROVE  /\ t.strategy \in Strategies
           /\ t.routes \in Seq(RouteCandidate)
           /\ t.routes # <<>> =>
                 \E s \in [1..Cardinality(set) -> set] :
                     /\ \A row \in set : \E i \in 1..Cardinality(set) : s[i] = row
                     /\ Ordered(s)
                     /\ Cardinality(set) \in Nat \ {0}
                     /\ t.strategy = s[1].routing_strategy
                     /\ t.routes[1] = s[1].route
PROOF
  <1> DEFINE n == Cardinality(set)
  <1>1. n \in Nat /\ (n = 0 <=> set = {})
    BY FS_CardinalityType, FS_EmptySet
  <1>2. CASE set = {}
    <2>1. t = NoTarget
      BY <1>2 DEF load_model_routes
    <2>2. t.strategy = "weighted" /\ t.routes = <<>>
      BY <2>1 DEF NoTarget
    <2> QED BY <2>2 DEF Strategies
  <1>3. CASE set # {}
    <2>1. PICK s \in SetToSeqs(set) :
              /\ Ordered(s)
              /\ t = [strategy |-> s[1].routing_strategy,
                      routes   |-> [i \in DOMAIN s |-> s[i].route]]
      BY <1>3 DEF load_model_routes
    <2>2. s \in [1..n -> set] /\ \A i, j \in 1..n : i # j => s[i] # s[j]
      BY <2>1, Zenon DEF SetToSeqs
    <2>3. t.strategy = s[1].routing_strategy /\ t.routes = [i \in 1..n |-> s[i].route]
      BY <2>1, <2>2
    <2>4. n \in Nat \ {0} /\ 1 \in 1..n
      BY <1>1, <1>3
    <2> HIDE DEF n
    <2>5. \A i \in 1..n : s[i].route \in RouteCandidate /\ s[i].routing_strategy \in Strategies
      BY <2>2 DEF Row
    <2>6. t.routes \in Seq(RouteCandidate)
      BY <2>3, <2>4, <2>5
    <2>7. \A row \in set : \E i \in 1..n : s[i] = row
      <3>1. s \in Injection(1..n, set)
        BY <2>2 DEF Injection, IsInjective
      <3>2. IsFiniteSet(1..n) /\ Cardinality(1..n) = n
        BY <2>4, FS_Interval
      <3>3. s \in Surjection(1..n, set)
        BY <3>1, <3>2, FS_Injection DEF n
      <3> QED BY <3>3 DEF Surjection
    <2> QED BY <2>2, <2>1, <2>3, <2>4, <2>5, <2>6, <2>7 DEF n
  <1> QED BY <1>2, <1>3
-----------------------------------------------------------------------------
\* How many picks ago position i had its turn, if the next one is at pos.
PicksAgo(i, pos, n) == IF i <= pos THEN pos - i ELSE pos - i + n

\* k rounds have been picked in full, and the last m picks were of a new one.
Rounds(h, n, pos, k, m) ==
    \A i \in 1..n : h[i] = IF PicksAgo(i, pos, n) < m THEN k + 1 ELSE k

\* Round robin has come round the positions in their order.
PicksComeRound ==
    target.strategy = "round_robin" /\ target.routes # <<>> =>
        LET n == Len(target.routes)
        IN  \E k \in Nat, m \in 0..n - 1 : Rounds(hits, n, cursor % n, k, m)

TargetIsLoaded == target \in load_model_routes(rows)

IInv == TypeOK /\ TargetIsLoaded /\ PicksComeRound

LEMMA InitIInv == Init => IInv
PROOF
  <1> SUFFICES ASSUME Init PROVE IInv
    OBVIOUS
  <1>1. NoTarget.routes = <<>> /\ NoTarget.strategy \in Strategies
    BY DEF NoTarget, Strategies
  <1>2. TypeOK
    <2>1. hits \in [DOMAIN target.routes -> 0..MaxPicks]
      BY <1>1 DEF Init
    <2>2. target.routes \in Seq(RouteCandidate)
      BY <1>1 DEF Init
    <2>3. cursor \in 0..CursorModulus - 1
      BY RoutingAssumption DEF Init
    <2> QED BY <1>1, <2>1, <2>2, <2>3 DEF Init, TypeOK
  <1>3. TargetIsLoaded
    BY DEF Init, TargetIsLoaded, load_model_routes
  <1>4. PicksComeRound
    BY <1>1 DEF Init, PicksComeRound
  <1> QED BY <1>2, <1>3, <1>4 DEF IInv

\* Before the first pick all positions have had their turn equally often.
LEMMA NoHitsComeRound ==
    ASSUME NEW t, t.routes \in Seq(RouteCandidate), t.routes # <<>>, NEW pos \in Nat
    PROVE  \E k \in Nat, m \in 0..Len(t.routes) - 1 : Rounds(NoHits(t), Len(t.routes), pos, k, m)
PROOF
  <1> DEFINE n == Len(t.routes)
  <1>1. n \in Nat \ {0} /\ DOMAIN t.routes = 1..n
    BY EmptySeq
  <1>2. \A i \in 1..n : NoHits(t)[i] = 0
    BY <1>1 DEF NoHits
  <1> HIDE DEF n
  <1>3. Rounds(NoHits(t), n, pos, 0, 0)
    BY <1>1, <1>2 DEF Rounds, PicksAgo
  <1> QED BY <1>1, <1>3 DEF n

\* A refresh keeps the hits only where the positions and their order of turns
\* are the same.
LEMMA RefreshKeeps == IInv /\ Refresh => IInv'
PROOF
  <1> SUFFICES ASSUME IInv, Refresh PROVE IInv'
    OBVIOUS
  <1>1. rows' \in SUBSET Row /\ IsFiniteSet(rows') /\ target' \in load_model_routes(rows')
    BY RoutingAssumption DEF Refresh
  <1>2. target'.strategy \in Strategies /\ target'.routes \in Seq(RouteCandidate)
    BY <1>1, LoadIsOrdered
  <1>3. target.routes \in Seq(RouteCandidate) /\ hits \in [DOMAIN target.routes -> 0..MaxPicks]
    BY DEF IInv, TypeOK
  <1>4. cursor' = cursor /\ cursor \in 0..CursorModulus - 1 /\ cursor \in Nat
    BY RoutingAssumption DEF IInv, TypeOK, Refresh
  <1>5. CASE Len(target'.routes) = Len(target.routes) /\ target'.strategy = target.strategy
    <2>1. hits' = hits
      BY <1>5 DEF Refresh
    <2>2. DOMAIN target'.routes = DOMAIN target.routes
      BY <1>2, <1>3, <1>5
    <2>3. TypeOK'
      BY <1>2, <1>3, <1>4, <2>1, <2>2 DEF IInv, TypeOK, Refresh
    <2>4. PicksComeRound'
      <3>1. target'.routes # <<>> => target.routes # <<>>
        BY <1>2, <1>3, <1>5
      <3> QED BY <1>4, <1>5, <2>1, <3>1 DEF IInv, PicksComeRound
    <2> QED BY <1>1, <2>3, <2>4 DEF IInv, TargetIsLoaded
  <1>6. CASE ~(Len(target'.routes) = Len(target.routes) /\ target'.strategy = target.strategy)
    <2>1. hits' = NoHits(target')
      BY <1>6 DEF Refresh
    <2>2. hits' \in [DOMAIN target'.routes -> 0..MaxPicks]
      BY <2>1, RoutingAssumption DEF NoHits
    <2>3. TypeOK'
      BY <1>2, <1>4, <2>2 DEF IInv, TypeOK, Refresh
    <2>4. PicksComeRound'
      <3>1. SUFFICES ASSUME target'.routes # <<>>
                     PROVE  \E k \in Nat, m \in 0..Len(target'.routes) - 1 :
                                Rounds(hits', Len(target'.routes), cursor' % Len(target'.routes), k, m)
        BY DEF PicksComeRound
      <3>2. Len(target'.routes) \in Nat \ {0}
        BY <1>2, <3>1, EmptySeq
      <3>3. cursor' % Len(target'.routes) \in Nat
        <4>1. \A n \in Nat \ {0} : cursor' % n \in Nat
          BY <1>4, RemainderType
        <4> QED BY <3>2, <4>1, Zenon
      <3> QED BY <1>2, <2>1, <3>1, <3>3, NoHitsComeRound
    <2> QED BY <1>1, <2>3, <2>4 DEF IInv, TargetIsLoaded
  <1> QED BY <1>5, <1>6

\* The picked position has waited longest; then it has waited least.
LEMMA PickComesRound ==
    ASSUME NEW n \in Nat \ {0}, NEW h \in [1..n -> Nat], NEW pos \in 0..n - 1,
           NEW k \in Nat, NEW m \in 0..n - 1, Rounds(h, n, pos, k, m),
           NEW next, next = IF pos = n - 1 THEN 0 ELSE pos + 1
    PROVE  \E k2 \in Nat, m2 \in 0..n - 1 :
               Rounds([h EXCEPT ![pos + 1] = @ + 1], n, next, k2, m2)
PROOF
  <1> DEFINE g == [h EXCEPT ![pos + 1] = @ + 1]
  <1>1. pos + 1 \in 1..n /\ next \in 0..n - 1
    OBVIOUS
  <1>2. \A i \in 1..n : g[i] = IF i = pos + 1 THEN h[i] + 1 ELSE h[i]
    BY <1>1
  <1>3. h[pos + 1] = k
    BY <1>1 DEF Rounds, PicksAgo
  <1>4. \A i \in 1..n : PicksAgo(i, next, n) = IF i = pos + 1 THEN 0 ELSE PicksAgo(i, pos, n) + 1
    BY <1>1 DEF PicksAgo
  <1>5. \A i \in 1..n : PicksAgo(i, pos, n) \in 0..n - 1 /\ PicksAgo(i, next, n) \in 0..n - 1
    BY <1>1 DEF PicksAgo
  <1>6. \A i \in 1..n : h[i] = IF PicksAgo(i, pos, n) < m THEN k + 1 ELSE k
    BY DEF Rounds
  <1> HIDE DEF g
  <1>7. m + 1 < n \/ m + 1 = n
    OBVIOUS
  <1>8. CASE m + 1 < n
    <2>1. ASSUME NEW i \in 1..n
          PROVE  g[i] = IF PicksAgo(i, next, n) < m + 1 THEN k + 1 ELSE k
      <3>1. CASE i = pos + 1
        BY <1>2, <1>3, <1>4, <3>1
      <3>2. CASE i # pos + 1
        <4>1. PicksAgo(i, next, n) = PicksAgo(i, pos, n) + 1 /\ PicksAgo(i, pos, n) \in Int
          <5>1. PicksAgo(i, next, n) = PicksAgo(i, pos, n) + 1
            BY <1>4, <3>2, Zenon
          <5>2. PicksAgo(i, pos, n) \in 0..n - 1
            BY <1>5, Zenon
          <5> QED BY <5>1, <5>2
        <4>2. PicksAgo(i, next, n) < m + 1 <=> PicksAgo(i, pos, n) < m
          BY <4>1
        <4>3. g[i] = h[i]
          BY <1>2, <3>2
        <4> QED BY <1>6, <4>2, <4>3
      <3> QED BY <3>1, <3>2
    <2>2. Rounds(g, n, next, k, m + 1)
      BY <2>1, Zenon DEF Rounds
    <2>3. m + 1 \in 0..n - 1
      BY <1>8
    <2> QED BY <2>2, <2>3, Zenon DEF g
  <1>9. CASE m + 1 = n
    <2>1. ASSUME NEW i \in 1..n, i # pos + 1 PROVE PicksAgo(i, pos, n) < m
      BY <1>4, <1>5, <1>9, <2>1
    <2>2. ASSUME NEW i \in 1..n
          PROVE  g[i] = IF PicksAgo(i, next, n) < 0 THEN k + 1 + 1 ELSE k + 1
      <3>1. CASE i = pos + 1
        BY <1>2, <1>3, <1>5, <3>1
      <3>2. CASE i # pos + 1
        BY <1>2, <1>5, <1>6, <2>1, <3>2
      <3> QED BY <3>1, <3>2
    <2>3. Rounds(g, n, next, k + 1, 0)
      BY <2>2, Zenon DEF Rounds
    <2>4. k + 1 \in Nat /\ 0 \in 0..n - 1
      OBVIOUS
    <2> QED BY <2>3, <2>4, Zenon DEF g
  <1> QED BY <1>7, <1>8, <1>9, Zenon

\* A pick keeps the invariant: the cursor names the position whose turn it is,
\* and moves on to the next, unless it wraps and the count begins again.
LEMMA PickKeeps == IInv /\ select_route => IInv'
PROOF
  <1> SUFFICES ASSUME IInv, select_route PROVE IInv'
    OBVIOUS
  <1> DEFINE routes == target.routes
             n == Len(routes)
  <1>1. /\ routes \in Seq(RouteCandidate) /\ routes # <<>> /\ target.strategy \in Strategies
        /\ hits \in [DOMAIN routes -> 0..MaxPicks]
        /\ cursor \in 0..CursorModulus - 1 /\ cursor \in Nat
    BY RoutingAssumption DEF IInv, TypeOK, select_route
  <1>2. PICK dice \in 0..TotalWeight(routes) - 1 :
            LET i == SelectedIndex(target, cursor, dice)
            IN  /\ hits[i] < MaxPicks
                /\ cursor' = NextCursor(target, cursor, CursorModulus)
                /\ hits' = IF cursor' < cursor THEN NoHits(target)
                           ELSE [hits EXCEPT ![i] = @ + 1]
    BY DEF select_route
  <1> DEFINE i == SelectedIndex(target, cursor, dice)
  <1>3. i \in DOMAIN routes
    BY <1>1, SelectedIndexInDomain
  <1>4. n \in Nat \ {0} /\ DOMAIN routes = 1..n
    BY <1>1, EmptySeq
  <1>5. target' = target /\ rows' = rows /\ refused' = refused
    BY DEF select_route
  <1>6. /\ hits[i] < MaxPicks
        /\ cursor' = NextCursor(target, cursor, CursorModulus)
        /\ hits' = IF cursor' < cursor THEN NoHits(target) ELSE [hits EXCEPT ![i] = @ + 1]
    BY <1>2
  <1>7. /\ cursor' \in 0..CursorModulus - 1
        /\ target.strategy = "round_robin" /\ ~(cursor' < cursor) => cursor' = cursor + 1
    <2>1. (cursor + 1) % CursorModulus =
              IF cursor = CursorModulus - 1 THEN 0 ELSE cursor + 1
      <3>1. CursorModulus \in Nat \ {0, 1}
        BY RoutingAssumption
      <3>2. cursor + 1 < CursorModulus \/ cursor + 1 = CursorModulus
        BY <1>1, <3>1
      <3>3. \A m \in Nat \ {0} : cursor + 1 < m => (cursor + 1) % m = cursor + 1
        BY <1>1
      <3>4. \A m \in Nat \ {0} : m % m = 0
        OBVIOUS
      <3> QED BY <1>1, <3>1, <3>2, <3>3, <3>4
    <2>2. cursor' = IF target.strategy = "round_robin"
                    THEN (cursor + 1) % CursorModulus ELSE cursor
      BY <1>6 DEF NextCursor
    <2> QED BY <1>1, <2>1, <2>2, RoutingAssumption
  <1>8. \A j \in DOMAIN routes : hits[j] \in 0..MaxPicks
    BY <1>1
  <1> HIDE DEF i
  <1>9. hits' \in [DOMAIN routes -> 0..MaxPicks]
    <2>1. CASE cursor' < cursor
      BY <1>6, <2>1, RoutingAssumption DEF NoHits
    <2>2. CASE ~(cursor' < cursor)
      <3>1. hits[i] + 1 \in 0..MaxPicks
        BY <1>3, <1>6, <1>8, RoutingAssumption
      <3>2. hits' = [hits EXCEPT ![i] = hits[i] + 1]
        BY <1>6, <2>2
      <3> QED BY <1>1, <3>1, <3>2
    <2> QED BY <2>1, <2>2
  <1>10. TypeOK'
    BY <1>1, <1>5, <1>7, <1>9 DEF IInv, TypeOK
  <1>11. PicksComeRound'
    <2>1. SUFFICES ASSUME target.strategy = "round_robin"
                   PROVE  \E k \in Nat, m \in 0..n - 1 : Rounds(hits', n, cursor' % n, k, m)
      BY <1>5 DEF PicksComeRound
    <2>2. \A l \in Nat \ {0} : cursor % l \in 0..l - 1 /\ cursor' % l \in Nat
      <3>1. cursor' \in Nat
        BY <1>7, RoutingAssumption
      <3>2. \A a \in Nat, l \in Nat \ {0} : a % l \in 0..l - 1 /\ a % l \in Nat
        BY RemainderType
      <3> QED BY <1>1, <3>1, <3>2, Zenon
    <2>3. cursor % n \in 0..n - 1 /\ cursor' % n \in Nat
      BY <1>4, <2>2, Zenon
    <2>4. CASE cursor' < cursor
      <3>1. hits' = NoHits(target)
        BY <1>6, <2>4
      <3> QED BY <1>1, <2>3, <3>1, NoHitsComeRound
    <2>5. CASE ~(cursor' < cursor)
      <3>1. cursor' % n = IF cursor % n = n - 1 THEN 0 ELSE (cursor % n) + 1
        <4>1. \A l \in Nat \ {0} : (cursor + 1) % l = IF cursor % l = l - 1 THEN 0 ELSE (cursor % l) + 1
          BY <1>1, RemainderStep
        <4>2. cursor' = cursor + 1
          BY <1>7, <2>1, <2>5
        <4> QED BY <1>4, <4>1, <4>2, Zenon
      <3>2. i = (cursor % n) + 1
        BY <2>1 DEF i, SelectedIndex, RoundRobinIndex
      <3>3. PICK k \in Nat, m \in 0..n - 1 : Rounds(hits, n, cursor % n, k, m)
        BY <1>1, <2>1 DEF IInv, PicksComeRound
      <3>4. hits \in [1..n -> Nat]
        BY <1>1, <1>4, RoutingAssumption
      <3>5. hits' = [hits EXCEPT ![(cursor % n) + 1] = @ + 1]
        BY <1>6, <2>5, <3>2
      <3> HIDE DEF n
      <3> QED BY <1>4, <2>3, <3>1, <3>3, <3>4, <3>5, PickComesRound
    <2> QED BY <2>4, <2>5
  <1> QED BY <1>5, <1>10, <1>11 DEF IInv, TargetIsLoaded

LEMMA StepKeepsIInv == IInv /\ [Next]_vars => IInv'
PROOF
  <1> SUFFICES ASSUME IInv, [Next]_vars PROVE IInv'
    OBVIOUS
  <1>1. CASE Refresh
    BY <1>1, RefreshKeeps
  <1>2. CASE select_route
    BY <1>2, PickKeeps
  <1>3. CASE NoRoute
    BY <1>3 DEF NoRoute, IInv, TypeOK, TargetIsLoaded, PicksComeRound
  <1>4. CASE UNCHANGED vars
    BY <1>4 DEF vars, IInv, TypeOK, TargetIsLoaded, PicksComeRound
  <1> QED BY <1>1, <1>2, <1>3, <1>4 DEF Next

LEMMA InvariantHolds == Spec => []IInv
PROOF
  BY InitIInv, StepKeepsIInv, PTL DEF Spec
-----------------------------------------------------------------------------
\* The cursor stays below its width, the counts of picks belong to the routes
\* in force, and the strategy is one of the three (rr_counters and ModelTarget
\* in gateway/src).
THEOREM TypeCorrect == Spec => []TypeOK
PROOF
  <1>1. IInv => TypeOK
    BY DEF IInv
  <1> QED BY <1>1, InvariantHolds, PTL

\* Whatever rows the cache is loaded from, each route gets as many values of
\* the roll as its weight says (the Weighted arm of select_route).
THEOREM SharesAreExact == Spec => []WeightedShares
PROOF
  <1>1. IInv => WeightedShares
    <2>1. IInv => target.routes \in Seq(RouteCandidate)
      BY DEF IInv, TypeOK
    <2> QED BY <2>1, SharesAreWeights DEF WeightedShares
  <1> QED BY <1>1, InvariantHolds, PTL

\* The Priority arm's routes[0] is a most preferred route of all policies of
\* the model, and its policy's strategy the one in force (load_model_routes).
THEOREM FirstRouteIsPreferred == Spec => []FirstIsPreferred
PROOF
  <1>1. IInv => FirstIsPreferred
    <2> SUFFICES ASSUME IInv, target.routes # <<>> PROVE FirstIsPreferred
      BY DEF FirstIsPreferred
    <2>1. rows \in SUBSET Row /\ IsFiniteSet(rows)
      BY RoutingAssumption, FS_EmptySet DEF IInv, TypeOK
    <2>2. PICK s \in [1..Cardinality(rows) -> rows] :
              /\ \A row \in rows : \E i \in 1..Cardinality(rows) : s[i] = row
              /\ Ordered(s)
              /\ Cardinality(rows) \in Nat \ {0}
              /\ target.strategy = s[1].routing_strategy
              /\ target.routes[1] = s[1].route
      BY <2>1, LoadIsOrdered DEF IInv, TargetIsLoaded
    <2> DEFINE n == Cardinality(rows)
               best == target.routes[1]
    <2>3. n \in Nat \ {0} /\ 1 \in 1..n /\ DOMAIN s = 1..n
      BY <2>2
    <2> HIDE DEF n
    <2>4. \A i \in 1..n : s[i] \in Row /\ s[i] \in rows
      BY <2>1, <2>2 DEF n
    <2>5. ASSUME NEW row \in rows
          PROVE  \/ best.priority < row.route.priority
                 \/ best.priority = row.route.priority /\ best.weight >= row.route.weight
      <3>1. PICK i \in 1..n : s[i] = row
        BY <2>2 DEF n
      <3>2. CASE i = 1
        <4>1. best = row.route
          BY <2>2, <3>1, <3>2
        <4>2. row.route.weight \in Nat
          BY <2>1 DEF Row, RouteCandidate
        <4> QED BY <4>1, <4>2
      <3>3. CASE i # 1
        <4>1. 1 < i
          BY <2>3, <3>3
        <4> QED BY <2>2, <2>3, <3>1, <4>1 DEF Ordered
      <3> QED BY <3>2, <3>3
    <2>6. [route |-> best, routing_strategy |-> target.strategy] \in rows
      <3>1. s[1] = [route |-> s[1].route, routing_strategy |-> s[1].routing_strategy]
        BY <2>3, <2>4 DEF Row
      <3> QED BY <2>2, <2>3, <2>4, <3>1
    <2> QED BY <2>5, <2>6 DEF FirstIsPreferred
  <1> QED BY <1>1, InvariantHolds, PTL

\* Between two changes of the number of routes or the strategy, and two wraps
\* of the cursor, no position is ever picked twice more than another, however
\* refreshes and picks interleave (the RoundRobin arm of select_route).
THEOREM RoundRobinIsFair == Spec => []RoundRobinFair
PROOF
  <1>1. IInv => RoundRobinFair
    <2> SUFFICES ASSUME IInv, target.strategy = "round_robin",
                        NEW i \in DOMAIN hits, NEW j \in DOMAIN hits
                 PROVE  hits[i] <= hits[j] + 1
      BY DEF RoundRobinFair
    <2> DEFINE n == Len(target.routes)
    <2>1. target.routes \in Seq(RouteCandidate) /\ DOMAIN hits = 1..n
      BY DEF IInv, TypeOK
    <2>2. target.routes # <<>>
      BY <2>1
    <2>3. PICK k \in Nat, m \in 0..n - 1 : Rounds(hits, n, cursor % n, k, m)
      BY <2>2 DEF IInv, PicksComeRound
    <2> HIDE DEF n
    <2>4. \A l \in 1..n : hits[l] = k \/ hits[l] = k + 1
      BY <2>3 DEF Rounds
    <2> QED BY <2>1, <2>4
  <1> QED BY <1>1, InvariantHolds, PTL
=============================================================================
