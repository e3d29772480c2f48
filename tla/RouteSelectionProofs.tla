------------------------- MODULE RouteSelectionProofs -------------------------
(***************************************************************************)
(* What RouteSelection's arithmetic computes, for every list of routes and  *)
(* every weight.  The two recursive functions it is made of are first shown *)
(* to satisfy their equations.                                              *)
(***************************************************************************)
EXTENDS RouteSelection, FiniteSetTheorems, SequenceTheorems, TLAPS

\* A set of natural numbers has a smallest one (the intervals from 0 to its
\* members are well ordered by inclusion).
LEMMA LeastNatural ==
    ASSUME NEW S \in SUBSET Nat, S # {}
    PROVE  \E n \in S : \A m \in S : n <= m
PROOF
  <1> DEFINE Upto == {0..n : n \in S}
             R == StrictSubsetOrdering(Nat)
  <1>1. Upto # {} /\ Upto \subseteq FiniteSubsetsOf(Nat)
    <2>1. \A n \in S : 0..n \in SUBSET Nat /\ IsFiniteSet(0..n)
      BY FS_Interval
    <2> QED BY <2>1 DEF FiniteSubsetsOf
  <1>2. IsWellFoundedOn(R, FiniteSubsetsOf(Nat))
    BY FS_StrictSubsetOrderingWellFounded
  <1>3. PICK x \in Upto : \A y \in Upto : ~ (<<y, x>> \in R)
    <2> HIDE DEF Upto, R
    <2> QED BY <1>1, <1>2, WFMin
  <1>4. PICK n \in S : x = 0..n
    OBVIOUS
  <1>5. ASSUME NEW m \in S, m < n PROVE FALSE
    <2>1. 0..m \in SUBSET Nat /\ 0..n \in SUBSET Nat
      OBVIOUS
    <2>2. 0..m \subseteq 0..n /\ n \in 0..n /\ n \notin 0..m
      BY <1>5
    <2>3. <<0..m, 0..n>> \in R
      BY <2>1, <2>2 DEF StrictSubsetOrdering
    <2> QED BY <1>3, <1>4, <2>3
  <1> QED BY <1>5

\* The equation of CumulativeWeight's function, on the first k routes.
AddsUp(f, routes, k) ==
    \A n \in 0..k : f[n] = IF n = 0 THEN 0 ELSE f[n - 1] + EffectiveWeight(routes[n])

LEMMA EffectiveWeightType ==
    ASSUME NEW route \in RouteCandidate
    PROVE  EffectiveWeight(route) \in Nat \ {0}
PROOF
  <1>1. route.weight \in 0..MaxWeight
    BY DEF RouteCandidate
  <1> QED BY <1>1, RouteSelectionAssumption DEF EffectiveWeight

\* Sums of the first weights exist.
LEMMA SumsExist ==
    ASSUME NEW routes \in Seq(RouteCandidate)
    PROVE  \E f \in [0..Len(routes) -> Nat] : AddsUp(f, routes, Len(routes))
PROOF
  <1> DEFINE Exists(k) == \E f \in [0..k -> Nat] : AddsUp(f, routes, k)
             Bad == {k \in 0..Len(routes) : ~Exists(k)}
  <1>1. SUFFICES ASSUME Bad # {} PROVE FALSE
    BY DEF Bad
  <1>2. PICK k \in Bad : \A m \in Bad : k <= m
    <2>1. Bad \in SUBSET Nat
      OBVIOUS
    <2> QED BY <1>1, <2>1, LeastNatural, Zenon
  <1>3. Len(routes) \in Nat /\ k \in 0..Len(routes)
    BY <1>2
  <1> HIDE DEF Exists
  <1>4. CASE k = 0
    <2>1. [n \in 0..0 |-> 0] \in [0..0 -> Nat] /\ AddsUp([n \in 0..0 |-> 0], routes, 0)
      BY DEF AddsUp
    <2> QED BY <1>2, <1>4, <2>1 DEF Exists
  <1>5. CASE k # 0
    <2>1. k - 1 \in 0..Len(routes) /\ k - 1 \notin Bad
      BY <1>2, <1>3, <1>5
    <2>2. PICK f \in [0..(k - 1) -> Nat] : AddsUp(f, routes, k - 1)
      BY <2>1 DEF Exists
    <2>3. EffectiveWeight(routes[k]) \in Nat
      BY <1>3, <1>5, EffectiveWeightType
    <2> DEFINE g == [n \in 0..k |-> IF n = k THEN f[k - 1] + EffectiveWeight(routes[k]) ELSE f[n]]
    <2>4. g \in [0..k -> Nat]
      BY <1>3, <1>5, <2>3
    <2>5. AddsUp(g, routes, k)
      BY <1>3, <1>5, <2>2 DEF AddsUp
    <2> QED BY <1>2, <2>4, <2>5 DEF Exists
  <1> QED BY <1>4, <1>5

\* CumulativeWeight is the function of these sums.
LEMMA CumulativeWeightDef ==
    ASSUME NEW routes \in Seq(RouteCandidate)
    PROVE  /\ CumulativeWeight(routes) \in [0..Len(routes) -> Nat]
           /\ CumulativeWeight(routes)[0] = 0
           /\ \A n \in 1..Len(routes) :
                 CumulativeWeight(routes)[n] =
                     CumulativeWeight(routes)[n - 1] + EffectiveWeight(routes[n])
PROOF
  <1> DEFINE Sums(f) == [n \in 0..Len(routes) |->
                            IF n = 0 THEN 0 ELSE f[n - 1] + EffectiveWeight(routes[n])]
             C == CumulativeWeight(routes)
  <1>1. \E f : f = Sums(f)
    <2>1. PICK f \in [0..Len(routes) -> Nat] : AddsUp(f, routes, Len(routes))
      BY SumsExist
    <2>2. f = Sums(f)
      BY <2>1 DEF AddsUp
    <2> QED BY <2>2
  <1>2. C = CHOOSE f : f = Sums(f)
    BY Zenon DEF CumulativeWeight
  <1>3. C = Sums(C)
    BY <1>1, <1>2, Zenon
  <1> HIDE DEF C
  <1>4. /\ DOMAIN C = 0..Len(routes)
        /\ \A n \in 0..Len(routes) : C[n] = IF n = 0 THEN 0 ELSE C[n - 1] + EffectiveWeight(routes[n])
    BY <1>3
  <1> DEFINE Bad == {k \in 0..Len(routes) : C[k] \notin Nat}
  <1>5. Bad = {}
    <2>1. SUFFICES ASSUME Bad # {} PROVE FALSE
      OBVIOUS
    <2>2. PICK k \in Bad : \A m \in Bad : k <= m
      <3>1. Bad \in SUBSET Nat
        OBVIOUS
      <3> QED BY <2>1, <3>1, LeastNatural, Zenon
    <2>3. k \in 0..Len(routes) /\ Len(routes) \in Nat /\ C[k] \notin Nat
      BY <2>2
    <2>4. CASE k = 0
      BY <1>4, <2>3, <2>4
    <2>5. CASE k # 0
      <3>1. C[k - 1] \in Nat
        BY <2>2, <2>3, <2>5
      <3>2. EffectiveWeight(routes[k]) \in Nat
        BY <2>3, <2>5, EffectiveWeightType
      <3> QED BY <1>4, <2>3, <2>5, <3>1, <3>2
    <2> QED BY <2>4, <2>5
  <1>6. \A n \in 0..Len(routes) : C[n] \in Nat
    BY <1>5
  <1>7. C = [n \in 0..Len(routes) |-> C[n]]
    BY <1>3
  <1>8. C \in [0..Len(routes) -> Nat]
    BY <1>6, <1>7
  <1>9. C[0] = 0 /\ \A n \in 1..Len(routes) : C[n] = C[n - 1] + EffectiveWeight(routes[n])
    BY <1>4
  <1> QED BY <1>8, <1>9 DEF C

LEMMA TotalWeightType ==
    ASSUME NEW routes \in Seq(RouteCandidate)
    PROVE  TotalWeight(routes) \in Nat
PROOF
  BY CumulativeWeightDef DEF TotalWeight

\* The sums grow, by the weight of a route at each.
LEMMA CumulativeWeightGrows ==
    ASSUME NEW routes \in Seq(RouteCandidate),
           NEW m \in 0..Len(routes), NEW n \in 0..Len(routes), m < n
    PROVE  CumulativeWeight(routes)[m] < CumulativeWeight(routes)[n]
PROOF
  <1> DEFINE C == CumulativeWeight(routes)
             Bad == {k \in 0..Len(routes) : m < k /\ ~(C[m] < C[k])}
  <1>1. SUFFICES ASSUME Bad # {} PROVE FALSE
    OBVIOUS
  <1>2. PICK k \in Bad : \A l \in Bad : k <= l
    <2>1. Bad \in SUBSET Nat
      OBVIOUS
    <2> QED BY <1>1, <2>1, LeastNatural, Zenon
  <1>3. /\ Len(routes) \in Nat /\ k \in 1..Len(routes) /\ m < k /\ ~(C[m] < C[k])
        /\ k - 1 \in 0..Len(routes)
    BY <1>2
  <1> HIDE DEF C
  <1>4. /\ C \in [0..Len(routes) -> Nat]
        /\ C[k] = C[k - 1] + EffectiveWeight(routes[k])
    BY <1>3, CumulativeWeightDef DEF C
  <1>5. EffectiveWeight(routes[k]) \in Nat \ {0}
    BY <1>3, EffectiveWeightType
  <1>6. C[k - 1] < C[k]
    BY <1>3, <1>4, <1>5
  <1>7. m = k - 1 \/ C[m] < C[k - 1]
    BY <1>2, <1>3
  <1> QED BY <1>3, <1>4, <1>6, <1>7
-----------------------------------------------------------------------------
\* One step of the walk along the weights.
WalkStep(routes, walk, i, left) ==
    IF i > Len(routes) THEN 1
    ELSE IF left < EffectiveWeight(routes[i]) THEN i
         ELSE walk[i + 1][left - EffectiveWeight(routes[i])]

Walk(routes, walk, pick) ==
    [i \in 1..Len(routes) + 1 |-> [left \in 0..pick |-> WalkStep(routes, walk, i, left)]]

\* Where a walk from i may stop, and where it does.
Stops(routes, i, left) ==
    {j \in i..Len(routes) : left < CumulativeWeight(routes)[j] - CumulativeWeight(routes)[i - 1]}

Stop(routes, i, left) ==
    IF Stops(routes, i, left) = {} THEN 1
    ELSE Min(Stops(routes, i, left))

\* A walk stops at the first route where it may.
LEMMA StopIsFirst ==
    ASSUME NEW routes \in Seq(RouteCandidate), NEW i \in 1..Len(routes) + 1, NEW left \in Nat,
           NEW j \in Stops(routes, i, left), \A k \in Stops(routes, i, left) : j <= k
    PROVE  Stop(routes, i, left) = j
PROOF
  <1> DEFINE S == Stops(routes, i, left)
  <1>1. S \subseteq Int
    <2>1. Len(routes) \in Nat
      OBVIOUS
    <2> QED BY <2>1 DEF Stops
  <1>2. j \in S /\ \A k \in S : j <= k
    OBVIOUS
  <1>3. Stop(routes, i, left) = IF S = {} THEN 1 ELSE CHOOSE l \in S : \A k \in S : l <= k
    BY Zenon DEF Stop, Min
  <1> HIDE DEF S
  <1>4. ASSUME NEW l \in S, \A k \in S : l <= k PROVE l = j
    BY <1>1, <1>2, <1>4
  <1> QED BY <1>2, <1>3, <1>4

LEMMA StopStep ==
    ASSUME NEW routes \in Seq(RouteCandidate), NEW i \in 1..Len(routes) + 1, NEW left \in Nat
    PROVE  Stop(routes, i, left) =
               IF i > Len(routes) THEN 1
               ELSE IF left < EffectiveWeight(routes[i]) THEN i
                    ELSE Stop(routes, i + 1, left - EffectiveWeight(routes[i]))
PROOF
  <1> DEFINE C == CumulativeWeight(routes)
  <1>1. Len(routes) \in Nat
    OBVIOUS
  <1>2. CASE i > Len(routes)
    BY <1>1, <1>2 DEF Stop, Stops
  <1>3. CASE i <= Len(routes)
    <2>1. i \in 1..Len(routes) /\ i \in 0..Len(routes) /\ i - 1 \in 0..Len(routes)
      BY <1>1, <1>3
    <2>2. /\ C \in [0..Len(routes) -> Nat]
          /\ C[i] = C[i - 1] + EffectiveWeight(routes[i])
      BY <2>1, CumulativeWeightDef
    <2>3. EffectiveWeight(routes[i]) \in Nat \ {0}
      BY <2>1, EffectiveWeightType
    <2>4. Stops(routes, i, left) = {j \in i..Len(routes) : left < C[j] - C[i - 1]}
      BY Zenon DEF Stops
    <2>5. Stops(routes, i + 1, left - EffectiveWeight(routes[i])) =
              {j \in (i + 1)..Len(routes) : left - EffectiveWeight(routes[i]) < C[j] - C[(i + 1) - 1]}
      BY Zenon DEF Stops
    <2> HIDE DEF C
    <2>6. CASE left < EffectiveWeight(routes[i])
      <3>1. i \in Stops(routes, i, left)
        BY <1>1, <1>3, <2>1, <2>2, <2>3, <2>4, <2>6
      <3>2. \A k \in Stops(routes, i, left) : i <= k
        BY <1>1, <2>4
      <3>3. Stop(routes, i, left) = i
        BY <3>1, <3>2, StopIsFirst
      <3> QED BY <1>1, <1>3, <2>6, <3>3
    <2>7. CASE ~(left < EffectiveWeight(routes[i]))
      <3>1. ASSUME NEW j \in i..Len(routes)
            PROVE  left < C[j] - C[i - 1] <=>
                       j \in (i + 1)..Len(routes) /\ left - EffectiveWeight(routes[i]) < C[j] - C[i]
        <4>1. C[j] \in Nat /\ C[i] \in Nat /\ C[i - 1] \in Nat /\ EffectiveWeight(routes[i]) \in Nat
          BY <1>1, <2>1, <2>2, <2>3
        <4>2. j = i => ~(left < C[j] - C[i - 1])
          BY <2>2, <2>7, <4>1
        <4>3. j # i => j \in (i + 1)..Len(routes)
          BY <1>1
        <4>4. left < C[j] - C[i - 1] <=> left - EffectiveWeight(routes[i]) < C[j] - C[i]
          BY <2>2, <4>1
        <4> QED BY <1>1, <4>2, <4>3, <4>4
      <3>2. Stops(routes, i, left) = Stops(routes, i + 1, left - EffectiveWeight(routes[i]))
        <4>1. (i + 1) - 1 = i /\ (i + 1)..Len(routes) \subseteq i..Len(routes)
          BY <1>1
        <4> QED BY <2>4, <2>5, <3>1, <4>1
      <3>3. Stop(routes, i, left) = Stop(routes, i + 1, left - EffectiveWeight(routes[i]))
        BY <3>2, Zenon DEF Stop
      <3> QED BY <1>1, <1>3, <2>7, <3>3
    <2> QED BY <2>6, <2>7
  <1> QED BY <1>1, <1>2, <1>3

\* WeightedIndex walks by these steps.
LEMMA WeightedIndexWalks ==
    ASSUME NEW routes \in Seq(RouteCandidate), NEW pick \in Nat
    PROVE  \E walk : walk = Walk(routes, walk, pick) /\ WeightedIndex(routes, pick) = walk[1][pick]
PROOF
  <1> DEFINE W == CHOOSE walk : walk = Walk(routes, walk, pick)
             f == [i \in 1..Len(routes) + 1 |-> [left \in 0..pick |-> Stop(routes, i, left)]]
  <1>1. WeightedIndex(routes, pick) = W[1][pick]
    BY Zenon DEF WeightedIndex, Walk, WalkStep
  <1>2. f = Walk(routes, f, pick)
    <2>1. Len(routes) \in Nat
      OBVIOUS
    <2>2. ASSUME NEW i \in 1..Len(routes) + 1, NEW left \in 0..pick
          PROVE  WalkStep(routes, f, i, left) = Stop(routes, i, left)
      <3>1. left \in Nat
        OBVIOUS
      <3>2. CASE i <= Len(routes) /\ ~(left < EffectiveWeight(routes[i]))
        <4>1. EffectiveWeight(routes[i]) \in Nat
          BY <2>1, <3>2, EffectiveWeightType
        <4>2. i + 1 \in 1..Len(routes) + 1 /\ left - EffectiveWeight(routes[i]) \in 0..pick
          BY <2>1, <3>2, <4>1
        <4>3. f[i + 1][left - EffectiveWeight(routes[i])] =
                  Stop(routes, i + 1, left - EffectiveWeight(routes[i]))
          BY <4>2
        <4> QED BY <2>1, <3>1, <3>2, <4>3, StopStep DEF WalkStep
      <3>3. CASE ~(i <= Len(routes) /\ ~(left < EffectiveWeight(routes[i])))
        BY <2>1, <3>1, <3>3, StopStep DEF WalkStep
      <3> QED BY <3>2, <3>3
    <2> QED BY <2>2, Zenon DEF Walk
  <1>3. W = Walk(routes, W, pick)
    <2> HIDE DEF f
    <2> QED BY <1>2, Zenon
  <1> QED BY <1>1, <1>3, Zenon

\* So it stops at the first route whose sum of weights is above the pick.
LEMMA WeightedIndexStops ==
    ASSUME NEW routes \in Seq(RouteCandidate), NEW pick \in Nat
    PROVE  WeightedIndex(routes, pick) = Stop(routes, 1, pick)
PROOF
  <1>1. PICK walk : walk = Walk(routes, walk, pick) /\ WeightedIndex(routes, pick) = walk[1][pick]
    BY WeightedIndexWalks
  <1>2. Len(routes) \in Nat
    OBVIOUS
  <1>3. \A i \in 1..Len(routes) + 1, left \in 0..pick : walk[i][left] = WalkStep(routes, walk, i, left)
    <2>1. \A i \in 1..Len(routes) + 1, left \in 0..pick :
              Walk(routes, walk, pick)[i][left] = WalkStep(routes, walk, i, left)
      BY DEF Walk
    <2> QED BY <1>1, <2>1, Zenon
  <1> DEFINE Right(i) == \A left \in 0..pick : walk[i][left] = Stop(routes, i, left)
             Bad == {k \in 0..Len(routes) : ~Right(Len(routes) + 1 - k)}
  <1>4. Bad = {}
    <2> SUFFICES ASSUME Bad # {} PROVE FALSE
      OBVIOUS
    <2>1. PICK k \in Bad : \A m \in Bad : k <= m
      <3>1. Bad \in SUBSET Nat
        OBVIOUS
      <3> QED BY <3>1, LeastNatural, Zenon
    <2> DEFINE i == Len(routes) + 1 - k
    <2>2. k \in 0..Len(routes) /\ ~Right(i)
      BY <2>1
    <2>3. i \in 1..Len(routes) + 1 /\ (i <= Len(routes) => i + 1 \in 1..Len(routes) + 1)
      BY <1>2, <2>2
    <2> HIDE DEF Right
    <2>4. i <= Len(routes) => Right(i + 1)
      <3>1. i <= Len(routes) => k - 1 \in 0..Len(routes) /\ k - 1 \notin Bad
        BY <1>2, <2>1, <2>2
      <3>2. Len(routes) + 1 - (k - 1) = i + 1
        BY <1>2, <2>2
      <3> QED BY <3>1, <3>2
    <2> HIDE DEF i, Bad
    <2>5. ASSUME NEW left \in 0..pick PROVE walk[i][left] = Stop(routes, i, left)
      <3>1. left \in Nat
        OBVIOUS
      <3>2. CASE i <= Len(routes) /\ ~(left < EffectiveWeight(routes[i]))
        <4>1. EffectiveWeight(routes[i]) \in Nat
          BY <1>2, <2>3, <3>2, EffectiveWeightType
        <4>2. left - EffectiveWeight(routes[i]) \in 0..pick
          BY <3>2, <4>1
        <4>3. walk[i + 1][left - EffectiveWeight(routes[i])] =
                  Stop(routes, i + 1, left - EffectiveWeight(routes[i]))
          BY <2>4, <3>2, <4>2 DEF Right
        <4> QED BY <1>2, <1>3, <2>3, <3>1, <3>2, <4>3, StopStep DEF WalkStep
      <3>3. CASE ~(i <= Len(routes) /\ ~(left < EffectiveWeight(routes[i])))
        BY <1>2, <1>3, <2>3, <3>1, <3>3, StopStep DEF WalkStep
      <3> QED BY <3>2, <3>3
    <2> QED BY <2>2, <2>5 DEF Right
  <1>5. Right(1)
    <2>1. Len(routes) \in 0..Len(routes) /\ Len(routes) + 1 - Len(routes) = 1
      BY <1>2
    <2> HIDE DEF Right
    <2> QED BY <1>4, <2>1
  <1>6. pick \in 0..pick
    OBVIOUS
  <1> QED BY <1>1, <1>5, <1>6

\* Whatever the pick, it names one of the routes.
LEMMA WeightedIndexInDomain ==
    ASSUME NEW routes \in Seq(RouteCandidate), routes # <<>>, NEW pick \in Nat
    PROVE  WeightedIndex(routes, pick) \in DOMAIN routes
PROOF
  <1>1. Len(routes) \in Nat \ {0} /\ DOMAIN routes = 1..Len(routes)
    BY EmptySeq
  <1> DEFINE S == Stops(routes, 1, pick)
  <1>2. S \in SUBSET (1..Len(routes)) /\ S \in SUBSET Nat
    BY <1>1 DEF Stops
  <1>3. WeightedIndex(routes, pick) = IF S = {} THEN 1 ELSE Min(S)
    BY WeightedIndexStops DEF Stop
  <1> HIDE DEF S
  <1>4. S # {} => Min(S) \in S
    BY <1>2, LeastNatural, Zenon DEF Min
  <1>5. 1 \in 1..Len(routes)
    BY <1>1
  <1>6. WeightedIndex(routes, pick) \in 1..Len(routes)
    BY <1>2, <1>3, <1>4, <1>5, Zenon
  <1> QED BY <1>1, <1>6, Zenon

\* The picks that lead to route i are those from the sum of the weights before
\* it up to the sum with it.
LEMMA PicksOfRoute ==
    ASSUME NEW routes \in Seq(RouteCandidate), NEW i \in DOMAIN routes
    PROVE  {pick \in 0..TotalWeight(routes) - 1 : WeightedIndex(routes, pick) = i} =
               CumulativeWeight(routes)[i - 1]..CumulativeWeight(routes)[i] - 1
PROOF
  <1> DEFINE C == CumulativeWeight(routes)
             n == Len(routes)
  <1>1. n \in Nat /\ i \in 1..n /\ i \in 0..n /\ i - 1 \in 0..n /\ 0 \in 0..n /\ n \in 0..n
    OBVIOUS
  <1>2. C \in [0..n -> Nat] /\ C[0] = 0
    BY CumulativeWeightDef
  <1>3. \A l, m \in 0..n : l < m => C[l] < C[m]
    BY CumulativeWeightGrows
  <1>4. TotalWeight(routes) = C[n]
    BY DEF TotalWeight
  <1>5. \A pick : Stops(routes, 1, pick) = {j \in 1..n : pick < C[j] - C[1 - 1]}
    BY DEF Stops
  <1> HIDE DEF C, n
  <1>6. ASSUME NEW pick \in 0..C[n] - 1, WeightedIndex(routes, pick) = i
        PROVE  pick \in C[i - 1]..C[i] - 1
    <2> DEFINE S == Stops(routes, 1, pick)
    <2>1. pick \in Nat /\ C[n] \in Nat /\ pick < C[n]
      BY <1>1, <1>2
    <2>2. S = {j \in 1..n : pick < C[j]}
      <3>1. \A j \in 1..n : C[j] - C[1 - 1] = C[j]
        BY <1>1, <1>2
      <3> QED BY <1>5, <3>1
    <2>3. n \in S /\ S \in SUBSET Nat
      BY <1>1, <2>1, <2>2
    <2>4. i = Min(S)
      BY <1>6, <2>1, <2>3, WeightedIndexStops DEF Stop
    <2> HIDE DEF S
    <2>5. i \in S /\ \A k \in S : i <= k
      BY <2>3, <2>4, LeastNatural, Zenon DEF Min
    <2>6. pick < C[i]
      BY <2>2, <2>5
    <2>7. C[i - 1] <= pick
      <3>1. i - 1 \notin S
        BY <1>1, <2>5
      <3>2. i - 1 # 0 => ~(pick < C[i - 1])
        BY <1>1, <2>2, <3>1
      <3> QED BY <1>1, <1>2, <2>1, <3>2
    <2> QED BY <1>1, <1>2, <2>1, <2>6, <2>7
  <1>7. ASSUME NEW pick \in C[i - 1]..C[i] - 1
        PROVE  pick \in 0..C[n] - 1 /\ WeightedIndex(routes, pick) = i
    <2> DEFINE S == Stops(routes, 1, pick)
    <2>1. pick \in Nat /\ C[i - 1] <= pick /\ pick < C[i] /\ C[i] \in Nat /\ C[n] \in Nat
      BY <1>1, <1>2
    <2>2. i \in S
      BY <1>1, <1>2, <1>5, <2>1
    <2>3. ASSUME NEW k \in S PROVE i <= k
      <3>1. k \in 1..n /\ k \in 0..n /\ C[k] \in Nat /\ pick < C[k]
        BY <1>1, <1>2, <1>5
      <3>2. ~(k < i - 1) /\ k # i - 1
        BY <1>1, <1>2, <1>3, <2>1, <3>1
      <3> QED BY <1>1, <3>1, <3>2
    <2> HIDE DEF S
    <2>4. WeightedIndex(routes, pick) = i
      BY <1>1, <2>1, <2>2, <2>3, WeightedIndexStops, StopIsFirst DEF S, n
    <2>5. i = n \/ C[i] < C[n]
      BY <1>1, <1>3
    <2> QED BY <2>1, <2>4, <2>5
  <1> QED BY <1>4, <1>6, <1>7 DEF C

\* Each route gets as many picks as its weight says.
LEMMA SharesAreWeights ==
    ASSUME NEW routes \in Seq(RouteCandidate), NEW i \in DOMAIN routes
    PROVE  Cardinality({pick \in 0..TotalWeight(routes) - 1 : WeightedIndex(routes, pick) = i})
               = EffectiveWeight(routes[i])
PROOF
  <1> DEFINE C == CumulativeWeight(routes)
  <1>1. i \in 1..Len(routes) /\ i - 1 \in 0..Len(routes) /\ i \in 0..Len(routes)
    OBVIOUS
  <1>2. C[i - 1] \in Nat /\ C[i] \in Nat /\ C[i] = C[i - 1] + EffectiveWeight(routes[i])
    BY <1>1, CumulativeWeightDef
  <1>3. EffectiveWeight(routes[i]) \in Nat \ {0}
    BY <1>1, EffectiveWeightType
  <1> HIDE DEF C
  <1>4. Cardinality(C[i - 1]..C[i] - 1) = EffectiveWeight(routes[i])
    <2>1. C[i] - 1 \in Int /\ C[i - 1] \in Int
      BY <1>2
    <2>2. Cardinality(C[i - 1]..C[i] - 1) =
              IF C[i - 1] > C[i] - 1 THEN 0 ELSE (C[i] - 1) - C[i - 1] + 1
      BY <2>1, FS_Interval
    <2> QED BY <1>2, <1>3, <2>2
  <1> QED BY <1>4, PicksOfRoute DEF C
-----------------------------------------------------------------------------
LEMMA RemainderType ==
    ASSUME NEW a \in Nat, NEW n \in Nat \ {0}
    PROVE  a % n \in 0..n - 1
PROOF
  OBVIOUS

\* Counting on, the remainder grows by one until it begins again.
LEMMA RemainderStep ==
    ASSUME NEW a \in Nat, NEW n \in Nat \ {0}
    PROVE  (a + 1) % n = IF a % n = n - 1 THEN 0 ELSE (a % n) + 1
PROOF
  <1> DEFINE q == a \div n
             r == a % n
             s == (a + 1) \div n
             t == (a + 1) % n
  <1>1. q \in Int /\ r \in 0..n - 1 /\ a = n * q + r
    OBVIOUS
  <1>2. s \in Int /\ t \in 0..n - 1 /\ a + 1 = n * s + t
    OBVIOUS
  <1> HIDE DEF q, r, s, t
  <1>3. n * (s - q) = r + 1 - t
    BY <1>1, <1>2
  <1>4. s - q = 0 \/ s - q = 1
    <2>1. ASSUME s - q <= -1 PROVE FALSE
      <3>1. n * (s - q) <= -n
        BY <1>1, <1>2, <2>1
      <3> QED BY <1>1, <1>2, <1>3, <3>1
    <2>2. ASSUME s - q >= 2 PROVE FALSE
      <3>1. n * (s - q) >= n + n
        BY <1>1, <1>2, <2>2
      <3> QED BY <1>1, <1>2, <1>3, <3>1
    <2> QED BY <1>1, <1>2, <2>1, <2>2
  <1>5. t = IF r = n - 1 THEN 0 ELSE r + 1
    <2>1. CASE s - q = 0
      BY <1>1, <1>2, <1>3, <2>1
    <2>2. CASE s - q = 1
      BY <1>1, <1>2, <1>3, <2>2
    <2> QED BY <1>4, <2>1, <2>2
  <1> QED BY <1>5 DEF r, t

\* select_route picks one of the routes, whatever the strategy.
LEMMA SelectedIndexInDomain ==
    ASSUME NEW target, target.strategy \in Strategies, target.routes \in Seq(RouteCandidate),
           target.routes # <<>>,
           NEW cursor \in Nat, NEW dice \in 0..TotalWeight(target.routes) - 1
    PROVE  SelectedIndex(target, cursor, dice) \in DOMAIN target.routes
PROOF
  <1> DEFINE routes == target.routes
  <1>1. Len(routes) \in Nat \ {0} /\ DOMAIN routes = 1..Len(routes)
    BY EmptySeq
  <1>2. CASE target.strategy = "priority"
    BY <1>1, <1>2 DEF SelectedIndex
  <1>3. CASE target.strategy = "round_robin"
    <2>1. \A n \in Nat \ {0} : (cursor % n) + 1 \in 1..n
      <3> SUFFICES ASSUME NEW n \in Nat \ {0} PROVE (cursor % n) + 1 \in 1..n
        OBVIOUS
      <3>1. cursor % n \in 0..n - 1
        BY RemainderType
      <3> QED BY <3>1
    <2>2. RoundRobinIndex(routes, cursor) \in 1..Len(routes)
      BY <1>1, <2>1, Zenon DEF RoundRobinIndex
    <2> QED BY <1>1, <1>3, <2>2 DEF SelectedIndex
  <1>4. CASE target.strategy = "weighted"
    <2>1. TotalWeight(routes) \in Nat
      BY TotalWeightType
    <2>2. dice \in Nat /\ TotalWeight(routes) \in Nat \ {0}
      BY <2>1
    <2>3. dice % TotalWeight(routes) \in Nat
      <3>1. \A n \in Nat \ {0} : dice % n \in Nat
        BY <2>2, RemainderType
      <3> QED BY <2>2, <3>1, Zenon
    <2>4. WeightedIndex(routes, dice % TotalWeight(routes)) \in DOMAIN routes
      BY <2>3, WeightedIndexInDomain
    <2> QED BY <1>4, <2>4 DEF SelectedIndex
  <1> QED BY <1>2, <1>3, <1>4 DEF Strategies
=============================================================================
