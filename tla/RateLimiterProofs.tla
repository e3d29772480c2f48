-------------------------- MODULE RateLimiterProofs --------------------------
(***************************************************************************)
(* Proofs about RateLimiter: however the limits in the cache change, the    *)
(* deques stay short, no window holds more requests of a key than the       *)
(* limits it was admitted against and the worker threads allow, and no      *)
(* request is turned away without cause, for every set of configurations,   *)
(* window and number of workers.                                            *)
(***************************************************************************)
EXTENDS RateLimiter, FiniteSetTheorems, SequenceTheorems, TLAPS

\* Entries leave the deque only once they are stale: the deque of key k is the
\* end of its admissions, and what is missing from it is stale by now.
EndOf(k) ==
    \E dropped \in Nat :
        /\ Len(recorded[k]) = dropped + Len(store[k])
        /\ \A i \in 1..Len(store[k]) :
              store[k][i].timestamp = recorded[k][dropped + i].timestamp
        /\ \A i \in 1..dropped : Stale(recorded[k][i], now)

StoreIsEndOfRecorded == \A k \in Keys : EndOf(k)

\* Clock readings are never ahead of the clock.
ReadingsArePast == \A r \in Requests : seen[r] <= now

\* What the limiter records holds no tokens, so that none are ever counted.
TokensAreZero == \A k \in Keys : \A i \in 1..Len(store[k]) : store[k][i].tokens = 0

\* Admissions are recorded in the order of their clock readings.
RecordedInOrder ==
    \A k \in Keys : \A i \in 1..Len(recorded[k]) :
        /\ recorded[k][i].timestamp <= now
        /\ \A j \in i..Len(recorded[k]) : recorded[k][i].timestamp <= recorded[k][j].timestamp

\* The limits that the n latest admissions of key k, and the requests of P, were
\* admitted against.
Against(k, n, P) ==
    {recorded[k][i].limit : i \in Latest(k, n)} \cup {RequestLimit(config[r]) : r \in P}

\* Together they are no more than the highest of those limits and one request
\* for every further worker.
Fits(k, n, P) ==
    LET bounds == Against(k, n, P)
    IN  None \notin bounds /\ bounds # {} =>
            \E limit \in bounds : n + Cardinality(P) <= limit + Workers - 1

\* That holds of every end of the deque with any requests about to join it:
\* what WindowBound says of the admissions alone is not kept by their steps.
StretchesFit ==
    \A k \in Keys : \A n \in 0..Len(store[k]) : \A P \in SUBSET Pending(k) : Fits(k, n, P)

IInv ==
    /\ TypeOK
    /\ ReadingsArePast
    /\ StoreBound
    /\ StoreIsEndOfRecorded
    /\ TokensAreZero
    /\ RecordedInOrder
    /\ StretchesFit

-----------------------------------------------------------------------------
\* Truncating division, compared with a bound: n \div s > w exactly when n is
\* w + 1 whole units or more.
LEMMA DivAbove ==
    ASSUME NEW n \in Nat, NEW s \in Nat \ {0}, NEW w \in Nat
    PROVE  n \div s > w <=> n >= (w + 1) * s
PROOF
  <1> DEFINE q == n \div s
  <1>1. q \in Nat /\ n >= q * s /\ n < (q + 1) * s
    BY SMT
  <1>2. q > w => n >= (w + 1) * s
    <2>1. q >= w + 1 => q * s >= (w + 1) * s
      BY <1>1, SMT
    <2> QED BY <1>1, <2>1
  <1>3. q <= w => n < (w + 1) * s
    <2>1. q <= w => (q + 1) * s <= (w + 1) * s
      BY <1>1, SMT
    <2> QED BY <1>1, <2>1
  <1> QED BY <1>1, <1>2, <1>3

\* An entry is stale when WindowSecs + 1 whole seconds have passed since.
LEMMA StaleMeans ==
    ASSUME NEW e, e.timestamp \in Nat, NEW t \in Nat
    PROVE  Stale(e, t) <=> t - e.timestamp >= (WindowSecs + 1) * SecTicks
PROOF
  <1>1. CASE t < e.timestamp
    <2>1. (WindowSecs + 1) * SecTicks \in Nat
      BY RateLimiterAssumption
    <2> QED BY <1>1, <2>1, RateLimiterAssumption DEF Stale, AgeSecs
  <1>2. CASE t >= e.timestamp
    <2>1. t - e.timestamp \in Nat
      BY <1>2
    <2> QED BY <1>2, <2>1, DivAbove, RateLimiterAssumption DEF Stale, AgeSecs
  <1> QED BY <1>1, <1>2

\* What is stale stays stale.
LEMMA StaleIsStable ==
    ASSUME NEW e, e.timestamp \in Nat, NEW t \in Nat, NEW u \in Nat, t <= u, Stale(e, t)
    PROVE  Stale(e, u)
PROOF
  <1>1. (WindowSecs + 1) * SecTicks \in Nat
    BY RateLimiterAssumption
  <1> QED BY <1>1, StaleMeans
-----------------------------------------------------------------------------
\* A set of natural numbers has a smallest one (the intervals from 0 to its
\* members are well ordered by inclusion).
LEMMA LeastNatural ==
    ASSUME NEW S \in SUBSET Nat, S # {}
    PROVE  \E n \in S : \A m \in S : n <= m
PROOF
  <1> DEFINE Upto == {0..n : n \in S}
             R == StrictSubsetOrdering(Nat)
  <1>1. Upto # {} /\ Upto \subseteq FiniteSubsetsOf(Nat)
    <2>1. \A n \in S : 0..n \in SUBSET Nat /\ IsFiniteSet(0..n)
      BY FS_Interval
    <2> QED BY <2>1 DEF FiniteSubsetsOf
  <1>2. IsWellFoundedOn(R, FiniteSubsetsOf(Nat))
    BY FS_StrictSubsetOrderingWellFounded
  <1>3. PICK x \in Upto : \A y \in Upto : ~ (<<y, x>> \in R)
    <2> HIDE DEF Upto, R
    <2> QED BY <1>1, <1>2, WFMin
  <1>4. PICK n \in S : x = 0..n
    OBVIOUS
  <1>5. ASSUME NEW m \in S, m < n PROVE FALSE
    <2>1. 0..m \in SUBSET Nat /\ 0..n \in SUBSET Nat
      OBVIOUS
    <2>2. 0..m \subseteq 0..n /\ n \in 0..n /\ n \notin 0..m
      BY <1>5
    <2>3. <<0..m, 0..n>> \in R
      BY <2>1, <2>2 DEF StrictSubsetOrdering
    <2> QED BY <1>3, <1>4, <2>3
  <1> QED BY <1>5

\* Entries without tokens add up to none.
LEMMA NoTokensAddUpToNone ==
    ASSUME NEW q \in Seq(Entry), \A i \in 1..Len(q) : q[i].tokens = 0
    PROVE  TotalTokens(q) = 0
PROOF
  <1> DEFINE Sums(f) == [n \in 0..Len(q) |-> IF n = 0 THEN 0 ELSE f[n - 1] + q[n].tokens]
             T == CHOOSE f : f = Sums(f)
  <1>1. Len(q) \in Nat
    OBVIOUS
  <1>2. \E f : f = Sums(f)
    <2> DEFINE f == [n \in 0..Len(q) |-> 0]
    <2>1. ASSUME NEW n \in 0..Len(q) PROVE f[n] = IF n = 0 THEN 0 ELSE f[n - 1] + q[n].tokens
      BY <1>1
    <2>2. f = Sums(f)
      BY <2>1
    <2> QED BY <2>2
  <1>3. TotalTokens(q) = T[Len(q)]
    BY Zenon DEF TotalTokens
  <1>4. T = Sums(T)
    BY <1>2, Zenon
  <1> HIDE DEF T
  <1>5. \A n \in 0..Len(q) : T[n] = IF n = 0 THEN 0 ELSE T[n - 1] + q[n].tokens
    BY <1>4
  <1> DEFINE Bad == {n \in 0..Len(q) : T[n] # 0}
  <1>6. Bad = {}
    <2> SUFFICES ASSUME Bad # {} PROVE FALSE
      OBVIOUS
    <2>1. PICK n \in Bad : \A m \in Bad : n <= m
      <3>1. Bad \in SUBSET Nat
        OBVIOUS
      <3> QED BY <3>1, LeastNatural, Zenon
    <2>2. n \in 0..Len(q) /\ T[n] # 0
      BY <2>1
    <2>3. n # 0 => n - 1 \in 0..Len(q) /\ T[n - 1] = 0
      BY <1>1, <2>1, <2>2
    <2> QED BY <1>1, <1>5, <2>2, <2>3
  <1> QED BY <1>1, <1>3, <1>6

-----------------------------------------------------------------------------
\* The busy requests and those of one key are finite sets.
LEMMA BusyIsFinite ==
    /\ IsFiniteSet(Busy)
    /\ Cardinality(Busy) \in Nat
    /\ \A k \in Keys : /\ IsFiniteSet(Pending(k))
                       /\ Cardinality(Pending(k)) \in Nat
                       /\ Cardinality(Pending(k)) <= Cardinality(Busy)
PROOF
  <1>1. IsFiniteSet(Busy)
    BY FS_Subset, RateLimiterAssumption DEF Busy
  <1>2. \A k \in Keys : Pending(k) \subseteq Busy
    BY DEF Pending, Busy
  <1> QED BY <1>1, <1>2, FS_Subset, FS_CardinalityType

\* What is left of a sequence without its first d elements.
LEMMA SeqSuffix ==
    ASSUME NEW S, NEW q \in Seq(S), NEW d \in 0..Len(q)
    PROVE  /\ SubSeq(q, d + 1, Len(q)) \in Seq(S)
           /\ Len(SubSeq(q, d + 1, Len(q))) = Len(q) - d
           /\ \A i \in 1..(Len(q) - d) : SubSeq(q, d + 1, Len(q))[i] = q[d + i]
PROOF
  <1>1. Len(q) \in Nat /\ d \in Nat
    OBVIOUS
  <1>2. \A i \in (d + 1)..Len(q) : q[i] \in S
    <2> TAKE i \in (d + 1)..Len(q)
    <2>1. i \in 1..Len(q)
      BY <1>1
    <2> QED BY <2>1, ElementOfSeq
  <1> QED BY <1>1, <1>2, SubSeqProperties

\* In a well-typed state, pruning keeps the end of the deque.
LEMMA PruneKeepsEnd ==
    ASSUME TypeOK, NEW k \in Keys, NEW t \in Nat, Prune(k, t)
    PROVE  \E d \in 0..Len(store[k]) :
              /\ store' = [store EXCEPT ![k] = SubSeq(store[k], d + 1, Len(store[k]))]
              /\ store' \in [Keys -> Seq(Entry)]
              /\ store'[k] \in Seq(Entry)
              /\ Len(store'[k]) = Len(store[k]) - d
              /\ \A i \in 1..Len(store'[k]) : store'[k][i] = store[k][d + i]
              /\ \A i \in 1..d : Stale(store[k][i], t)
              /\ d < Len(store[k]) => ~Stale(store[k][d + 1], t)
PROOF
  <1> DEFINE q == store[k]
  <1>1. q \in Seq(Entry) /\ Len(q) \in Nat
    BY DEF TypeOK
  <1>2. PICK d \in 0..Len(q) :
            /\ store' = [store EXCEPT ![k] = SubSeq(q, d + 1, Len(q))]
            /\ \A i \in 1..d : Stale(q[i], t)
            /\ d < Len(q) => ~Stale(q[d + 1], t)
    BY DEF Prune
  <1>3. store'[k] = SubSeq(q, d + 1, Len(q))
    BY <1>2 DEF TypeOK
  <1>4. /\ SubSeq(q, d + 1, Len(q)) \in Seq(Entry)
        /\ Len(SubSeq(q, d + 1, Len(q))) = Len(q) - d
        /\ \A i \in 1..(Len(q) - d) : SubSeq(q, d + 1, Len(q))[i] = q[d + i]
    BY <1>1, SeqSuffix
  <1>5. store' \in [Keys -> Seq(Entry)]
    BY <1>2, <1>4 DEF TypeOK
  <1> QED BY <1>1, <1>2, <1>3, <1>4, <1>5
-----------------------------------------------------------------------------
\* What a request copies from the cache is a set of limits or None, and sets a
\* positive limit of requests or none.
LEMMA LimitsTyped ==
    ASSUME TypeOK
    PROVE  \A k \in Keys : limits[k] \in RateLimitConfig \cup {None}
PROOF
  <1> QED BY RateLimiterAssumption DEF TypeOK

LEMMA RequestLimitTyped ==
    ASSUME NEW c \in RateLimitConfig \cup {None}
    PROVE  /\ RequestLimit(c) \in (Nat \ {0}) \cup {None}
           /\ Unchecked(c) => RequestLimit(c) = None
PROOF
  <1> QED BY RateLimiterAssumption DEF RateLimitConfig, RequestLimit, Unchecked, is_empty

LEMMA InitTypeOK == Init => TypeOK
PROOF
  <1> SUFFICES ASSUME Init PROVE TypeOK
    OBVIOUS
  <1>1. Busy = {}
    BY DEF Init, Busy
  <1>2. Cardinality(Busy) <= Workers
    BY <1>1, FS_EmptySet, RateLimiterAssumption
  <1> QED BY <1>1, <1>2 DEF Init, TypeOK

\* A step whose busy requests were busy before keeps to the worker threads.
LEMMA FewerBusy ==
    ASSUME TypeOK, Busy' \subseteq Busy
    PROVE  Cardinality(Busy') <= Workers
PROOF
  <1>1. Cardinality(Busy') <= Cardinality(Busy) /\ Cardinality(Busy') \in Nat
    BY BusyIsFinite, FS_Subset, FS_CardinalityType
  <1> QED BY <1>1, BusyIsFinite, RateLimiterAssumption DEF TypeOK

LEMMA EnterTypeOK ==
    ASSUME TypeOK, NEW r \in Requests, NEW k \in Keys, Enter(r, k) PROVE TypeOK'
PROOF
  <1>1. Busy' = Busy \cup {r} /\ r \notin Busy
    BY DEF Enter, Busy, TypeOK
  <1>2. Cardinality(Busy') <= Workers
    <2>1. Cardinality(Busy \cup {r}) = Cardinality(Busy) + 1
      BY <1>1, BusyIsFinite, FS_AddElement
    <2> QED BY <1>1, <2>1, BusyIsFinite, RateLimiterAssumption DEF Enter
  <1>3. limits[k] \in RateLimitConfig \cup {None}
    BY LimitsTyped
  <1>4. /\ key' = [key EXCEPT ![r] = k]
        /\ config' = [config EXCEPT ![r] = limits[k]]
        /\ seen' = [seen EXCEPT ![r] = now]
        /\ now' = now /\ limits' = limits /\ store' = store /\ recorded' = recorded
    BY DEF Enter
  <1>5. /\ key' \in [Requests -> Keys \cup {None}]
        /\ config' \in [Requests -> RateLimitConfig \cup {None}]
        /\ seen' \in [Requests -> Nat]
    BY <1>3, <1>4 DEF TypeOK
  <1>6. \/ /\ pc' = [pc EXCEPT ![r] = "admitted"]
           /\ room' = [room EXCEPT ![k] = @ + 1]
        \/ /\ ~Unchecked(limits[k])
           /\ pc' = [pc EXCEPT ![r] = "limited"]
           /\ room' = room
    BY DEF Enter, Admit
  <1>7. pc' \in [Requests -> {"idle", "limited", "checking", "admitted"}]
    BY <1>6 DEF TypeOK
  <1>8. room' \in [Keys -> Nat]
    <2>1. room \in [Keys -> Nat] /\ room[k] + 1 \in Nat
      BY DEF TypeOK
    <2> QED BY <1>6, <2>1
  <1>9. \A s \in Busy' : key'[s] \in Keys
    BY <1>1, <1>4 DEF TypeOK, Busy
  <1>10. \A s \in Busy' : pc'[s] # "admitted" => config'[s] # None
    <2> SUFFICES ASSUME NEW s \in Busy', pc'[s] # "admitted" PROVE config'[s] # None
      OBVIOUS
    <2>1. s \in Requests
      BY DEF Busy
    <2>2. CASE s = r
      BY <1>4, <1>6, <2>2 DEF TypeOK, Unchecked
    <2>3. CASE s # r
      BY <1>1, <1>4, <1>6, <2>1, <2>3 DEF TypeOK, Busy
    <2> QED BY <2>2, <2>3
  <1> QED BY <1>2, <1>4, <1>5, <1>7, <1>8, <1>9, <1>10 DEF TypeOK

\* A request that leaves, or that only takes a step inside, is no new one.
LEMMA InsideTypeOK ==
    ASSUME TypeOK, NEW r \in Requests, r \in Busy,
           \/ Leave(r)
           \/ /\ pc' = [pc EXCEPT ![r] = "admitted"]
              /\ UNCHANGED <<key, config, seen>>
           \/ /\ pc' = [pc EXCEPT ![r] = "checking"] /\ pc[r] = "limited"
              /\ seen' = [seen EXCEPT ![r] = now]
              /\ UNCHANGED <<key, config>>
    PROVE  /\ pc' \in [Requests -> {"idle", "limited", "checking", "admitted"}]
           /\ key' \in [Requests -> Keys \cup {None}]
           /\ config' \in [Requests -> RateLimitConfig \cup {None}]
           /\ seen' \in [Requests -> Nat]
           /\ \A s \in Busy' : key'[s] \in Keys
           /\ \A s \in Busy' : pc'[s] # "admitted" => config'[s] # None
           /\ Cardinality(Busy)' <= Workers
PROOF
  <1>1. pc' \in [Requests -> {"idle", "limited", "checking", "admitted"}]
    BY DEF Leave, TypeOK
  <1>2. key' \in [Requests -> Keys \cup {None}]
    BY DEF Leave, TypeOK
  <1>3. config' \in [Requests -> RateLimitConfig \cup {None}]
    BY DEF Leave, TypeOK
  <1>4. seen' \in [Requests -> Nat]
    <2>1. seen \in [Requests -> Nat] /\ now \in Nat
      BY DEF TypeOK
    <2>2. \/ seen' = [seen EXCEPT ![r] = 0]
          \/ seen' = seen
          \/ seen' = [seen EXCEPT ![r] = now]
      BY DEF Leave
    <2> QED BY <2>1, <2>2
  <1>5. /\ Busy' \subseteq Busy
        /\ \A s \in Busy' : key'[s] = key[s] /\ config'[s] = config[s]
    BY DEF Leave, Busy, TypeOK
  <1>6. \A s \in Busy' : pc'[s] # "admitted" => pc[s] # "admitted"
    BY <1>5 DEF Leave, Busy, TypeOK
  <1>7. Cardinality(Busy') <= Workers
    BY <1>5, FewerBusy
  <1> QED BY <1>1, <1>2, <1>3, <1>4, <1>5, <1>6, <1>7 DEF TypeOK

LEMMA CheckTypeOK ==
    ASSUME TypeOK, NEW r \in Requests, check_rate_limit(r) PROVE TypeOK'
PROOF
  <1>1. r \in Busy /\ key[r] \in Keys /\ seen[r] \in Nat /\ config[r] \in RateLimitConfig
    BY DEF check_rate_limit, TypeOK, Busy
  <1>2. store' \in [Keys -> Seq(Entry)]
    BY <1>1, PruneKeepsEnd DEF check_rate_limit
  <1>3. room' \in [Keys -> Nat]
    <2>1. RequestLimit(config[r]) \in (Nat \ {0}) \cup {None}
      BY <1>1, RequestLimitTyped
    <2>2. room' = room \/ Admit(key[r], RequestLimit(config[r]))
      BY DEF check_rate_limit
    <2> QED BY <1>1, <2>1, <2>2, RateLimiterAssumption DEF Admit, TypeOK
  <1>4. now' = now /\ limits' = limits /\ recorded' = recorded
    BY DEF check_rate_limit
  <1>5. \/ Leave(r)
        \/ pc' = [pc EXCEPT ![r] = "admitted"] /\ UNCHANGED <<key, config, seen>>
    BY DEF check_rate_limit
  <1> QED BY <1>1, <1>2, <1>3, <1>4, <1>5, InsideTypeOK DEF TypeOK

\* What a record appends.
LEMMA RecordAppends ==
    ASSUME TypeOK, NEW r \in Requests, record_rate_limit(r)
    PROVE  /\ key[r] \in Keys /\ r \in Pending(key[r]) /\ r \in Busy
           /\ [timestamp |-> now, tokens |-> 0] \in Entry
           /\ [timestamp |-> now, limit |-> RequestLimit(config[r])] \in Admission
           /\ store' = [store EXCEPT ![key[r]] = Append(@, [timestamp |-> now, tokens |-> 0])]
           /\ recorded' = [recorded EXCEPT ![key[r]] =
                  Append(@, [timestamp |-> now, limit |-> RequestLimit(config[r])])]
           /\ store' \in [Keys -> Seq(Entry)]
           /\ recorded' \in [Keys -> Seq(Admission)]
PROOF
  <1>1. key[r] \in Keys /\ r \in Pending(key[r]) /\ r \in Busy
    BY DEF record_rate_limit, TypeOK, Busy, Pending
  <1>2. [timestamp |-> now, tokens |-> 0] \in Entry
    BY DEF Entry, TypeOK
  <1>3. [timestamp |-> now, limit |-> RequestLimit(config[r])] \in Admission
    <2>1. config[r] \in RateLimitConfig \cup {None}
      BY DEF TypeOK
    <2> QED BY <2>1, RequestLimitTyped DEF Admission, TypeOK
  <1>4. /\ store' = [store EXCEPT ![key[r]] = Append(@, [timestamp |-> now, tokens |-> 0])]
        /\ recorded' = [recorded EXCEPT ![key[r]] =
               Append(@, [timestamp |-> now, limit |-> RequestLimit(config[r])])]
    BY DEF record_rate_limit
  <1>5. store' \in [Keys -> Seq(Entry)]
    BY <1>1, <1>2, <1>4 DEF TypeOK
  <1>6. recorded' \in [Keys -> Seq(Admission)]
    BY <1>1, <1>3, <1>4 DEF TypeOK
  <1> QED BY <1>1, <1>2, <1>3, <1>4, <1>5, <1>6

LEMMA NextTypeOK == TypeOK /\ [Next]_vars => TypeOK'
PROOF
  <1> SUFFICES ASSUME TypeOK, [Next]_vars PROVE TypeOK'
    OBVIOUS
  <1>1. CASE Tick \/ Refresh
    <2>1. Busy' = Busy
      BY <1>1 DEF Tick, Refresh, Busy, inside
    <2>2. Cardinality(Busy)' <= Workers
      BY <2>1, FewerBusy
    <2> QED BY <1>1, <2>1, <2>2 DEF Tick, Refresh, TypeOK, inside
  <1>2. ASSUME NEW r \in Requests, NEW k \in Keys, Enter(r, k) PROVE TypeOK'
    BY <1>2, EnterTypeOK
  <1>3. ASSUME NEW r \in Requests, ReadClock(r) PROVE TypeOK'
    <2>1. r \in Busy
      BY <1>3 DEF ReadClock, Busy
    <2> QED BY <1>3, <2>1, InsideTypeOK DEF ReadClock, TypeOK
  <1>4. ASSUME NEW r \in Requests, check_rate_limit(r) PROVE TypeOK'
    BY <1>4, CheckTypeOK
  <1>5. ASSUME NEW r \in Requests, record_rate_limit(r) PROVE TypeOK'
    <2>1. r \in Busy /\ store' \in [Keys -> Seq(Entry)] /\ recorded' \in [Keys -> Seq(Admission)]
      BY <1>5, RecordAppends
    <2>2. Leave(r) /\ now' = now /\ limits' = limits /\ room' = room
      BY <1>5 DEF record_rate_limit
    <2> QED BY <2>1, <2>2, InsideTypeOK DEF TypeOK
  <1>6. CASE UNCHANGED vars
    <2>1. Busy' = Busy
      BY <1>6 DEF vars, Busy, inside
    <2>2. Cardinality(Busy)' <= Workers
      BY <2>1, FewerBusy
    <2> QED BY <1>6, <2>1, <2>2 DEF vars, inside, TypeOK
  <1> QED BY <1>1, <1>2, <1>3, <1>4, <1>5, <1>6 DEF Next

\* The variables are always well typed, and the limiter never holds more
\* requests than there are workers.
THEOREM TypeCorrect == Spec => []TypeOK
PROOF
  <1> QED BY InitTypeOK, NextTypeOK, PTL DEF Spec
-----------------------------------------------------------------------------
\* The requests about to append to a deque do not grow unless one is admitted.
LEMMA PendingShrinks ==
    ASSUME NEW k \in Keys, Pending(k)' \subseteq Pending(k)
    PROVE  /\ Cardinality(Pending(k)') \in Nat
           /\ Cardinality(Pending(k)') <= Cardinality(Pending(k))
PROOF
  <1> QED BY BusyIsFinite, FS_Subset, FS_CardinalityType

\* What the deque of key k holds, and what it may hold.
RoomFor(k) == Len(store[k]) + Cardinality(Pending(k)) <= room[k]

\* Steps that only shorten the deque and add nothing to it.
LEMMA RoomKept ==
    ASSUME TypeOK, NEW k \in Keys, RoomFor(k),
           store'[k] \in Seq(Entry),
           Len(store'[k]) <= Len(store[k]),
           Pending(k)' \subseteq Pending(k),
           room'[k] = room[k]
    PROVE  RoomFor(k)'
PROOF
  <1>1. Len(store[k]) \in Nat /\ Len(store'[k]) \in Nat /\ room[k] \in Nat
    BY DEF TypeOK
  <1> QED BY <1>1, PendingShrinks, BusyIsFinite DEF RoomFor

\* One more request on its way to the deque, and room for it.
LEMMA RoomForOneMore ==
    ASSUME TypeOK, NEW k \in Keys, RoomFor(k), NEW r \in Requests,
           store'[k] \in Seq(Entry),
           Len(store'[k]) <= Len(store[k]),
           Pending(k)' \subseteq Pending(k) \cup {r},
           room'[k] = room[k] + 1
    PROVE  RoomFor(k)'
PROOF
  <1>1. Len(store[k]) \in Nat /\ Len(store'[k]) \in Nat /\ room[k] \in Nat
    BY DEF TypeOK
  <1>2. /\ IsFiniteSet(Pending(k) \cup {r})
        /\ Cardinality(Pending(k) \cup {r}) \in Nat
        /\ Cardinality(Pending(k) \cup {r}) <= Cardinality(Pending(k)) + 1
    <2>1. IsFiniteSet(Pending(k)) /\ Cardinality(Pending(k)) \in Nat
      BY BusyIsFinite
    <2>2. /\ IsFiniteSet(Pending(k) \cup {r})
          /\ Cardinality(Pending(k) \cup {r}) = IF r \in Pending(k) THEN Cardinality(Pending(k))
                                               ELSE Cardinality(Pending(k)) + 1
      BY <2>1, FS_AddElement
    <2> QED BY <2>1, <2>2
  <1>3. Cardinality(Pending(k)') \in Nat /\ Cardinality(Pending(k)') <= Cardinality(Pending(k)) + 1
    <2>1. /\ Cardinality(Pending(k)') \in Nat
          /\ Cardinality(Pending(k)') <= Cardinality(Pending(k) \cup {r})
      BY <1>2, FS_Subset, FS_CardinalityType
    <2> QED BY <1>2, <2>1, BusyIsFinite
  <1> QED BY <1>1, <1>3, BusyIsFinite DEF RoomFor

\* How a check changes the deque of any key: its own loses entries at the front.
LEMMA CheckShortens ==
    ASSUME TypeOK, NEW r \in Requests, check_rate_limit(r), NEW k \in Keys
    PROVE  /\ store'[k] \in Seq(Entry)
           /\ Len(store'[k]) <= Len(store[k])
           /\ key[r] # k => store'[k] = store[k]
PROOF
  <1>1. key[r] \in Keys /\ seen[r] \in Nat /\ Prune(key[r], seen[r])
    BY DEF check_rate_limit, TypeOK, Busy
  <1>2. store[k] \in Seq(Entry) /\ Len(store[k]) \in Nat
    BY DEF TypeOK
  <1>3. CASE key[r] = k
    <2>1. PICK d \in 0..Len(store[k]) :
             store'[k] \in Seq(Entry) /\ Len(store'[k]) = Len(store[k]) - d
      BY <1>1, <1>3, PruneKeepsEnd
    <2> QED BY <1>2, <1>3, <2>1
  <1>4. CASE key[r] # k
    BY <1>1, <1>2, <1>4 DEF Prune, TypeOK
  <1> QED BY <1>3, <1>4

\* A check admits with less than the limit it read in the deque.
LEMMA CheckAdmits ==
    ASSUME TypeOK, NEW r \in Requests, check_rate_limit(r), ~Leave(r)
    PROVE  /\ pc' = [pc EXCEPT ![r] = "admitted"] /\ UNCHANGED <<key, config, seen>>
           /\ Admit(key[r], RequestLimit(config[r]))
           /\ RequestLimit(config[r]) \in (Nat \ {0}) \cup {None}
           /\ RequestLimit(config[r]) # None => Len(store'[key[r]]) < RequestLimit(config[r])
           /\ r \notin Pending(key[r])
           /\ \A k \in Keys : Pending(k)' = IF key[r] = k THEN Pending(k) \cup {r} ELSE Pending(k)
PROOF
  <1>1. /\ key[r] \in Keys /\ config[r] \in RateLimitConfig /\ config[r] # None
        /\ pc[r] = "checking"
    BY RateLimiterAssumption DEF check_rate_limit, TypeOK, Busy
  <1>2. /\ pc' = [pc EXCEPT ![r] = "admitted"] /\ UNCHANGED <<key, config, seen>>
        /\ Admit(key[r], RequestLimit(config[r]))
        /\ ~OverRequests(store'[key[r]], config[r])
    BY DEF check_rate_limit
  <1>3. RequestLimit(config[r]) \in (Nat \ {0}) \cup {None}
    BY <1>1, RequestLimitTyped
  <1>4. store'[key[r]] \in Seq(Entry) /\ Len(store'[key[r]]) \in Nat
    BY <1>1, CheckShortens
  <1>5. RequestLimit(config[r]) # None => Len(store'[key[r]]) < RequestLimit(config[r])
    BY <1>1, <1>2, <1>3, <1>4 DEF OverRequests, RequestLimit
  <1>6. \A k \in Keys : Pending(k)' = IF key[r] = k THEN Pending(k) \cup {r} ELSE Pending(k)
    BY <1>1, <1>2 DEF Pending, TypeOK
  <1>7. r \notin Pending(key[r])
    BY <1>1 DEF Pending
  <1> QED BY <1>1, <1>2, <1>3, <1>5, <1>6, <1>7

\* As many requests wait to append as there are worker threads, at most.
LEMMA PendingWithinWorkers ==
    ASSUME TypeOK, NEW k \in Keys, NEW P \in SUBSET Pending(k)
    PROVE  IsFiniteSet(P) /\ Cardinality(P) \in Nat /\ Cardinality(P) <= Workers
PROOF
  <1>1. /\ IsFiniteSet(Pending(k)) /\ Cardinality(Pending(k)) \in Nat
        /\ Cardinality(Pending(k)) <= Workers
    BY BusyIsFinite, RateLimiterAssumption DEF TypeOK
  <1>2. IsFiniteSet(P) /\ Cardinality(P) \in Nat /\ Cardinality(P) <= Cardinality(Pending(k))
    BY <1>1, FS_Subset, FS_CardinalityType
  <1> QED BY <1>1, <1>2, RateLimiterAssumption

LEMMA LeavingIsNotPending ==
    ASSUME TypeOK, NEW r \in Requests, Leave(r), NEW k \in Keys
    PROVE  Pending(k)' = Pending(k) \ {r}
PROOF
  <1> QED BY DEF Leave, Pending, TypeOK

LEMMA CheckStoreBound ==
    ASSUME TypeOK, TypeOK', NEW k \in Keys, RoomFor(k), NEW r \in Requests, check_rate_limit(r)
    PROVE  RoomFor(k)'
PROOF
  <1>1. store'[k] \in Seq(Entry) /\ Len(store'[k]) <= Len(store[k]) /\ key[r] \in Keys
    BY CheckShortens DEF check_rate_limit, TypeOK, Busy
  <1>2. CASE Leave(r)
    <2>1. Pending(k)' \subseteq Pending(k)
      BY <1>2, LeavingIsNotPending
    <2>2. pc' # [pc EXCEPT ![r] = "admitted"]
      BY <1>2 DEF Leave, TypeOK
    <2>3. room' = room
      BY <2>2 DEF check_rate_limit
    <2> QED BY <1>1, <2>1, <2>3, RoomKept
  <1>3. CASE ~Leave(r)
    <2>1. /\ Admit(key[r], RequestLimit(config[r]))
          /\ RequestLimit(config[r]) \in (Nat \ {0}) \cup {None}
          /\ RequestLimit(config[r]) # None => Len(store'[key[r]]) < RequestLimit(config[r])
          /\ Pending(k)' = IF key[r] = k THEN Pending(k) \cup {r} ELSE Pending(k)
      BY <1>3, CheckAdmits
    <2>2. CASE key[r] # k
      <3>1. room'[k] = room[k]
        BY <1>1, <2>1, <2>2 DEF Admit, TypeOK
      <3> QED BY <1>1, <2>1, <2>2, <3>1, RoomKept
    <2>3. CASE key[r] = k /\ RequestLimit(config[r]) = None
      <3>1. room'[k] = room[k] + 1
        BY <2>1, <2>3 DEF Admit, TypeOK
      <3>2. Pending(k)' \subseteq Pending(k) \cup {r}
        BY <2>1, <2>3
      <3> QED BY <1>1, <3>1, <3>2, RoomForOneMore
    <2>4. CASE key[r] = k /\ RequestLimit(config[r]) # None
      <3> DEFINE limit == RequestLimit(config[r])
      <3>1. room'[k] = limit + Workers - 1
        BY <2>1, <2>4 DEF Admit, TypeOK
      <3>2. Cardinality(Pending(k)') \in Nat /\ Cardinality(Pending(k)') <= Workers
        <4>1. Pending(k)' \subseteq Busy'
          BY DEF Pending, Busy
        <4>2. IsFiniteSet(Busy')
          BY FS_Subset, RateLimiterAssumption DEF Busy
        <4>3. Cardinality(Busy') <= Workers /\ Cardinality(Busy') \in Nat
          BY <4>2, FS_CardinalityType DEF TypeOK
        <4>4. /\ Cardinality(Pending(k)') \in Nat
              /\ Cardinality(Pending(k)') <= Cardinality(Busy')
          BY <4>1, <4>2, FS_Subset, FS_CardinalityType
        <4> QED BY <4>3, <4>4, RateLimiterAssumption
      <3>3. Len(store'[k]) < limit /\ Len(store'[k]) \in Nat /\ limit \in Nat
        BY <1>1, <2>1, <2>4
      <3> HIDE DEF limit
      <3>4. Len(store'[k]) + Cardinality(Pending(k)') <= room'[k]
        BY <3>1, <3>2, <3>3, RateLimiterAssumption
      <3> QED BY <3>4 DEF RoomFor
    <2> QED BY <2>2, <2>3, <2>4
  <1> QED BY <1>2, <1>3

LEMMA RecordStoreBound ==
    ASSUME TypeOK, NEW k \in Keys, RoomFor(k), NEW r \in Requests, record_rate_limit(r)
    PROVE  RoomFor(k)'
PROOF
  <1>1. /\ key[r] \in Keys /\ r \in Pending(key[r])
        /\ [timestamp |-> now, tokens |-> 0] \in Entry
        /\ store' = [store EXCEPT ![key[r]] = Append(@, [timestamp |-> now, tokens |-> 0])]
        /\ store'[k] \in Seq(Entry)
    BY RecordAppends
  <1>2. Pending(k)' = Pending(k) \ {r} /\ room' = room
    BY LeavingIsNotPending DEF record_rate_limit
  <1>3. store[k] \in Seq(Entry) /\ Len(store[k]) \in Nat /\ room[k] \in Nat
    BY DEF TypeOK
  <1>4. CASE key[r] = k
    <2>1. Cardinality(Pending(k)') = Cardinality(Pending(k)) - 1
      BY <1>1, <1>2, <1>4, BusyIsFinite, FS_RemoveElement
    <2>2. store'[k] = Append(store[k], [timestamp |-> now, tokens |-> 0])
      BY <1>1, <1>4 DEF TypeOK
    <2>3. Len(store'[k]) = Len(store[k]) + 1
      BY <1>1, <1>3, <2>2
    <2> QED BY <1>2, <1>3, <2>1, <2>3, BusyIsFinite DEF RoomFor
  <1>5. CASE key[r] # k
    <2>1. store'[k] = store[k]
      BY <1>1, <1>5 DEF TypeOK
    <2>2. Len(store'[k]) <= Len(store[k]) /\ Pending(k)' \subseteq Pending(k) /\ room'[k] = room[k]
      BY <1>2, <1>3, <2>1
    <2> QED BY <1>1, <2>2, RoomKept
  <1> QED BY <1>4, <1>5

\* The steps of one request, and of the cache and the clock, that leave the
\* deques alone and admit nobody.
Outside ==
    \/ Tick
    \/ Refresh
    \/ \E r \in Requests : ReadClock(r)
    \/ UNCHANGED vars

LEMMA OutsideAdmitsNobody ==
    ASSUME TypeOK, Outside
    PROVE  /\ store' = store /\ recorded' = recorded /\ room' = room
           /\ config' = config
           /\ now \in Nat /\ now' \in Nat /\ now <= now'
           /\ \A k \in Keys : Pending(k)' = Pending(k)
PROOF
  <1>1. now \in Nat
    BY DEF TypeOK
  <1>2. CASE Tick \/ Refresh \/ UNCHANGED vars
    BY <1>1, <1>2 DEF Tick, Refresh, vars, inside, Pending
  <1>3. ASSUME NEW r \in Requests, ReadClock(r)
        PROVE  /\ store' = store /\ recorded' = recorded /\ room' = room
               /\ config' = config
               /\ now \in Nat /\ now' \in Nat /\ now <= now'
               /\ \A k \in Keys : Pending(k)' = Pending(k)
    <2>1. \A k \in Keys : Pending(k)' = Pending(k)
      BY <1>3 DEF ReadClock, Pending, TypeOK
    <2> QED BY <1>1, <1>3, <2>1 DEF ReadClock
  <1> QED BY <1>2, <1>3 DEF Outside

\* What admits nobody, lets in, checks or records.
LEMMA NextIsOneOf ==
    ASSUME [Next]_vars
    PROVE  \/ Outside
           \/ \E r \in Requests, k \in Keys : Enter(r, k)
           \/ \E r \in Requests : check_rate_limit(r)
           \/ \E r \in Requests : record_rate_limit(r)
PROOF
  <1> QED BY Zenon DEF Next, Outside

\* A request that enters waits to append only when it is not checked.
LEMMA EnterAdmits ==
    ASSUME TypeOK, NEW r \in Requests, NEW j \in Keys, Enter(r, j)
    PROVE  /\ store' = store /\ recorded' = recorded /\ now' = now
           /\ config' = [config EXCEPT ![r] = limits[j]]
           /\ \A k \in Keys : r \notin Pending(k)
           /\ \/ Unchecked(limits[j]) /\ room' = [room EXCEPT ![j] = @ + 1]
              \/ room' = room /\ \A k \in Keys : Pending(k)' = Pending(k)
           /\ \A k \in Keys : Pending(k)' \subseteq Pending(k) \cup {r}
           /\ \A k \in Keys : k # j => Pending(k)' = Pending(k)
PROOF
  <1>1. /\ store' = store /\ recorded' = recorded /\ now' = now
        /\ config' = [config EXCEPT ![r] = limits[j]]
        /\ key' = [key EXCEPT ![r] = j]
        /\ pc[r] = "idle"
    BY DEF Enter
  <1>2. \A k \in Keys : r \notin Pending(k)
    BY <1>1 DEF Pending
  <1>3. \/ /\ Unchecked(limits[j]) /\ room' = [room EXCEPT ![j] = @ + 1]
           /\ pc' = [pc EXCEPT ![r] = "admitted"]
        \/ room' = room /\ pc' = [pc EXCEPT ![r] = "limited"]
    BY DEF Enter, Admit
  <1>4. \A k \in Keys : Pending(k)' \subseteq Pending(k) \cup {r}
    BY <1>1, <1>3 DEF Pending, TypeOK
  <1>5. \A k \in Keys : k # j => Pending(k)' = Pending(k)
    BY <1>1, <1>3 DEF Pending, TypeOK
  <1>6. pc' = [pc EXCEPT ![r] = "limited"] => \A k \in Keys : Pending(k)' = Pending(k)
    BY <1>1 DEF Pending, TypeOK
  <1> QED BY <1>1, <1>2, <1>3, <1>4, <1>5, <1>6

LEMMA NextStoreBound == TypeOK /\ TypeOK' /\ StoreBound /\ [Next]_vars => StoreBound'
PROOF
  <1> SUFFICES ASSUME TypeOK, TypeOK', StoreBound, [Next]_vars, NEW k \in Keys
               PROVE  RoomFor(k)'
    BY DEF StoreBound, RoomFor
  <1>0. store[k] \in Seq(Entry) /\ store'[k] \in Seq(Entry) /\ Len(store[k]) \in Nat
    BY DEF TypeOK
  <1>1. RoomFor(k)
    BY DEF StoreBound, RoomFor
  <1>2. CASE Outside
    <2>1. store' = store /\ room' = room /\ Pending(k)' = Pending(k)
      BY <1>2, OutsideAdmitsNobody
    <2> QED BY <1>0, <1>1, <2>1, RoomKept
  <1>3. ASSUME NEW r \in Requests, NEW j \in Keys, Enter(r, j) PROVE RoomFor(k)'
    <2>1. /\ store' = store
          /\ \/ room' = [room EXCEPT ![j] = @ + 1]
             \/ room' = room /\ Pending(k)' = Pending(k)
          /\ Pending(k)' \subseteq Pending(k) \cup {r}
          /\ k # j => Pending(k)' = Pending(k)
      BY <1>3, EnterAdmits
    <2>2. CASE room' = room /\ Pending(k)' = Pending(k)
      BY <1>0, <1>1, <2>1, <2>2, RoomKept
    <2>3. CASE room' = [room EXCEPT ![j] = @ + 1] /\ k = j
      <3>1. room'[k] = room[k] + 1
        BY <2>3 DEF TypeOK
      <3> QED BY <1>0, <1>1, <2>1, <3>1, RoomForOneMore
    <2>4. CASE room' = [room EXCEPT ![j] = @ + 1] /\ k # j
      <3>1. room'[k] = room[k]
        BY <2>4 DEF TypeOK
      <3> QED BY <1>0, <1>1, <2>1, <2>4, <3>1, RoomKept
    <2> QED BY <2>1, <2>2, <2>3, <2>4
  <1>4. ASSUME NEW r \in Requests, check_rate_limit(r) PROVE RoomFor(k)'
    BY <1>1, <1>4, CheckStoreBound
  <1>5. ASSUME NEW r \in Requests, record_rate_limit(r) PROVE RoomFor(k)'
    BY <1>1, <1>5, RecordStoreBound
  <1> QED BY <1>2, <1>3, <1>4, <1>5, NextIsOneOf
-----------------------------------------------------------------------------
\* The members of the deques and of the history.
LEMMA EntriesTyped ==
    ASSUME NEW q \in Seq(Entry), NEW i \in 1..Len(q)
    PROVE  q[i] \in Entry /\ q[i].timestamp \in Nat
PROOF
  <1>1. q[i] \in Entry
    BY ElementOfSeq
  <1> QED BY <1>1 DEF Entry

LEMMA AdmissionsTyped ==
    ASSUME NEW q \in Seq(Admission), NEW i \in 1..Len(q)
    PROVE  q[i] \in Admission /\ q[i].timestamp \in Nat /\ q[i].limit \in (Nat \ {0}) \cup {None}
PROOF
  <1>1. q[i] \in Admission
    BY ElementOfSeq
  <1> QED BY <1>1 DEF Admission

\* Time passes, and neither the deque nor the history of the key changes.
LEMMA EndStays ==
    ASSUME TypeOK, NEW k \in Keys, EndOf(k),
           store'[k] = store[k], recorded'[k] = recorded[k],
           now' \in Nat, now <= now'
    PROVE  EndOf(k)'
PROOF
  <1>1. recorded[k] \in Seq(Admission) /\ store[k] \in Seq(Entry) /\ now \in Nat
    BY DEF TypeOK
  <1>2. PICK dropped \in Nat :
           /\ Len(recorded[k]) = dropped + Len(store[k])
           /\ \A i \in 1..Len(store[k]) :
                 store[k][i].timestamp = recorded[k][dropped + i].timestamp
           /\ \A i \in 1..dropped : Stale(recorded[k][i], now)
    BY DEF EndOf
  <1>3. ASSUME NEW i \in 1..dropped PROVE Stale(recorded'[k][i], now')
    <2>1. Len(store[k]) \in Nat
      BY <1>1
    <2>2. i \in 1..Len(recorded[k])
      BY <1>2, <2>1
    <2>3. recorded[k][i].timestamp \in Nat
      BY <1>1, <2>2, AdmissionsTyped
    <2> QED BY <1>1, <1>2, <2>3, StaleIsStable
  <1> QED BY <1>2, <1>3 DEF EndOf

\* The key's deque loses stale entries at its front.
LEMMA EndAfterPrune ==
    ASSUME TypeOK, NEW k \in Keys, EndOf(k), NEW t \in Nat, t <= now,
           Prune(k, t), recorded' = recorded, now' = now
    PROVE  EndOf(k)'
PROOF
  <1>1. recorded[k] \in Seq(Admission) /\ store[k] \in Seq(Entry) /\ now \in Nat
    BY DEF TypeOK
  <1>2. PICK dropped \in Nat :
           /\ Len(recorded[k]) = dropped + Len(store[k])
           /\ \A i \in 1..Len(store[k]) :
                 store[k][i].timestamp = recorded[k][dropped + i].timestamp
           /\ \A i \in 1..dropped : Stale(recorded[k][i], now)
    BY DEF EndOf
  <1>3. PICK d \in 0..Len(store[k]) :
           /\ store'[k] \in Seq(Entry)
           /\ Len(store'[k]) = Len(store[k]) - d
           /\ \A i \in 1..Len(store'[k]) : store'[k][i] = store[k][d + i]
           /\ \A i \in 1..d : Stale(store[k][i], t)
    BY PruneKeepsEnd
  <1>4. /\ d \in Nat /\ dropped + d \in Nat /\ Len(store[k]) \in Nat
        /\ Len(store[k]) = Len(store'[k]) + d
        /\ Len(recorded[k]) = (dropped + d) + Len(store'[k])
    <2>1. Len(store[k]) \in Nat /\ Len(store'[k]) \in Nat
      BY <1>1, <1>3
    <2>2. d \in Nat /\ Len(store'[k]) = Len(store[k]) - d
      BY <1>3, <2>1
    <2>3. Len(recorded[k]) = dropped + Len(store[k])
      BY <1>2
    <2>4. Len(store[k]) = Len(store'[k]) + d
      BY <1>2, <2>1, <2>2
    <2>5. dropped + (Len(store'[k]) + d) = (dropped + d) + Len(store'[k])
      <3> DEFINE n == Len(store'[k])
      <3>1. n \in Nat
        BY <2>1
      <3> HIDE DEF n
      <3>2. dropped + (n + d) = (dropped + d) + n
        BY <2>2, <3>1
      <3> QED BY <3>2 DEF n
    <2>6. dropped + d \in Nat
      BY <1>2, <2>2
    <2> QED BY <2>1, <2>2, <2>3, <2>4, <2>5, <2>6, Zenon
  <1>5. ASSUME NEW i \in 1..Len(store'[k])
        PROVE  store'[k][i].timestamp = recorded[k][(dropped + d) + i].timestamp
    <2>1. d + i \in 1..Len(store[k]) /\ (dropped + d) + i = dropped + (d + i)
      BY <1>3, <1>4
    <2> QED BY <1>2, <1>3, <2>1
  <1>6. ASSUME NEW i \in 1..(dropped + d) PROVE Stale(recorded[k][i], now)
    <2>1. CASE i \in 1..dropped
      BY <1>2, <2>1
    <2>2. CASE i \notin 1..dropped
      <3>1. i - dropped \in 1..d /\ i - dropped \in 1..Len(store[k])
        BY <1>4, <2>2
      <3>2. i \in 1..Len(recorded[k]) /\ dropped + (i - dropped) = i
        BY <1>2, <1>4
      <3>3. store[k][i - dropped].timestamp = recorded[k][i].timestamp
        BY <1>2, <3>1, <3>2
      <3>4. Stale(store[k][i - dropped], t)
        BY <1>3, <3>1
      <3>5. recorded[k][i].timestamp \in Nat
        BY <1>1, <3>2, AdmissionsTyped
      <3>6. Stale(recorded[k][i], t)
        BY <3>3, <3>4 DEF Stale, AgeSecs
      <3> QED BY <1>1, <3>5, <3>6, StaleIsStable
    <2> QED BY <2>1, <2>2
  <1> QED BY <1>4, <1>5, <1>6 DEF EndOf

\* One more entry, with the same clock, in the deque and in the history.
LEMMA EndAfterRecord ==
    ASSUME TypeOK, NEW k \in Keys, EndOf(k), now' = now,
           NEW e \in Entry, NEW a \in Admission, a.timestamp = e.timestamp,
           store'[k] = Append(store[k], e), recorded'[k] = Append(recorded[k], a)
    PROVE  EndOf(k)'
PROOF
  <1>1. recorded[k] \in Seq(Admission) /\ store[k] \in Seq(Entry)
    BY DEF TypeOK
  <1>2. PICK dropped \in Nat :
           /\ Len(recorded[k]) = dropped + Len(store[k])
           /\ \A i \in 1..Len(store[k]) :
                 store[k][i].timestamp = recorded[k][dropped + i].timestamp
           /\ \A i \in 1..dropped : Stale(recorded[k][i], now)
    BY DEF EndOf
  <1>3. /\ Len(store[k]) \in Nat /\ Len(recorded[k]) \in Nat
        /\ Len(store'[k]) = Len(store[k]) + 1
        /\ Len(recorded'[k]) = Len(recorded[k]) + 1
        /\ Len(recorded'[k]) = dropped + Len(store'[k])
    <2>1. Len(store[k]) \in Nat /\ Len(recorded[k]) \in Nat
      BY <1>1
    <2>2. /\ Len(store'[k]) = Len(store[k]) + 1
          /\ Len(recorded'[k]) = Len(recorded[k]) + 1
      BY <1>1
    <2>3. Len(recorded[k]) = dropped + Len(store[k])
      BY <1>2
    <2> QED BY <2>1, <2>2, <2>3
  <1>4. /\ \A i \in 1..Len(recorded[k]) : recorded'[k][i] = recorded[k][i]
        /\ \A i \in 1..Len(store[k]) : store'[k][i] = store[k][i]
        /\ recorded'[k][Len(recorded[k]) + 1] = a
        /\ store'[k][Len(store[k]) + 1] = e
    BY <1>1
  <1>5. ASSUME NEW i \in 1..Len(store'[k])
        PROVE  store'[k][i].timestamp = recorded'[k][dropped + i].timestamp
    <2>1. CASE i = Len(store[k]) + 1
      <3>1. dropped + i = Len(recorded[k]) + 1
        BY <1>2, <1>3, <2>1
      <3> QED BY <1>4, <2>1, <3>1
    <2>2. CASE i # Len(store[k]) + 1
      <3>1. i \in 1..Len(store[k]) /\ dropped + i \in 1..Len(recorded[k])
        BY <1>2, <1>3, <2>2
      <3> QED BY <1>2, <1>4, <3>1
    <2> QED BY <2>1, <2>2
  <1>6. ASSUME NEW i \in 1..dropped PROVE Stale(recorded'[k][i], now)
    <2>1. i \in 1..Len(recorded[k])
      BY <1>2, <1>3
    <2> QED BY <1>2, <1>4, <2>1
  <1> QED BY <1>3, <1>5, <1>6 DEF EndOf
-----------------------------------------------------------------------------
LEMMA NextReadingsArePast ==
    TypeOK /\ ReadingsArePast /\ [Next]_vars => ReadingsArePast'
PROOF
  <1> SUFFICES ASSUME TypeOK, ReadingsArePast, [Next]_vars, NEW s \in Requests
               PROVE  seen'[s] <= now'
    BY DEF ReadingsArePast
  <1>1. seen[s] \in Nat /\ now \in Nat /\ seen[s] <= now
    BY DEF TypeOK, ReadingsArePast
  <1>2. CASE Tick \/ Refresh
    BY <1>1, <1>2 DEF Tick, Refresh, inside
  <1>3. ASSUME NEW r \in Requests, ReadClock(r) \/ \E k \in Keys : Enter(r, k)
        PROVE  seen'[s] <= now'
    <2>1. seen' = [seen EXCEPT ![r] = now] /\ now' = now
      BY <1>3 DEF Enter, ReadClock
    <2> QED BY <1>1, <2>1 DEF TypeOK
  <1>4. ASSUME NEW r \in Requests, Leave(r), now' = now PROVE seen'[s] <= now'
    BY <1>1, <1>4 DEF Leave, TypeOK
  <1>5. ASSUME NEW r \in Requests, check_rate_limit(r) PROVE seen'[s] <= now'
    BY <1>1, <1>4, <1>5 DEF check_rate_limit
  <1>6. ASSUME NEW r \in Requests, record_rate_limit(r) PROVE seen'[s] <= now'
    BY <1>4, <1>6 DEF record_rate_limit
  <1>7. CASE UNCHANGED vars
    BY <1>1, <1>7 DEF vars, inside
  <1> QED BY <1>2, <1>3, <1>5, <1>6, <1>7 DEF Next

LEMMA NextStoreIsEnd == IInv /\ TypeOK' /\ [Next]_vars => StoreIsEndOfRecorded'
PROOF
  <1> SUFFICES ASSUME IInv, TypeOK', [Next]_vars, NEW k \in Keys PROVE EndOf(k)'
    BY DEF StoreIsEndOfRecorded
  <1>1. TypeOK /\ EndOf(k) /\ now \in Nat /\ now' \in Nat
    BY DEF IInv, StoreIsEndOfRecorded, TypeOK
  <1>2. ASSUME store'[k] = store[k], recorded'[k] = recorded[k], now <= now'
        PROVE  EndOf(k)'
    BY <1>1, <1>2, EndStays
  <1>3. CASE Outside
    <2>1. store' = store /\ recorded' = recorded /\ now <= now'
      BY <1>1, <1>3, OutsideAdmitsNobody
    <2> QED BY <1>2, <2>1
  <1>4. ASSUME NEW r \in Requests, NEW j \in Keys, Enter(r, j) PROVE EndOf(k)'
    BY <1>1, <1>2, <1>4 DEF Enter
  <1>5. ASSUME NEW r \in Requests, check_rate_limit(r) PROVE EndOf(k)'
    <2>1. /\ key[r] \in Keys /\ seen[r] \in Nat /\ seen[r] <= now
          /\ Prune(key[r], seen[r]) /\ recorded' = recorded /\ now' = now
      BY <1>5 DEF check_rate_limit, IInv, TypeOK, ReadingsArePast, Busy
    <2>2. CASE key[r] = k
      BY <1>1, <2>1, <2>2, EndAfterPrune
    <2>3. CASE key[r] # k
      <3>1. store'[k] = store[k]
        BY <1>1, <1>5, <2>3, CheckShortens
      <3> QED BY <1>1, <1>2, <2>1, <3>1
    <2> QED BY <2>2, <2>3
  <1>6. ASSUME NEW r \in Requests, record_rate_limit(r) PROVE EndOf(k)'
    <2> DEFINE e == [timestamp |-> now, tokens |-> 0]
               a == [timestamp |-> now, limit |-> RequestLimit(config[r])]
    <2>1. /\ key[r] \in Keys /\ e \in Entry /\ a \in Admission /\ a.timestamp = e.timestamp
          /\ store' = [store EXCEPT ![key[r]] = Append(@, e)]
          /\ recorded' = [recorded EXCEPT ![key[r]] = Append(@, a)]
      BY <1>1, <1>6, RecordAppends
    <2>2. now' = now
      BY <1>6 DEF record_rate_limit
    <2> HIDE DEF e, a
    <2>3. CASE key[r] = k
      <3>1. store'[k] = Append(store[k], e) /\ recorded'[k] = Append(recorded[k], a)
        BY <1>1, <2>1, <2>3 DEF TypeOK
      <3> QED BY <1>1, <2>1, <2>2, <3>1, EndAfterRecord
    <2>4. CASE key[r] # k
      <3>1. store'[k] = store[k] /\ recorded'[k] = recorded[k]
        BY <1>1, <2>1, <2>4 DEF TypeOK
      <3> QED BY <1>1, <1>2, <2>2, <3>1
    <2> QED BY <2>3, <2>4
  <1> QED BY <1>3, <1>4, <1>5, <1>6, NextIsOneOf

LEMMA NextTokensAreZero == TypeOK /\ TokensAreZero /\ [Next]_vars => TokensAreZero'
PROOF
  <1> SUFFICES ASSUME TypeOK, TokensAreZero, [Next]_vars,
                      NEW k \in Keys, NEW i \in 1..Len(store'[k])
               PROVE  store'[k][i].tokens = 0
    BY DEF TokensAreZero
  <1>0. store[k] \in Seq(Entry) /\ Len(store[k]) \in Nat
    BY DEF TypeOK
  <1>1. store'[k] = store[k] => store'[k][i].tokens = 0
    BY DEF TokensAreZero
  <1>2. ASSUME NEW r \in Requests, check_rate_limit(r) PROVE store'[k][i].tokens = 0
    <2>1. key[r] \in Keys /\ seen[r] \in Nat /\ Prune(key[r], seen[r])
      BY <1>2 DEF check_rate_limit, TypeOK, Busy
    <2>2. CASE key[r] = k
      <3>1. PICK d \in 0..Len(store[k]) :
               /\ store'[k] \in Seq(Entry)
               /\ Len(store'[k]) = Len(store[k]) - d
               /\ \A j \in 1..Len(store'[k]) : store'[k][j] = store[k][d + j]
        BY <2>1, <2>2, PruneKeepsEnd
      <3>2. d + i \in 1..Len(store[k])
        BY <1>0, <3>1
      <3> QED BY <3>1, <3>2 DEF TokensAreZero
    <2>3. CASE key[r] # k
      BY <1>1, <1>2, <2>3, CheckShortens
    <2> QED BY <2>2, <2>3
  <1>3. ASSUME NEW r \in Requests, record_rate_limit(r) PROVE store'[k][i].tokens = 0
    <2> DEFINE e == [timestamp |-> now, tokens |-> 0]
    <2>1. e \in Entry /\ store' = [store EXCEPT ![key[r]] = Append(@, e)]
      BY <1>3, RecordAppends
    <2>2. CASE key[r] = k
      <3>1. store'[k] = Append(store[k], e)
        BY <2>1, <2>2 DEF TypeOK
      <3>2. e.tokens = 0
        OBVIOUS
      <3> HIDE DEF e
      <3>3. i = Len(store[k]) + 1 \/ (i \in 1..Len(store[k]) /\ store'[k][i] = store[k][i])
        BY <1>0, <2>1, <3>1
      <3>4. i = Len(store[k]) + 1 => store'[k][i] = e
        BY <1>0, <2>1, <3>1
      <3> QED BY <3>2, <3>3, <3>4 DEF TokensAreZero
    <2>3. CASE key[r] # k
      BY <1>1, <2>1, <2>3 DEF TypeOK
    <2> QED BY <2>2, <2>3
  <1>4. CASE Outside \/ \E r \in Requests, j \in Keys : Enter(r, j)
    BY <1>1, <1>4, OutsideAdmitsNobody, EnterAdmits
  <1> QED BY <1>2, <1>3, <1>4, NextIsOneOf

LEMMA NextRecordedInOrder ==
    TypeOK /\ TypeOK' /\ RecordedInOrder /\ [Next]_vars => RecordedInOrder'
PROOF
  <1> SUFFICES ASSUME TypeOK, TypeOK', RecordedInOrder, [Next]_vars,
                      NEW k \in Keys, NEW i \in 1..Len(recorded'[k])
               PROVE  /\ recorded'[k][i].timestamp <= now'
                      /\ \A j \in i..Len(recorded'[k]) :
                            recorded'[k][i].timestamp <= recorded'[k][j].timestamp
    BY DEF RecordedInOrder
  <1>0. /\ recorded[k] \in Seq(Admission) /\ Len(recorded[k]) \in Nat
        /\ now \in Nat /\ now' \in Nat
    BY DEF TypeOK
  <1>1. CASE recorded'[k] = recorded[k] /\ now <= now'
    <2>1. recorded[k][i].timestamp \in Nat /\ recorded[k][i].timestamp <= now
      BY <1>0, <1>1, AdmissionsTyped DEF RecordedInOrder
    <2> QED BY <1>0, <1>1, <2>1 DEF RecordedInOrder
  <1>2. ASSUME NEW r \in Requests, record_rate_limit(r), key[r] = k
        PROVE  /\ recorded'[k][i].timestamp <= now'
               /\ \A j \in i..Len(recorded'[k]) :
                     recorded'[k][i].timestamp <= recorded'[k][j].timestamp
    <2> DEFINE n == Len(recorded[k])
    <2> DEFINE a == [timestamp |-> now, limit |-> RequestLimit(config[r])]
    <2>1. a \in Admission /\ recorded' = [recorded EXCEPT ![k] = Append(@, a)] /\ now' = now
      BY <1>2, RecordAppends DEF record_rate_limit
    <2>2. recorded'[k] = Append(recorded[k], a)
      BY <2>1 DEF TypeOK
    <2>3. a.timestamp = now
      OBVIOUS
    <2> HIDE DEF a
    <2>4. /\ Len(recorded'[k]) = n + 1
          /\ recorded'[k][n + 1] = a
          /\ \A l \in 1..n : recorded'[k][l] = recorded[k][l]
      BY <1>0, <2>1, <2>2
    <2>5. \A l \in 1..n + 1 : recorded'[k][l].timestamp <= now
      <3> TAKE l \in 1..n + 1
      <3>1. l = n + 1 \/ l \in 1..n
        BY <1>0
      <3> QED BY <1>0, <2>3, <2>4, <3>1 DEF RecordedInOrder
    <2>6. ASSUME NEW j \in i..n + 1
          PROVE  recorded'[k][i].timestamp <= recorded'[k][j].timestamp
      <3>1. CASE j = n + 1
        BY <2>3, <2>4, <2>5, <3>1
      <3>2. CASE j # n + 1
        <4>1. i \in 1..n /\ j \in i..n /\ j \in 1..n
          BY <1>0, <3>2
        <4> QED BY <2>4, <4>1 DEF RecordedInOrder
      <3> QED BY <3>1, <3>2
    <2> QED BY <2>1, <2>4, <2>5, <2>6
  <1>3. ASSUME NEW r \in Requests, record_rate_limit(r), key[r] # k
        PROVE  recorded'[k] = recorded[k] /\ now' = now
    <2>1. /\ recorded' = [recorded EXCEPT ![key[r]] =
                 Append(@, [timestamp |-> now, limit |-> RequestLimit(config[r])])]
          /\ now' = now
      BY <1>3, RecordAppends DEF record_rate_limit
    <2> QED BY <1>3, <2>1 DEF TypeOK
  <1>4. CASE \/ Outside
             \/ \E r \in Requests, j \in Keys : Enter(r, j)
             \/ \E r \in Requests : check_rate_limit(r)
    <2>1. recorded' = recorded /\ now <= now'
      BY <1>0, <1>4, OutsideAdmitsNobody, EnterAdmits DEF check_rate_limit
    <2> QED BY <1>1, <2>1
  <1> QED BY <1>0, <1>1, <1>2, <1>3, <1>4, NextIsOneOf

-----------------------------------------------------------------------------
\* The same admissions and the same limits of the same requests.
LEMMA FitsKept ==
    ASSUME NEW k \in Keys, NEW n \in Nat, NEW P \in SUBSET Requests,
           Fits(k, n, P), recorded'[k] = recorded[k],
           \A r \in P : config'[r] = config[r]
    PROVE  /\ None \notin Against(k, n, P)' /\ Against(k, n, P)' # {} =>
                \E limit \in Against(k, n, P)' : n + Cardinality(P) <= limit + Workers - 1
PROOF
  <1>1. Latest(k, n)' = Latest(k, n)
    BY DEF Latest
  <1>2. Against(k, n, P)' = Against(k, n, P)
    BY <1>1 DEF Against
  <1> QED BY <1>2 DEF Fits

LEMMA EnterStretchesFit ==
    ASSUME TypeOK, StretchesFit, NEW r \in Requests, NEW j \in Keys, Enter(r, j),
           NEW k \in Keys, NEW n \in 0..Len(store'[k]), NEW P \in SUBSET Pending(k)'
    PROVE  Fits(k, n, P)'
PROOF
  <1>1. /\ store' = store /\ recorded' = recorded
        /\ config' = [config EXCEPT ![r] = limits[j]]
        /\ r \notin Pending(k)
        /\ Unchecked(limits[j]) \/ Pending(k)' = Pending(k)
        /\ Pending(k)' \subseteq Pending(k) \cup {r}
    BY EnterAdmits
  <1>2. n \in Nat /\ n \in 0..Len(store[k]) /\ P \in SUBSET Requests
    BY <1>1 DEF TypeOK, Pending
  <1>3. CASE r \in P
    <2>1. Unchecked(limits[j])
      BY <1>1, <1>3
    <2>2. limits[j] \in RateLimitConfig \cup {None}
      BY LimitsTyped
    <2>3. config'[r] = limits[j] /\ RequestLimit(limits[j]) = None
      BY <1>1, <2>1, <2>2, RequestLimitTyped DEF TypeOK
    <2>4. None \in Against(k, n, P)'
      BY <1>3, <2>3 DEF Against
    <2> QED BY <2>4 DEF Fits
  <1>4. CASE r \notin P
    <2>1. P \in SUBSET Pending(k) /\ \A s \in P : config'[s] = config[s]
      BY <1>1, <1>2, <1>4 DEF TypeOK
    <2>2. Fits(k, n, P)
      BY <1>2, <2>1 DEF StretchesFit
    <2> QED BY <1>1, <1>2, <2>1, <2>2, FitsKept DEF Fits
  <1> QED BY <1>3, <1>4

LEMMA CheckStretchesFit ==
    ASSUME TypeOK, TypeOK', StretchesFit, NEW r \in Requests, check_rate_limit(r),
           NEW k \in Keys, NEW n \in 0..Len(store'[k]), NEW P \in SUBSET Pending(k)'
    PROVE  Fits(k, n, P)'
PROOF
  <1>1. /\ recorded' = recorded
        /\ Len(store'[k]) \in Nat /\ Len(store[k]) \in Nat
        /\ Len(store'[k]) <= Len(store[k])
    BY CheckShortens DEF check_rate_limit, TypeOK
  <1>2. n \in Nat /\ n \in 0..Len(store[k]) /\ P \in SUBSET Requests
    BY <1>1 DEF Pending
  <1>3. ASSUME P \in SUBSET Pending(k), \A s \in P : config'[s] = config[s]
        PROVE  Fits(k, n, P)'
    <2>1. Fits(k, n, P)
      BY <1>2, <1>3 DEF StretchesFit
    <2> QED BY <1>1, <1>2, <1>3, <2>1, FitsKept DEF Fits
  <1>4. CASE Leave(r)
    <2>1. Pending(k)' = Pending(k) \ {r}
      BY <1>4, LeavingIsNotPending
    <2>2. config' = [config EXCEPT ![r] = None]
      BY <1>4 DEF Leave
    <2>3. \A s \in P : config'[s] = config[s]
      BY <1>2, <2>1, <2>2 DEF TypeOK
    <2> QED BY <1>3, <2>1, <2>3
  <1>5. CASE ~Leave(r)
    <2>1. /\ config' = config
          /\ RequestLimit(config[r]) \in (Nat \ {0}) \cup {None}
          /\ RequestLimit(config[r]) # None => Len(store'[key[r]]) < RequestLimit(config[r])
          /\ Pending(k)' = IF key[r] = k THEN Pending(k) \cup {r} ELSE Pending(k)
      BY <1>5, CheckAdmits
    <2>2. CASE r \notin P
      BY <1>3, <2>1, <2>2
    <2>3. CASE r \in P /\ key[r] # k
      BY <1>3, <2>1, <2>3
    <2>4. CASE r \in P /\ key[r] = k
      <3> DEFINE limit == RequestLimit(config[r])
      <3>1. limit \in Against(k, n, P)'
        BY <2>1, <2>4 DEF Against
      <3>2. limit \in Nat \ {0} => n < limit
        BY <1>1, <2>1, <2>4, RateLimiterAssumption
      <3>3. CASE limit = None
        BY <3>1, <3>3 DEF Fits
      <3>4. CASE limit \in Nat \ {0}
        <4>1. Cardinality(P) \in Nat /\ Cardinality(P) <= Workers
          <5>1. P \subseteq Busy'
            BY DEF Pending, Busy
          <5>2. IsFiniteSet(Busy')
            BY FS_Subset, RateLimiterAssumption DEF Busy
          <5>3. Cardinality(Busy') <= Workers /\ Cardinality(Busy') \in Nat
            BY <5>2, FS_CardinalityType DEF TypeOK
          <5>4. Cardinality(P) \in Nat /\ Cardinality(P) <= Cardinality(Busy')
            BY <5>1, <5>2, FS_Subset, FS_CardinalityType
          <5> QED BY <5>3, <5>4, RateLimiterAssumption
        <4> HIDE DEF limit
        <4>2. n + Cardinality(P) <= limit + Workers - 1
          BY <1>2, <3>2, <3>4, <4>1, RateLimiterAssumption
        <4> QED BY <3>1, <4>2 DEF Fits
      <3> QED BY <2>1, <3>3, <3>4
    <2> QED BY <2>2, <2>3, <2>4
  <1> QED BY <1>4, <1>5

\* The recorded request's limit moves from those waiting to the history.
LEMMA AgainstAfterRecord ==
    ASSUME TypeOK, NEW k \in Keys, NEW n \in Nat \ {0}, NEW a \in Admission,
           recorded'[k] = Append(recorded[k], a), n - 1 <= Len(recorded[k]),
           NEW r \in Requests, a.limit = RequestLimit(config[r]),
           NEW P \in SUBSET Requests, \A s \in P : config'[s] = config[s]
    PROVE  Against(k, n, P)' = Against(k, n - 1, P \cup {r})
PROOF
  <1> DEFINE m == Len(recorded[k])
  <1>1. recorded[k] \in Seq(Admission) /\ m \in Nat
    BY DEF TypeOK
  <1>2. /\ Len(recorded'[k]) = m + 1
        /\ recorded'[k][m + 1] = a
        /\ \A i \in 1..m : recorded'[k][i] = recorded[k][i]
    BY <1>1
  <1>3. Latest(k, n)' = Latest(k, n - 1) \cup {m + 1}
    <2>1. Latest(k, n)' = (m + 1 - n + 1)..(m + 1)
      BY <1>2 DEF Latest
    <2>2. Latest(k, n - 1) = (m - (n - 1) + 1)..m
      BY DEF Latest
    <2> HIDE DEF m
    <2> QED BY <1>1, <2>1, <2>2
  <1>4. Latest(k, n - 1) \subseteq 1..m
    <2> HIDE DEF m
    <2>1. Latest(k, n - 1) = (m - (n - 1) + 1)..m /\ n - 1 <= m
      BY DEF Latest, m
    <2> QED BY <1>1, <2>1
  <1> DEFINE admittedAfter == {recorded'[k][i].limit : i \in Latest(k, n)'}
             admitted == {recorded[k][i].limit : i \in Latest(k, n - 1)}
             waitingAfter == {RequestLimit(config'[s]) : s \in P}
             waiting == {RequestLimit(config[s]) : s \in P \cup {r}}
             others == {RequestLimit(config[s]) : s \in P}
  <1>5. admittedAfter = admitted \cup {a.limit}
    <2> HIDE DEF m
    <2> QED BY <1>2, <1>3, <1>4
  <1>6. waitingAfter = others /\ waiting = others \cup {a.limit}
    OBVIOUS
  <1>7. /\ Against(k, n, P)' = admittedAfter \cup waitingAfter
        /\ Against(k, n - 1, P \cup {r}) = admitted \cup waiting
    BY DEF Against, RequestLimit
  <1> HIDE DEF admittedAfter, admitted, waitingAfter, waiting, others
  <1> QED BY <1>5, <1>6, <1>7

LEMMA RecordStretchesFit ==
    ASSUME TypeOK, TypeOK', StretchesFit, NEW r \in Requests, record_rate_limit(r),
           NEW k \in Keys, EndOf(k), NEW n \in 0..Len(store'[k]), NEW P \in SUBSET Pending(k)'
    PROVE  Fits(k, n, P)'
PROOF
  <1> DEFINE e == [timestamp |-> now, tokens |-> 0]
             a == [timestamp |-> now, limit |-> RequestLimit(config[r])]
  <1>1. /\ key[r] \in Keys /\ r \in Pending(key[r])
        /\ e \in Entry /\ a \in Admission /\ a.limit = RequestLimit(config[r])
        /\ store' = [store EXCEPT ![key[r]] = Append(@, e)]
        /\ recorded' = [recorded EXCEPT ![key[r]] = Append(@, a)]
    BY RecordAppends
  <1>2. Pending(k)' = Pending(k) \ {r}
    BY LeavingIsNotPending DEF record_rate_limit
  <1>3. P \in SUBSET Pending(k) /\ r \notin P /\ P \in SUBSET Requests
    BY <1>2 DEF Pending
  <1>4. \A s \in P : config'[s] = config[s]
    <2>1. config' = [config EXCEPT ![r] = None]
      BY DEF record_rate_limit, Leave
    <2> QED BY <1>3, <2>1 DEF TypeOK
  <1>5. /\ store[k] \in Seq(Entry) /\ Len(store[k]) \in Nat
        /\ Len(store'[k]) \in Nat /\ n \in Nat
    BY DEF TypeOK
  <1> HIDE DEF e, a
  <1>6. CASE key[r] # k
    <2>1. store'[k] = store[k] /\ recorded'[k] = recorded[k]
      BY <1>1, <1>6 DEF TypeOK
    <2>2. Fits(k, n, P)
      BY <1>3, <2>1 DEF StretchesFit
    <2> QED BY <1>3, <1>4, <1>5, <2>1, <2>2, FitsKept DEF Fits
  <1>7. CASE key[r] = k /\ n # 0
    <2>1. store'[k] = Append(store[k], e) /\ recorded'[k] = Append(recorded[k], a)
      BY <1>1, <1>7 DEF TypeOK
    <2>2. Len(store'[k]) = Len(store[k]) + 1
      BY <1>1, <1>5, <2>1
    <2>3. n - 1 \in 0..Len(store[k]) /\ n \in Nat \ {0} /\ n - 1 \in Nat
      BY <1>5, <1>7, <2>2
    <2>4. n - 1 <= Len(recorded[k])
      BY <1>5, <2>3 DEF EndOf
    <2>5. Against(k, n, P)' = Against(k, n - 1, P \cup {r})
      <3>1. a \in Admission /\ P \in SUBSET Requests
        BY <1>1, <1>3
      <3>2. PICK b \in Admission : b = a
        BY <3>1
      <3>3. PICK m \in Nat \ {0} : m = n
        BY <2>3
      <3>4. /\ recorded'[k] = Append(recorded[k], b) /\ b.limit = RequestLimit(config[r])
            /\ m - 1 <= Len(recorded[k])
        BY <1>1, <2>1, <2>4, <3>2, <3>3
      <3>5. Against(k, m, P)' = Against(k, m - 1, P \cup {r})
        BY <1>4, <3>1, <3>4, AgainstAfterRecord
      <3> QED BY <3>3, <3>5
    <2>6. P \cup {r} \in SUBSET Pending(k)
      BY <1>1, <1>3, <1>7
    <2>7. Fits(k, n - 1, P \cup {r})
      BY <2>3, <2>6 DEF StretchesFit
    <2>8. Cardinality(P \cup {r}) = Cardinality(P) + 1 /\ Cardinality(P) \in Nat
      BY <1>3, PendingWithinWorkers, FS_AddElement
    <2>9. (n - 1) + Cardinality(P \cup {r}) = n + Cardinality(P)
      BY <1>5, <2>8
    <2> QED BY <2>5, <2>7, <2>9 DEF Fits
  <1>8. CASE n = 0
    <2>1. \A Q \in SUBSET Pending(k)' : Fits(k, 0, Q)'
      <3> TAKE Q \in SUBSET Pending(k)'
      <3>1. CASE Q = {}
        <4>1. Latest(k, 0)' = {}
          BY DEF Latest, TypeOK
        <4> QED BY <3>1, <4>1 DEF Fits, Against
      <3>2. CASE Q # {}
        <4>1. PICK s \in Q : TRUE
          BY <3>2
        <4> DEFINE limit == RequestLimit(config'[s])
        <4>2. limit \in (Nat \ {0}) \cup {None}
          <5>1. config'[s] \in RateLimitConfig \cup {None}
            BY <4>1 DEF Pending, TypeOK
          <5> QED BY <5>1, RequestLimitTyped
        <4>3. limit \in Against(k, 0, Q)'
          BY <4>1 DEF Against
        <4>4. CASE limit = None
          BY <4>3, <4>4 DEF Fits
        <4>5. CASE limit \in Nat \ {0}
          <5>1. Cardinality(Q) \in Nat /\ Cardinality(Q) <= Workers
            BY <1>2, PendingWithinWorkers
          <5> HIDE DEF limit
          <5>2. 0 + Cardinality(Q) <= limit + Workers - 1
            BY <4>5, <5>1, RateLimiterAssumption
          <5> QED BY <4>3, <5>2 DEF Fits
        <4> QED BY <4>2, <4>4, <4>5
      <3> QED BY <3>1, <3>2
    <2> QED BY <1>8, <2>1
  <1> QED BY <1>6, <1>7, <1>8

LEMMA NextStretchesFit == IInv /\ TypeOK' /\ [Next]_vars => StretchesFit'
PROOF
  <1> SUFFICES ASSUME IInv, TypeOK', [Next]_vars, NEW k \in Keys,
                      NEW n \in 0..Len(store'[k]), NEW P \in SUBSET Pending(k)'
               PROVE  Fits(k, n, P)'
    BY DEF StretchesFit
  <1>1. TypeOK /\ StretchesFit /\ EndOf(k)
    BY DEF IInv, StoreIsEndOfRecorded
  <1>2. CASE Outside
    <2>1. /\ store' = store /\ recorded' = recorded /\ config' = config
          /\ Pending(k)' = Pending(k)
      BY <1>1, <1>2, OutsideAdmitsNobody
    <2>2. Fits(k, n, P) /\ n \in Nat /\ P \in SUBSET Requests
      BY <1>1, <2>1 DEF StretchesFit, Pending, TypeOK
    <2> QED BY <2>1, <2>2, FitsKept DEF Fits
  <1>3. ASSUME NEW r \in Requests, NEW j \in Keys, Enter(r, j) PROVE Fits(k, n, P)'
    BY <1>1, <1>3, EnterStretchesFit
  <1>4. ASSUME NEW r \in Requests, check_rate_limit(r) PROVE Fits(k, n, P)'
    BY <1>1, <1>4, CheckStretchesFit
  <1>5. ASSUME NEW r \in Requests, record_rate_limit(r) PROVE Fits(k, n, P)'
    BY <1>1, <1>5, RecordStretchesFit
  <1> QED BY <1>2, <1>3, <1>4, <1>5, NextIsOneOf
-----------------------------------------------------------------------------
LEMMA InitIInv == Init => IInv
PROOF
  <1> SUFFICES ASSUME Init PROVE IInv
    OBVIOUS
  <1>1. TypeOK
    BY InitTypeOK
  <1>2. ReadingsArePast
    BY DEF Init, ReadingsArePast
  <1>3. StoreBound
    <2> SUFFICES ASSUME NEW k \in Keys PROVE Len(store[k]) + Cardinality(Pending(k)) <= room[k]
      BY DEF StoreBound
    <2>1. Pending(k) = {} /\ Len(store[k]) = 0 /\ room[k] = 0
      BY DEF Init, Pending
    <2> QED BY <2>1, FS_EmptySet
  <1>4. StoreIsEndOfRecorded
    <2> SUFFICES ASSUME NEW k \in Keys PROVE EndOf(k)
      BY DEF StoreIsEndOfRecorded
    <2>1. Len(store[k]) = 0 /\ Len(recorded[k]) = 0
      BY DEF Init
    <2> QED BY <2>1 DEF EndOf
  <1>5. TokensAreZero /\ RecordedInOrder
    <2>1. \A k \in Keys : Len(store[k]) = 0 /\ Len(recorded[k]) = 0
      BY DEF Init
    <2> QED BY <2>1 DEF TokensAreZero, RecordedInOrder
  <1>6. StretchesFit
    <2> SUFFICES ASSUME NEW k \in Keys, NEW n \in 0..Len(store[k]), NEW P \in SUBSET Pending(k)
                 PROVE  Fits(k, n, P)
      BY DEF StretchesFit
    <2>1. P = {} /\ Len(store[k]) = 0 /\ Len(recorded[k]) = 0
      BY DEF Init, Pending
    <2>2. n = 0 /\ Latest(k, n) = {}
      BY <2>1 DEF Latest
    <2> QED BY <2>1, <2>2 DEF Fits, Against
  <1> QED BY <1>1, <1>2, <1>3, <1>4, <1>5, <1>6 DEF IInv

\* The inductive invariant behind the theorems below.
THEOREM IInvHolds == Spec => []IInv
PROOF
  <1>1. IInv /\ [Next]_vars => IInv'
    BY NextTypeOK, NextReadingsArePast, NextStoreBound, NextStoreIsEnd, NextTokensAreZero,
       NextRecordedInOrder, NextStretchesFit DEF IInv
  <1> QED BY InitIInv, <1>1, PTL DEF Spec

\* However the limits change, the deque of a key and the requests about to
\* append to it never exceed the limit the last limited request was admitted
\* against, one request per further worker, and those let through since.
THEOREM StoreStaysShort == Spec => []StoreBound
PROOF
  <1>1. IInv => StoreBound
    BY DEF IInv
  <1> QED BY IInvHolds, <1>1, PTL

\* Admissions of the window are still in the deque, whose ends fit.
LEMMA IInvBoundsWindow == IInv => WindowBound
PROOF
  <1> SUFFICES ASSUME IInv, NEW k \in Keys, NEW n \in 1..Len(recorded[k]),
                      now - recorded[k][Len(recorded[k]) - n + 1].timestamp
                          <= WindowSecs * SecTicks,
                      \A i \in Latest(k, n) : recorded[k][i].limit # None
               PROVE  \E i \in Latest(k, n) : n <= recorded[k][i].limit + Workers - 1
    BY DEF WindowBound, WithinLimits
  <1> DEFINE m == Len(recorded[k])
             oldest == m - n + 1
  <1>1. /\ store[k] \in Seq(Entry) /\ recorded[k] \in Seq(Admission) /\ now \in Nat
        /\ Len(store[k]) \in Nat /\ m \in Nat
    BY DEF IInv, TypeOK
  <1>2. PICK dropped \in Nat :
           /\ m = dropped + Len(store[k])
           /\ \A i \in 1..dropped : Stale(recorded[k][i], now)
    BY DEF IInv, StoreIsEndOfRecorded, EndOf
  <1>3. oldest \in 1..m /\ Latest(k, n) = oldest..m /\ n \in Nat
    BY <1>1 DEF Latest
  <1>4. oldest \notin 1..dropped
    <2> SUFFICES ASSUME oldest \in 1..dropped PROVE FALSE
      OBVIOUS
    <2>1. recorded[k][oldest].timestamp \in Nat
      BY <1>1, <1>3, AdmissionsTyped
    <2>2. now - recorded[k][oldest].timestamp >= (WindowSecs + 1) * SecTicks
      BY <1>1, <1>2, <2>1, StaleMeans
    <2>3. now - recorded[k][oldest].timestamp <= WindowSecs * SecTicks
      OBVIOUS
    <2>4. /\ WindowSecs * SecTicks \in Nat
          /\ (WindowSecs + 1) * SecTicks = WindowSecs * SecTicks + SecTicks
          /\ SecTicks \in Nat \ {0}
      BY RateLimiterAssumption
    <2> HIDE DEF oldest
    <2> QED BY <1>1, <2>1, <2>2, <2>3, <2>4
  <1>5. n \in 0..Len(store[k])
    BY <1>1, <1>2, <1>3, <1>4
  <1>6. Fits(k, n, {})
    BY <1>5 DEF IInv, StretchesFit
  <1>7. Against(k, n, {}) = {recorded[k][i].limit : i \in Latest(k, n)}
    BY DEF Against
  <1>8. Against(k, n, {}) # {} /\ None \notin Against(k, n, {})
    <2>1. oldest \in Latest(k, n)
      BY <1>1, <1>3
    <2> HIDE DEF oldest
    <2> QED BY <1>7, <2>1
  <1>9. PICK limit \in Against(k, n, {}) : n + Cardinality({}) <= limit + Workers - 1
    BY <1>6, <1>8 DEF Fits
  <1>10. PICK i \in Latest(k, n) : limit = recorded[k][i].limit
    BY <1>7, <1>9
  <1> QED BY <1>3, <1>9, <1>10, FS_EmptySet

\* In any window of WindowSecs seconds a key is admitted at most the highest
\* limit its admissions there were checked against, plus one for every worker
\* thread but the first, whatever refreshes of the limits fall into it.
THEOREM WindowIsBounded == Spec => []WindowBound
PROOF
  <1> QED BY IInvHolds, IInvBoundsWindow, PTL
-----------------------------------------------------------------------------
\* A check that rejects found as many admissions as the limit says, none of
\* them stale.
LEMMA RejectionIsDeserved ==
    ASSUME IInv, NEW r \in Requests, check_rate_limit(r), Leave(r),
           OverRequests(store'[key[r]], config[r]) \/ OverTokens(store'[key[r]], config[r]),
           NEW recent,
           recent = {i \in DOMAIN recorded[key[r]] :
                        seen[r] - recorded[key[r]][i].timestamp < (WindowSecs + 1) * SecTicks}
    PROVE  /\ RequestLimit(config[r]) # None
           /\ Cardinality(recent) >= RequestLimit(config[r])
PROOF
  <1> DEFINE k == key[r]
             t == seen[r]
  <1>0. /\ config[r] \in RateLimitConfig /\ config[r] # None
        /\ RequestLimit(config[r]) \in (Nat \ {0}) \cup {None}
    <2>1. config[r] \in RateLimitConfig /\ config[r] # None
      BY RateLimiterAssumption DEF check_rate_limit, IInv, TypeOK, Busy
    <2> QED BY <2>1, RequestLimitTyped
  <1>1. k \in Keys /\ t \in Nat /\ t <= now
    BY DEF check_rate_limit, IInv, TypeOK, Busy, ReadingsArePast
  <1>2. /\ store[k] \in Seq(Entry) /\ recorded[k] \in Seq(Admission)
        /\ Len(store[k]) \in Nat /\ Len(recorded[k]) \in Nat
    BY <1>1 DEF IInv, TypeOK
  <1>3. PICK d \in 0..Len(store[k]) :
           /\ store'[k] \in Seq(Entry)
           /\ Len(store'[k]) = Len(store[k]) - d
           /\ \A i \in 1..Len(store'[k]) : store'[k][i] = store[k][d + i]
           /\ d < Len(store[k]) => ~Stale(store[k][d + 1], t)
    BY <1>1, PruneKeepsEnd DEF check_rate_limit, IInv
  <1> DEFINE n == Len(store'[k])
  <1>4. n \in Nat /\ n = Len(store[k]) - d /\ d \in Nat
    BY <1>2, <1>3
  <1>5. ~OverTokens(store'[k], config[r])
    <2>0. \A i \in 1..Len(store[k]) : store[k][i].tokens = 0
      BY <1>1 DEF IInv, TokensAreZero
    <2>1. ASSUME NEW i \in 1..n PROVE store'[k][i].tokens = 0
      <3>1. d + i \in 1..Len(store[k])
        BY <1>2, <1>4
      <3> QED BY <1>3, <2>0, <3>1
    <2>2. TotalTokens(store'[k]) = 0
      BY <1>3, <2>1, NoTokensAddUpToNone
    <2>3. config[r].tokens_per_minute \in (Nat \ {0}) \cup {None}
      BY <1>0 DEF RateLimitConfig
    <2> QED BY <2>2, <2>3 DEF OverTokens
  <1>6. /\ RequestLimit(config[r]) # None
        /\ n >= RequestLimit(config[r])
    BY <1>0, <1>5 DEF OverRequests, RequestLimit
  <1>7. PICK dropped \in Nat :
           /\ Len(recorded[k]) = dropped + Len(store[k])
           /\ \A i \in 1..Len(store[k]) :
                 store[k][i].timestamp = recorded[k][dropped + i].timestamp
    BY <1>1 DEF IInv, StoreIsEndOfRecorded, EndOf
  <1> DEFINE first == dropped + d + 1
             m == Len(recorded[k])
  <1>8. first \in Nat \ {0} /\ m \in Nat /\ m - first + 1 = n /\ first..m \subseteq 1..m
    BY <1>2, <1>4, <1>7
  <1>9. ASSUME NEW i \in first..m PROVE i \in recent
    <2>1. first \in 1..m /\ i \in 1..m /\ d + 1 \in 1..Len(store[k]) /\ first = dropped + (d + 1)
      BY <1>2, <1>4, <1>7, <1>8
    <2>2. store[k][d + 1].timestamp = recorded[k][first].timestamp
      BY <1>7, <2>1
    <2>3. ~Stale(store[k][d + 1], t)
      BY <1>3, <1>4, <2>1
    <2>4. recorded[k][first].timestamp \in Nat /\ recorded[k][i].timestamp \in Nat
      BY <1>2, <2>1, AdmissionsTyped
    <2>5. ~Stale(recorded[k][first], t)
      BY <2>2, <2>3 DEF Stale, AgeSecs
    <2>6. ~(t - recorded[k][first].timestamp >= (WindowSecs + 1) * SecTicks)
      BY <1>1, <2>4, <2>5, StaleMeans
    <2>7. recorded[k][first].timestamp <= recorded[k][i].timestamp
      BY <1>1, <2>1 DEF IInv, RecordedInOrder
    <2>8. (WindowSecs + 1) * SecTicks \in Nat
      BY RateLimiterAssumption
    <2>9. t - recorded[k][i].timestamp < (WindowSecs + 1) * SecTicks
      BY <1>1, <2>4, <2>6, <2>7, <2>8
    <2>10. i \in DOMAIN recorded[k]
      BY <1>2, <2>1
    <2> QED BY <2>9, <2>10
  <1>10. Cardinality(recent) \in Nat /\ Cardinality(recent) >= n
    <2> HIDE DEF first, m, n
    <2>1. IsFiniteSet(first..m) /\ Cardinality(first..m) = n
      <3>1. first \in Int /\ m \in Int
        BY <1>8
      <3>2. IsFiniteSet(first..m) /\ Cardinality(first..m) = IF first > m THEN 0 ELSE m - first + 1
        BY <3>1, FS_Interval
      <3> QED BY <1>4, <1>8, <3>2
    <2>2. IsFiniteSet(1..m)
      <3>1. 1 \in Int /\ m \in Int
        BY <1>8
      <3> QED BY <3>1, FS_Interval
    <2>3. recent \subseteq 1..m
      BY <1>2 DEF m
    <2>4. IsFiniteSet(recent)
      BY <2>2, <2>3, FS_Subset
    <2>5. first..m \subseteq recent
      BY <1>9
    <2> QED BY <2>1, <2>4, <2>5, FS_Subset, FS_CardinalityType
  <1> QED BY <1>0, <1>4, <1>6, <1>10, RateLimiterAssumption

\* A request is turned away only by a check that rejects it.
LEMMA OnlyChecksReject ==
    ASSUME TypeOK, NEW r \in Requests, [Next]_vars, Rejects(r)
    PROVE  /\ check_rate_limit(r) /\ Leave(r)
           /\ OverRequests(store'[key[r]], config[r]) \/ OverTokens(store'[key[r]], config[r])
PROOF
  <1>1. pc[r] = "checking" /\ pc'[r] = "idle"
    BY DEF Rejects
  <1>2. ASSUME NEW s \in Requests, s # r, pc' = [pc EXCEPT ![s] = "idle"] \/ pc' = [pc EXCEPT ![s] = "admitted"]
        PROVE  FALSE
    BY <1>1, <1>2 DEF TypeOK
  <1>3. ASSUME NEW s \in Requests, ReadClock(s) \/ \E k \in Keys : Enter(s, k) PROVE FALSE
    <2>1. \/ pc' = [pc EXCEPT ![s] = "admitted"]
          \/ pc' = [pc EXCEPT ![s] = "limited"]
          \/ pc' = [pc EXCEPT ![s] = "checking"]
      BY <1>3 DEF Enter, ReadClock
    <2> QED BY <1>1, <2>1 DEF TypeOK
  <1>4. ASSUME NEW s \in Requests, record_rate_limit(s) PROVE FALSE
    <2>1. pc' = [pc EXCEPT ![s] = "idle"] /\ s # r
      BY <1>1, <1>4 DEF record_rate_limit, Leave
    <2> QED BY <1>2, <2>1
  <1>5. ASSUME NEW s \in Requests, s # r, check_rate_limit(s) PROVE FALSE
    <2>1. pc' = [pc EXCEPT ![s] = "idle"] \/ pc' = [pc EXCEPT ![s] = "admitted"]
      BY <1>5 DEF check_rate_limit, Leave
    <2> QED BY <1>2, <1>5, <2>1
  <1>6. CASE Tick \/ Refresh \/ UNCHANGED vars
    BY <1>1, <1>6 DEF Tick, Refresh, vars, inside
  <1>7. check_rate_limit(r)
    BY <1>3, <1>4, <1>5, <1>6 DEF Next
  <1>8. pc' # [pc EXCEPT ![r] = "admitted"]
    BY <1>1 DEF TypeOK
  <1> QED BY <1>7, <1>8 DEF check_rate_limit

\* Nobody is turned away without cause (check_rate_limit): the limit the
\* request read was used up by requests of its key, none of them older than
\* the window.
THEOREM RejectionsAreDeserved == Spec => NoSpuriousReject
PROOF
  <1> DEFINE Deserved == \A r \in Requests : Rejects(r) =>
                 LET k == key[r]
                     limit == RequestLimit(config[r])
                     recent == {i \in DOMAIN recorded[k] :
                                   seen[r] - recorded[k][i].timestamp < (WindowSecs + 1) * SecTicks}
                 IN  limit # None /\ Cardinality(recent) >= limit
  <1>1. IInv /\ [Next]_vars => Deserved
    BY OnlyChecksReject, RejectionIsDeserved DEF IInv
  <1>2. [][Deserved]_vars => NoSpuriousReject
    BY DEF NoSpuriousReject
  <1> QED BY IInvHolds, <1>1, <1>2, PTL DEF Spec
=============================================================================
