---------------------------- MODULE RateLimiter ----------------------------
(***************************************************************************)
(* The in-memory rate limiter of the gateway (gateway/src/proxy.rs,         *)
(* check_rate_limit and record_rate_limit, called one after the other by    *)
(* request_filter).                                                         *)
(*                                                                          *)
(* A request copies its key's limits out of the shared cache, reads the     *)
(* clock, then takes the store's lock, prunes its key's deque and compares  *)
(* it with the limits; if admitted it takes the lock a second time and      *)
(* appends its own entry.  Nothing is awaited in between, so as many        *)
(* requests stand between the two locks as there are worker threads, and no *)
(* more.  The cache is replaced at any moment: limits appear, change and    *)
(* vanish while requests that read them are still inside.                   *)
(*                                                                          *)
(* Time is counted in ticks, SecTicks of them to a second, because the code *)
(* truncates an age to whole seconds before it compares it.                 *)
(***************************************************************************)
EXTENDS Integers, Sequences, FiniteSets, SequencesExt

CONSTANTS
    Keys,           \* hashes of the API keys in use
    Requests,       \* requests a worker may be handling; each is used again
    Workers,        \* worker threads of the proxy service
    None,           \* Rust's Option::None
    Configs,        \* what the cache may hold: for each key its limits or None
    WindowSecs,     \* 60 in the code
    SecTicks,       \* clock ticks in a second
    MaxTime,        \* bound: the clock stops here
    MaxHandled      \* bound: requests admitted, or on their way

\* The tables hold positive limits only (CHECK of rate_limit_rules).
RateLimitConfig ==
    LET Limit == (Nat \ {0}) \cup {None}
    IN  [requests_per_minute : Limit, requests_per_day : Limit,
         tokens_per_minute : Limit, tokens_per_day : Limit]

ASSUME RateLimiterAssumption ==
    /\ IsFiniteSet(Requests)
    /\ Workers \in Nat \ {0}
    /\ None \notin Nat \cup Keys \cup RateLimitConfig
    /\ Configs # {}
    /\ Configs \subseteq [Keys -> RateLimitConfig \cup {None}]
    /\ WindowSecs \in Nat
    /\ SecTicks \in Nat \ {0}
    /\ MaxTime \in Nat
    /\ MaxHandled \in Nat

VARIABLES
    now,        \* the monotonic clock
    limits,     \* the cache's rate_limits
    store,      \* RateLimitStore: per key, the deque of its entries
    pc,         \* where each request stands
    key,        \* the key each request presented
    config,     \* rate_config: the limits each request copied from the cache
    seen,       \* the clock as each request last read it: on arrival
                \* (started_at), then in check_rate_limit, before the lock
    recorded,   \* history: per key, every request ever admitted
    room        \* history: what each key's admissions so far let its deque hold

inside == <<pc, key, config, seen>>
vars == <<now, limits, store, inside, recorded, room>>

Entry == [timestamp : Nat, tokens : Nat]

\* An admission, and the limit of requests it was admitted against.
Admission == [timestamp : Nat, limit : (Nat \ {0}) \cup {None}]

is_empty(c) == \A field \in DOMAIN c : c[field] = None

\* A key without limits in the cache, or with empty ones, is not checked.
Unchecked(c) == c # None => is_empty(c)

\* The limit of requests a copy of the limits sets.
RequestLimit(c) == IF c = None THEN None ELSE c.requests_per_minute

Busy == {r \in Requests : pc[r] # "idle"}
Pending(k) == {r \in Requests : pc[r] = "admitted" /\ key[r] = k}

Handled == FoldFunction(LAMBDA q, n : Len(q) + n, Cardinality(Busy), recorded)

\* now.duration_since(e.timestamp).as_secs(): saturates at zero, truncates.
AgeSecs(e, t) == IF t < e.timestamp THEN 0 ELSE (t - e.timestamp) \div SecTicks

\* Mutant: an entry of exactly the window's age is already dropped.
StaleEarly(e, t) == AgeSecs(e, t) >= WindowSecs

Stale(e, t) == AgeSecs(e, t) > WindowSecs

TotalTokens(q) ==
    LET upTo[n \in 0..Len(q)] == IF n = 0 THEN 0 ELSE upTo[n - 1] + q[n].tokens
    IN  upTo[Len(q)]

\* Mutant: the limit is compared with ">".
OverRequestsOffByOne(q, c) == c.requests_per_minute # None /\ Len(q) > c.requests_per_minute

OverRequests(q, c) == c.requests_per_minute # None /\ Len(q) >= c.requests_per_minute

OverTokens(q, c) == c.tokens_per_minute # None /\ TotalTokens(q) >= c.tokens_per_minute

Init ==
    /\ now = 0
    /\ limits \in Configs
    /\ store = [k \in Keys |-> <<>>]
    /\ pc = [r \in Requests |-> "idle"]
    /\ key = [r \in Requests |-> None]
    /\ config = [r \in Requests |-> None]
    /\ seen = [r \in Requests |-> 0]
    /\ recorded = [k \in Keys |-> <<>>]
    /\ room = [k \in Keys |-> 0]

Tick ==
    /\ now < MaxTime
    /\ now' = now + 1
    /\ UNCHANGED <<limits, store, inside, recorded, room>>

\* The refresh thread puts another cache in place.
Refresh ==
    /\ limits' \in Configs
    /\ UNCHANGED <<now, store, inside, recorded, room>>

\* History: a request of key k is admitted, against a limit of requests or
\* without one.  The first kind settles how long the deque can be; the second
\* adds to it.
Admit(k, limit) ==
    room' = [room EXCEPT ![k] = IF limit = None THEN @ + 1 ELSE limit + Workers - 1]

\* A worker takes a request with a valid key as far as the limiter and copies
\* the key's limits.  Without limits it is not checked at all.
Enter(r, k) ==
    /\ pc[r] = "idle"
    /\ Cardinality(Busy) < Workers
    /\ Handled < MaxHandled
    /\ key' = [key EXCEPT ![r] = k]
    /\ config' = [config EXCEPT ![r] = limits[k]]
    /\ seen' = [seen EXCEPT ![r] = now]
    /\ \/ /\ Unchecked(limits[k])
          /\ pc' = [pc EXCEPT ![r] = "admitted"]
          /\ Admit(k, None)
       \/ /\ ~Unchecked(limits[k])
          /\ pc' = [pc EXCEPT ![r] = "limited"]
          /\ UNCHANGED room
    /\ UNCHANGED <<now, limits, store, recorded>>

\* check_rate_limit reads the clock before it asks for the lock.
ReadClock(r) ==
    /\ pc[r] = "limited"
    /\ seen' = [seen EXCEPT ![r] = now]
    /\ pc' = [pc EXCEPT ![r] = "checking"]
    /\ UNCHANGED <<now, limits, store, key, config, recorded, room>>

\* Mutant: an "if" for the "while", one stale entry goes and no more.
PruneOne(k, t) ==
    LET q == store[k]
    IN  \E d \in 0..Len(q) :
            /\ d = IF q # <<>> /\ Stale(q[1], t) THEN 1 ELSE 0
            /\ store' = [store EXCEPT ![k] = SubSeq(q, d + 1, Len(q))]

\* Entries go from the front of the deque while they are stale.
Prune(k, t) ==
    LET q == store[k]
    IN  \E d \in 0..Len(q) :
            /\ \A i \in 1..d : Stale(q[i], t)
            /\ d < Len(q) => ~Stale(q[d + 1], t)
            /\ store' = [store EXCEPT ![k] = SubSeq(q, d + 1, Len(q))]

\* Mutant: the early return is missing and the request stays inside.
LeaveForgotten(r) ==
    /\ pc' = [pc EXCEPT ![r] = "admitted"]
    /\ key' = [key EXCEPT ![r] = None]
    /\ config' = [config EXCEPT ![r] = None]
    /\ seen' = [seen EXCEPT ![r] = 0]

Leave(r) ==
    /\ pc' = [pc EXCEPT ![r] = "idle"]
    /\ key' = [key EXCEPT ![r] = None]
    /\ config' = [config EXCEPT ![r] = None]
    /\ seen' = [seen EXCEPT ![r] = 0]

\* The first lock: prune, then compare.  A rejected request is answered 429.
check_rate_limit(r) ==
    LET k == key[r]
        c == config[r]
    IN  /\ pc[r] = "checking"
        /\ Prune(k, seen[r])
        /\ \/ /\ OverRequests(store'[k], c) \/ OverTokens(store'[k], c)
              /\ Leave(r)
              /\ UNCHANGED room
           \/ /\ ~OverRequests(store'[k], c) /\ ~OverTokens(store'[k], c)
              /\ pc' = [pc EXCEPT ![r] = "admitted"]
              /\ Admit(k, RequestLimit(c))
              /\ UNCHANGED <<key, config, seen>>
        /\ UNCHANGED <<now, limits, recorded>>

\* The second lock.  The code always records zero tokens, so that TotalTokens
\* is always zero and a token limit never rejects.
record_rate_limit(r) ==
    LET k == key[r]
    IN  /\ pc[r] = "admitted"
        /\ store' = [store EXCEPT ![k] = Append(@, [timestamp |-> now, tokens |-> 0])]
        /\ recorded' = [recorded EXCEPT ![k] =
                            Append(@, [timestamp |-> now, limit |-> RequestLimit(config[r])])]
        /\ Leave(r)
        /\ UNCHANGED <<now, limits, room>>

Next ==
    \/ Tick
    \/ Refresh
    \/ \E r \in Requests :
          \/ \E k \in Keys : Enter(r, k)
          \/ ReadClock(r)
          \/ check_rate_limit(r)
          \/ record_rate_limit(r)

Spec == Init /\ [][Next]_vars
-----------------------------------------------------------------------------
\* The variables hold values of the types the code gives them, and no more
\* requests are inside the limiter than there are worker threads.
TypeOK ==
    /\ now \in Nat
    /\ limits \in Configs
    /\ store \in [Keys -> Seq(Entry)]
    /\ pc \in [Requests -> {"idle", "limited", "checking", "admitted"}]
    /\ key \in [Requests -> Keys \cup {None}]
    /\ config \in [Requests -> RateLimitConfig \cup {None}]
    /\ \A r \in Busy : key[r] \in Keys
    /\ \A r \in Busy : pc[r] # "admitted" => config[r] # None
    /\ seen \in [Requests -> Nat]
    /\ recorded \in [Keys -> Seq(Admission)]
    /\ room \in [Keys -> Nat]
    /\ Cardinality(Busy) <= Workers

\* The n latest admissions of key k.
Latest(k, n) == (Len(recorded[k]) - n + 1)..Len(recorded[k])

\* If all of them were made against a limit, they are no more than the highest
\* of those limits, plus one request for every further worker thread that
\* checked before the others had recorded.
WithinLimits(k, n) ==
    (\A i \in Latest(k, n) : recorded[k][i].limit # None) =>
        \E i \in Latest(k, n) : n <= recorded[k][i].limit + Workers - 1

\* What requests_per_minute really guarantees (check_rate_limit and
\* record_rate_limit under two locks, the limits read anew by each request):
\* take any stretch of admissions up to now no longer than the window; if
\* none of them was let through without a limit, they keep to the highest
\* limit any of them was checked against and the excess of the worker threads.
WindowBound ==
    \A k \in Keys : \A n \in 1..Len(recorded[k]) :
        now - recorded[k][Len(recorded[k]) - n + 1].timestamp <= WindowSecs * SecTicks
            => WithinLimits(k, n)

\* The deque of a key stays short, whatever the traffic and however its limits
\* change: with the requests about to append to it, it holds no more than the
\* limit the last limited request was admitted against, one request for every
\* further worker, and those let through without a limit since then.
StoreBound ==
    \A k \in Keys : Len(store[k]) + Cardinality(Pending(k)) <= room[k]

Rejects(r) == pc[r] = "checking" /\ pc'[r] = "idle"

\* A key is answered 429 only when the limit of requests this request read
\* really was admitted in the WindowSecs + 1 seconds before the check read the
\* clock (or later): stale entries, and other keys' requests, never cause a
\* rejection.
NoSpuriousReject ==
    [][\A r \in Requests : Rejects(r) =>
          LET k == key[r]
              limit == RequestLimit(config[r])
              recent == {i \in DOMAIN recorded[k] :
                            seen[r] - recorded[k][i].timestamp < (WindowSecs + 1) * SecTicks}
          IN  limit # None /\ Cardinality(recent) >= limit]_vars
-----------------------------------------------------------------------------
\* A claim the repository makes and the code does not keep.

\* proxy.rs:80, "we only keep 60s window in memory": once a request of a key
\* has been handled, the key's deque holds no entry that was stale when the
\* request came in.
OnlyWindowKept ==
    [][\A r \in Requests : pc[r] = "admitted" /\ pc'[r] = "idle" =>
          \A i \in DOMAIN store[key[r]] : ~Stale(store[key[r]][i], seen[r])]_vars
=============================================================================
