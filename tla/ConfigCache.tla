----------------------------- MODULE ConfigCache -----------------------------
(***************************************************************************)
(* The gateway's copy of its configuration (gateway/src/db.rs).  A          *)
(* background thread connects, loads the cache with three queries, one      *)
(* after the other and outside any transaction, and replaces the whole      *)
(* cache under its write lock; then it sleeps and loads again, for ever.    *)
(* If a query fails it keeps the cache it has.  The admin API commits       *)
(* changes between any two of these steps.                                  *)
(*                                                                          *)
(* A map of the cache is the set of its entries, each tagged with the map   *)
(* it belongs to; the tables imply a set of such entries at every moment.   *)
(***************************************************************************)
EXTENDS ControlPlane

CONSTANT MaxWrites      \* bound: changes committed by the admin API

ASSUME MaxWritesAssumption == MaxWrites \in Nat

VARIABLES
    cache,      \* GatewayCache, shared with the request handlers
    fresh,      \* the cache load_full_cache is putting together
    thread,     \* where the refresh thread stands
    settled,    \* history: per entry, the refreshes completed since the
                \* tables last began or ceased to imply it (counted up to 2)
    writes      \* history: changes committed so far

cacheVars == <<cache, fresh, thread, settled, writes>>
vars == <<db, used, cache, fresh, thread, settled, writes>>

\* Queries load_key_hashes, load_model_routes and load_rate_limits.
KeyEntries(d) ==
    {<<"key", d.api_keys[k].key_hash, k>> :
        k \in {k \in Keys : d.api_keys[k] # None /\ d.api_keys[k].enabled}}

Enabled(d, p) == d.mapping_policies[p] # None /\ d.mapping_policies[p].enabled

RouteEntries(d) ==
    {<<"route", d.epichust_models[d.mapping_policies[r[1]].epichust_model],
                r[2], d.providers[ProviderOf[r[2]]]>> :
        r \in {r \in d.mapping_policy_routes : Enabled(d, r[1])}}

LimitEntries(d) ==
    {<<"limit", d.api_keys[l[1]].key_hash, d.rate_limit_rules[l[2]]>> :
        l \in {l \in d.api_key_mapping_policies :
                  /\ d.api_keys[l[1]].enabled
                  /\ Enabled(d, l[2])
                  /\ d.rate_limit_rules[l[2]] # None}}

\* Rows come in no particular order and each overwrites the one before it, so
\* any one of a key's limits may be the one that stays.
LastRowWins(rows) ==
    {S \in SUBSET rows : \A row \in rows : \E last \in S : {r \in S : r[2] = row[2]} = {last}}

\* Every entry some state of the tables could imply.
Entries ==
    ({"key"} \X Hashes \X Keys)
        \cup ({"route"} \X Names \X ProviderModels \X Endpoints)
        \cup ({"limit"} \X Hashes \X Limits)

Implied(d) == KeyEntries(d) \cup RouteEntries(d) \cup LimitEntries(d)

Empty == [key_hashes |-> {}, model_routes |-> {}, rate_limits |-> {}]

new_cache == Empty

Init ==
    /\ ControlInit
    /\ cache = new_cache
    /\ fresh = Empty
    /\ thread = "connecting"
    /\ settled = [e \in Entries |-> 0]
    /\ writes = 0

\* The admin API commits a change.
Commit ==
    /\ writes < MaxWrites
    /\ AdminOp
    /\ writes' = writes + 1
    /\ settled' = [e \in Entries |->
                     IF e \in Implied(db) <=> e \in Implied(db') THEN settled[e] ELSE 0]
    /\ UNCHANGED <<cache, fresh, thread>>

\* A failed attempt to connect is followed by another.
Connect ==
    /\ thread = "connecting"
    /\ thread' = "idle"
    /\ UNCHANGED <<db, used, cache, fresh, settled, writes>>

\* Also the end of the sleep between two refreshes.
load_key_hashes ==
    /\ thread = "idle"
    /\ fresh' = [Empty EXCEPT !.key_hashes = KeyEntries(db)]
    /\ thread' = "keys loaded"
    /\ UNCHANGED <<db, used, cache, settled, writes>>

load_model_routes ==
    /\ thread = "keys loaded"
    /\ fresh' = [fresh EXCEPT !.model_routes = RouteEntries(db)]
    /\ thread' = "routes loaded"
    /\ UNCHANGED <<db, used, cache, settled, writes>>

\* Mutant: the limits are stored in the wrong map.
load_rate_limits_misplaced ==
    /\ thread = "routes loaded"
    /\ fresh' = [fresh EXCEPT !.key_hashes = LimitEntries(db)]
    /\ thread' = "all loaded"
    /\ UNCHANGED <<db, used, cache, settled, writes>>

load_rate_limits ==
    /\ thread = "routes loaded"
    /\ \E limits \in LastRowWins(LimitEntries(db)) :
          fresh' = [fresh EXCEPT !.rate_limits = limits]
    /\ thread' = "all loaded"
    /\ UNCHANGED <<db, used, cache, settled, writes>>

\* Mutant: a failed query is logged, and the load goes on without its rows.
QuerySkipped ==
    /\ thread \in {"idle", "keys loaded", "routes loaded"}
    /\ thread' = CASE thread = "idle"          -> "keys loaded"
                   [] thread = "keys loaded"   -> "routes loaded"
                   [] thread = "routes loaded" -> "all loaded"
    /\ UNCHANGED <<db, used, cache, fresh, settled, writes>>

\* Whichever query fails, load_full_cache returns the error and the thread
\* goes back to sleep with the old cache in place.
QueryFails ==
    /\ thread \in {"idle", "keys loaded", "routes loaded"}
    /\ thread' = "idle"
    /\ fresh' = Empty
    /\ UNCHANGED <<db, used, cache, settled, writes>>

AfterRefresh == [e \in Entries |-> IF settled[e] = 2 THEN 2 ELSE settled[e] + 1]

\* Mutant: only the initial load reaches the shared cache.
ReplaceOnce ==
    /\ thread = "all loaded"
    /\ cache' = IF cache = new_cache THEN fresh ELSE cache
    /\ fresh' = Empty
    /\ thread' = "idle"
    /\ settled' = AfterRefresh
    /\ UNCHANGED <<db, used, writes>>

\* Mutant: the new entries are added to the old ones.
ReplaceByMerging ==
    /\ thread = "all loaded"
    /\ cache' = [map \in DOMAIN cache |-> cache[map] \cup fresh[map]]
    /\ fresh' = Empty
    /\ thread' = "idle"
    /\ settled' = AfterRefresh
    /\ UNCHANGED <<db, used, writes>>

\* *cache.write() = fresh
Replace ==
    /\ thread = "all loaded"
    /\ cache' = fresh
    /\ fresh' = Empty
    /\ thread' = "idle"
    /\ settled' = AfterRefresh
    /\ UNCHANGED <<db, used, writes>>

Refresh == load_key_hashes \/ load_model_routes \/ load_rate_limits \/ QueryFails \/ Replace

Next == Commit \/ Connect \/ Refresh

Spec == Init /\ [][Next]_vars

\* The thread keeps running, and no query fails every time it is tried.
FairSpec ==
    /\ Spec
    /\ WF_vars(Connect)
    /\ SF_vars(load_key_hashes)
    /\ SF_vars(load_model_routes)
    /\ SF_vars(load_rate_limits)
    /\ WF_vars(Replace)
-----------------------------------------------------------------------------
CacheType ==
    [key_hashes : SUBSET ({"key"} \X Hashes \X Keys),
     model_routes : SUBSET ({"route"} \X Names \X ProviderModels \X Endpoints),
     rate_limits : SUBSET ({"limit"} \X Hashes \X Limits)]

\* The tables, the cache and the load in progress are well typed.
TypeOK ==
    /\ ControlTypeOK
    /\ cache \in CacheType
    /\ fresh \in CacheType
    /\ thread \in {"connecting", "idle", "keys loaded", "routes loaded", "all loaded"}
    /\ settled \in [Entries -> 0..2]
    /\ writes \in 0..MaxWrites

\* The cache has a limit for the hash.
Limited(c, hash) == \E l \in c.rate_limits : l[2] = hash

\* Staleness is bounded (load_full_cache and the loop around it): once two
\* refreshes have completed since the tables last changed their mind about a
\* key, a route or a limit, the cache and the tables agree on it: a key is
\* limited by one of its limits, and by none that is gone.  One refresh is not
\* enough, since it may have run its query before the change; it may even leave
\* a rotated key valid without its limits.
StalenessBound ==
    \A e \in Entries : settled[e] = 2 =>
        /\ e[1] = "key"   => (e \in cache.key_hashes <=> e \in KeyEntries(db))
        /\ e[1] = "route" => (e \in cache.model_routes <=> e \in RouteEntries(db))
        /\ e[1] = "limit" =>
              /\ e \in cache.rate_limits => e \in LimitEntries(db)
              /\ e \in LimitEntries(db) => Limited(cache, e[2])

\* Revoking a key (update_api_key, rotate_api_key, delete_api_key) takes
\* effect: a key entry the tables no longer imply leaves the cache for good,
\* as long as queries do not fail for ever.
RevocationTakesEffect ==
    \A e \in {"key"} \X Hashes \X Keys :
        <>[](e \notin KeyEntries(db)) => <>[](e \notin cache.key_hashes)

\* A change made in the admin console reaches the gateway: what the tables go
\* on implying is in the cache from some moment on, and a key that goes on
\* having a limit is limited.
GrantTakesEffect ==
    /\ \A e \in {"key"} \X Hashes \X Keys :
          <>[](e \in KeyEntries(db)) => <>[](e \in cache.key_hashes)
    /\ \A e \in {"route"} \X Names \X ProviderModels \X Endpoints :
          <>[](e \in RouteEntries(db)) => <>[](e \in cache.model_routes)
    /\ \A e \in {"limit"} \X Hashes \X Limits :
          <>[](e \in LimitEntries(db)) => <>[]Limited(cache, e[2])
-----------------------------------------------------------------------------
\* A claim the repository makes and the code does not keep.

\* db.rs:166, "Aggregates limits from all enabled policies attached to the
\* key": a refresh that finds the tables as the last two found them leaves
\* every key the limits it had.
SameTablesSameLimits ==
    [][(\A e \in Entries : settled[e] = 2) => cache'.rate_limits = cache.rate_limits]_vars
=============================================================================
