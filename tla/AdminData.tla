------------------------------ MODULE AdminData ------------------------------
(***************************************************************************)
(* The admin console's picture of the tables (admin-web/src/lib/api.ts,     *)
(* hooks/use-admin-data.ts, main.tsx).  One query holds it.  A fetch sends  *)
(* six requests side by side, some of which the admin API answers with      *)
(* several statements; the tables change meanwhile, so that the parts of    *)
(* one picture may be of different moments.  A fetch that fails is tried    *)
(* once more and then leaves the old picture with an error.  Every          *)
(* successful change invalidates the query: a fetch under way is dropped    *)
(* and a new one started.                                                   *)
(***************************************************************************)
EXTENDS AdminApi

VARIABLES
    data,       \* the picture, None before the first one
    fetch,      \* the fetch under way, or None
    isError,    \* the last fetch failed
    version,    \* history: changes made to the tables
    acked       \* history: version when a change by this console was last
                \* acknowledged to it

dataVars == <<data, fetch, isError, version, acked>>

\* AdminData.  The order of the policies is whatever the database makes it:
\* first is the one the picture has first.
Picture == [tables : Tables, first : Policies \cup {None}, asOf : Nat]

\* The tables that the fetch's statements may find, from its beginning on.
Fetch == [seen : Seq(Tables), since : Nat, failureCount : 0..1]

ASSUME DataAssumption == None \notin Picture /\ None \notin Fetch

StartFetch(count) == [seen |-> <<db>>, since |-> version, failureCount |-> count]

DataInit ==
    /\ version = 0
    /\ acked = 0
    /\ data = None
    /\ fetch = StartFetch(0)
    /\ isError = FALSE

\* The admin API changes the tables, or does not.
WatchTables ==
    /\ version' = IF db' = db THEN version ELSE version + 1
    /\ fetch' = IF db' = db \/ fetch = None THEN fetch
                ELSE [fetch EXCEPT !.seen = Append(@, db')]
    /\ UNCHANGED <<data, isError, acked>>
-----------------------------------------------------------------------------
\* What one statement of the fetch may have found in a table.
Found(table) == {fetch.seen[i][table] : i \in DOMAIN fetch.seen}

\* The moments of n statements run one after the other.
Moments(n) ==
    {t \in [1..n -> DOMAIN fetch.seen] : \A i, j \in 1..n : i <= j => t[i] <= t[j]}

\* list_mapping_policies reads policies, then routes, then rules, and joins
\* what belongs to the policies it has.
FoundPolicies ==
    {LET heads == fetch.seen[t[1]].mapping_policies IN
     [heads  |-> heads,
      routes |-> {r \in fetch.seen[t[2]].mapping_policy_routes : heads[r[1]] # None},
      rules  |-> [p \in Policies |-> IF heads[p] = None THEN None
                                     ELSE fetch.seen[t[3]].rate_limit_rules[p]]] : t \in Moments(3)}

\* list_api_keys reads the keys, then the policies attached to each.
FoundKeys ==
    {LET keys == fetch.seen[t[1]].api_keys IN
     [keys  |-> keys,
      links |-> {l \in fetch.seen[t[2]].api_key_mapping_policies : keys[l[1]] # None}] :
        t \in Moments(2)}

\* Mutant: the six requests settle one by one, and the models of the old
\* picture are kept if theirs fails.
getAdminDataPartly ==
    [epichust_models : Found("epichust_models") \cup
                           (IF data = None THEN {} ELSE {data.tables.epichust_models}),
     providers       : Found("providers"),
     provider_models : Found("provider_models"),
     policies        : FoundPolicies,
     keys            : FoundKeys]

\* Promise.all: the six answers together, each of any moment of the fetch.
getAdminData ==
    [epichust_models : Found("epichust_models"),
     providers       : Found("providers"),
     provider_models : Found("provider_models"),
     policies        : FoundPolicies,
     keys            : FoundKeys]

Assembled(parts) ==
    [epichust_models          |-> parts.epichust_models,
     providers                |-> parts.providers,
     provider_models          |-> parts.provider_models,
     mapping_policies         |-> parts.policies.heads,
     mapping_policy_routes    |-> parts.policies.routes,
     rate_limit_rules         |-> parts.policies.rules,
     api_keys                 |-> parts.keys.keys,
     api_key_mapping_policies |-> parts.keys.links]

FirstIn(table) == IF Rows(table) = {} THEN {None} ELSE Rows(table)

\* The fetch succeeds and replaces the picture.
Arrive ==
    /\ fetch # None
    /\ \E parts \in getAdminData : \E first \in FirstIn(parts.policies.heads) :
          data' = [tables |-> Assembled(parts), first |-> first, asOf |-> fetch.since]
    /\ fetch' = None
    /\ isError' = FALSE
    /\ UNCHANGED <<version, acked>>

\* One of the six requests fails (retry: 1).
FetchFails ==
    /\ fetch # None
    /\ \/ fetch.failureCount = 0 /\ fetch' = StartFetch(1) /\ UNCHANGED isError
       \/ fetch.failureCount = 1 /\ fetch' = None /\ isError' = TRUE
    /\ UNCHANGED <<data, version, acked>>

\* Mutant: while a fetch is under way no other is started.
refetchUnlessFetching == fetch' = IF fetch = None THEN StartFetch(0) ELSE fetch

\* A fetch under way is cancelled, whatever it has found is dropped.
refetch == fetch' = StartFetch(0)

\* A mutation's onSuccess invalidates the query, which is always in use.
onSuccess ==
    /\ refetch
    /\ acked' = version
    /\ UNCHANGED <<data, isError, version>>

\* A component that uses the query is mounted: stale data is fetched again.
useAdminData ==
    /\ \/ UNCHANGED fetch
       \/ fetch = None /\ fetch' = StartFetch(0)
    /\ UNCHANGED <<data, isError, version, acked>>
-----------------------------------------------------------------------------
\* The console shows what it has done (onSuccess, onRefresh): once no fetch is
\* under way and the last one did not fail, no change that was acknowledged
\* to the console is newer than all of its picture.  A fetch begun before the
\* change must not have the last word.
OwnChangesShown == data # None /\ fetch = None /\ ~isError => data.asOf >= acked

\* Tearing does not last (getAdminData): a picture fetched since the tables
\* last changed is exactly the tables.
QuietPictureIsExact == data # None /\ data.asOf = version => data.tables = db
=============================================================================
