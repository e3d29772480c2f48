------------------------------- MODULE Gateway -------------------------------
(***************************************************************************)
(* The life of a request in the data plane (gateway/src/proxy.rs, the       *)
(* ProxyHttp implementation of LlmGateway), for requests handled            *)
(* concurrently while the refresh thread replaces the cache.                *)
(*                                                                          *)
(* request_filter takes the cache's read lock up to four times, once for    *)
(* each thing it looks up, and the limiter's lock twice; it awaits the      *)
(* client's body in the middle.  Each of these is a step of its own here.   *)
(* The limiter is seen as RateLimiter describes it, with the entries that   *)
(* are not stale counted; the picking of routes is that of RouteSelection.  *)
(* The framework, the client and the upstream are external: they decide     *)
(* when a step happens, and how a forwarded request ends.                   *)
(***************************************************************************)
EXTENDS RouteSelection

CONSTANTS
    Requests,
    Inputs,         \* what clients send
    Hashes,         \* hashes of the bearer tokens
    Keys,           \* ids of the API keys
    Models,         \* names of the models the gateway routes
    Snapshots,      \* the caches the refresh thread may install
    None

Bodies == {"oversized", "unparsable", "not_an_object", "no_model"} \cup Models

Input == [path : {"/healthz", "/v1/chat/completions", "other"}, post : BOOLEAN,
          token : Hashes \cup {None}, body : Bodies]

ModelTarget == [strategy : Strategies, routes : Seq(RouteCandidate)]

ASSUME GatewayAssumption ==
    /\ IsFiniteSet(Requests)
    /\ Inputs \subseteq Input
    /\ \A c \in Snapshots :
          /\ c.key_hashes \in [Hashes -> Keys \cup {None}]
          /\ c.rate_limits \in [Hashes -> Nat \cup {None}]
          /\ DOMAIN c.model_routes = Models
          /\ \A m \in Models : c.model_routes[m] \in ModelTarget
    /\ None \notin Nat \cup Keys \cup Hashes \cup Models \cup ProviderModels

VARIABLES
    cache,              \* GatewayCache, behind its RwLock
    window,             \* the limiter's store: entries per key not yet stale
    rr_counters,        \* round-robin cursor per model
    active_requests,    \* the gauge
    requests_total, auth_failures_total, upstream_errors_total,
    pc,                 \* where each request stands
    input,              \* what its client sent
    ctx,                \* its RequestContext
    audited,            \* the audit row logging built for it, or None
    span                \* history: the caches current since it arrived

shared == <<cache, window, rr_counters>>
metrics == <<active_requests, requests_total, auth_failures_total, upstream_errors_total>>
vars == <<shared, metrics, pc, input, ctx, audited, span>>

new_ctx ==
    [audit_enabled |-> TRUE, counted_active |-> FALSE, auth_result |-> "missing",
     rejected |-> FALSE, key_hash |-> None, api_key_id |-> None, model |-> None,
     upstream_model |-> None, limit |-> None, compared |-> FALSE, verdict |-> 0]

Init ==
    /\ cache = [key_hashes   |-> [h \in Hashes |-> None],
                rate_limits  |-> [h \in Hashes |-> None],
                model_routes |-> [m \in Models |-> NoTarget]]
    /\ window = [h \in Hashes |-> 0]
    /\ rr_counters = [m \in Models |-> 0]
    /\ active_requests = 0
    /\ requests_total = 0
    /\ auth_failures_total = 0
    /\ upstream_errors_total = 0
    /\ pc = [r \in Requests |-> "none"]
    /\ input \in [Requests -> Inputs]
    /\ ctx = [r \in Requests |-> new_ctx]
    /\ audited = [r \in Requests |-> None]
    /\ span = [r \in Requests |-> {}]

Live(r) == pc[r] \notin {"none", "logged", "lost"}

\* The refresh thread installs a new cache.
ReplaceCache ==
    /\ cache' \in Snapshots \ {cache}
    /\ span' = [r \in Requests |-> IF Live(r) THEN span[r] \cup {cache'} ELSE span[r]]
    /\ UNCHANGED <<window, rr_counters, metrics, pc, input, ctx, audited>>

\* An entry of the limiter's window grows stale.
EntryExpires(h) ==
    /\ window[h] > 0
    /\ window' = [window EXCEPT ![h] = @ - 1]
    /\ UNCHANGED <<cache, rr_counters, metrics, pc, input, ctx, audited, span>>

Arrive(r) ==
    /\ pc[r] = "none"
    /\ pc' = [pc EXCEPT ![r] = "arrived"]
    /\ span' = [span EXCEPT ![r] = {cache}]
    /\ UNCHANGED <<shared, metrics, input, ctx, audited>>

\* Helpers of the steps below: go on, or answer with a status of the
\* gateway's own (respond_json).
Goto(r, label, new) ==
    /\ pc' = [pc EXCEPT ![r] = label]
    /\ ctx' = [ctx EXCEPT ![r] = new]

respond_json(r, status, new) == Goto(r, "answered", [new EXCEPT !.verdict = status])

\* Path, method and bearer token.
CheckHead(r) ==
    LET in == input[r] IN
    /\ pc[r] = "arrived"
    /\ CASE in.path = "/healthz" ->
              respond_json(r, 200, [ctx[r] EXCEPT !.audit_enabled = FALSE])
         [] in.path = "other" -> respond_json(r, 404, ctx[r])
         [] in.path = "/v1/chat/completions" /\ ~in.post -> respond_json(r, 405, ctx[r])
         [] in.path = "/v1/chat/completions" /\ in.post /\ in.token = None ->
              respond_json(r, 401, ctx[r])
         [] OTHER -> Goto(r, "hashed", [ctx[r] EXCEPT !.key_hash = in.token])
    /\ auth_failures_total' =
          auth_failures_total + (IF ctx'[r].verdict = 401 THEN 1 ELSE 0)
    /\ UNCHANGED <<shared, active_requests, requests_total, upstream_errors_total,
                   input, audited, span>>

\* Mutant: an unknown key is counted and answered, but the handler goes on.
LookUpKeyLenient(r) ==
    LET id == cache.key_hashes[ctx[r].key_hash] IN
    /\ pc[r] = "hashed"
    /\ auth_failures_total' = auth_failures_total + (IF id = None THEN 1 ELSE 0)
    /\ Goto(r, "known", [ctx[r] EXCEPT !.api_key_id = id])
    /\ UNCHANGED <<shared, active_requests, requests_total, upstream_errors_total,
                   input, audited, span>>

\* Mutant: an unknown key is not counted as an authentication failure.
LookUpKeyUncounted(r) ==
    LET id == cache.key_hashes[ctx[r].key_hash] IN
    /\ pc[r] = "hashed"
    /\ IF id = None THEN respond_json(r, 403, [ctx[r] EXCEPT !.auth_result = "invalid_key"])
       ELSE Goto(r, "known", [ctx[r] EXCEPT !.api_key_id = id])
    /\ UNCHANGED <<shared, metrics, input, audited, span>>

\* Mutant: a valid key is enough for auth_result to say "ok".
LookUpKeyOk(r) ==
    LET id == cache.key_hashes[ctx[r].key_hash] IN
    /\ pc[r] = "hashed"
    /\ \/ /\ id = None
          /\ auth_failures_total' = auth_failures_total + 1
          /\ respond_json(r, 403, [ctx[r] EXCEPT !.auth_result = "invalid_key"])
       \/ /\ id # None
          /\ Goto(r, "known", [ctx[r] EXCEPT !.api_key_id = id, !.auth_result = "ok"])
          /\ UNCHANGED auth_failures_total
    /\ UNCHANGED <<shared, active_requests, requests_total, upstream_errors_total,
                   input, audited, span>>

\* First read of the cache.
LookUpKey(r) ==
    LET id == cache.key_hashes[ctx[r].key_hash] IN
    /\ pc[r] = "hashed"
    /\ \/ /\ id = None
          /\ auth_failures_total' = auth_failures_total + 1
          /\ respond_json(r, 403, [ctx[r] EXCEPT !.auth_result = "invalid_key"])
       \/ /\ id # None
          /\ Goto(r, "known", [ctx[r] EXCEPT !.api_key_id = id])
          /\ UNCHANGED auth_failures_total
    /\ UNCHANGED <<shared, active_requests, requests_total, upstream_errors_total,
                   input, audited, span>>

\* Mutant: try_read, with a lock that is taken treated like missing limits.
LookUpLimitsImpatient(r) ==
    /\ pc[r] = "known"
    /\ \E limit \in {cache.rate_limits[ctx[r].key_hash], None} :
          Goto(r, IF limit = None THEN "admitted" ELSE "limited", [ctx[r] EXCEPT !.limit = limit])
    /\ UNCHANGED <<shared, metrics, input, audited, span>>

\* Second read of the cache; a key without limits skips the check.
LookUpLimits(r) ==
    LET limit == cache.rate_limits[ctx[r].key_hash] IN
    /\ pc[r] = "known"
    /\ Goto(r, IF limit = None THEN "admitted" ELSE "limited", [ctx[r] EXCEPT !.limit = limit])
    /\ UNCHANGED <<shared, metrics, input, audited, span>>

check_rate_limit(r) ==
    /\ pc[r] = "limited"
    /\ IF window[ctx[r].key_hash] >= ctx[r].limit
       THEN respond_json(r, 429, [ctx[r] EXCEPT !.rejected = TRUE, !.compared = TRUE])
       ELSE Goto(r, "admitted", [ctx[r] EXCEPT !.compared = TRUE])
    /\ UNCHANGED <<shared, metrics, input, audited, span>>

record_rate_limit(r) ==
    /\ pc[r] = "admitted"
    /\ window' = [window EXCEPT ![ctx[r].key_hash] = @ + 1]
    /\ pc' = [pc EXCEPT ![r] = "reading_body"]
    /\ UNCHANGED <<cache, rr_counters, metrics, input, ctx, audited, span>>

\* The loop that awaits the client's body.  A body that ends early for an
\* error of the client is one that does not parse.
ReadBody(r) ==
    LET body == input[r].body IN
    /\ pc[r] = "reading_body"
    /\ CASE body = "oversized" -> respond_json(r, 413, ctx[r])
         [] body \in Models    -> Goto(r, "has_model", [ctx[r] EXCEPT !.model = body])
         [] OTHER              -> Goto(r, "no_route", ctx[r])
    /\ UNCHANGED <<shared, metrics, input, audited, span>>

\* Mutant: try_read, with a lock that is taken treated like a missing route.
select_route_impatient(r) ==
    LET routes == cache.model_routes[ctx[r].model].routes IN
    /\ pc[r] = "has_model"
    /\ \/ Goto(r, "no_route", ctx[r])
       \/ \E i \in DOMAIN routes :
             Goto(r, "has_route", [ctx[r] EXCEPT !.upstream_model = routes[i].provider_model])
    /\ UNCHANGED <<shared, metrics, input, audited, span>>

\* Third read of the cache, with the round-robin counters locked inside.
select_route(r) ==
    LET m == ctx[r].model
        target == cache.model_routes[m]
    IN  /\ pc[r] = "has_model"
        /\ \/ /\ target.routes = <<>>
              /\ Goto(r, "no_route", ctx[r])
              /\ UNCHANGED rr_counters
           \/ /\ target.routes # <<>>
              /\ \E dice \in 0..TotalWeight(target.routes) - 1 :
                    LET i == SelectedIndex(target, rr_counters[m], dice)
                    IN  Goto(r, "has_route",
                             [ctx[r] EXCEPT !.upstream_model = target.routes[i].provider_model])
              /\ rr_counters' =
                    [rr_counters EXCEPT ![m] = NextCursor(target, @, Cardinality(Requests) + 1)]
        /\ UNCHANGED <<cache, window, metrics, input, audited, span>>

\* Fourth read: a request without a route of its own gets the first route of
\* whichever model the map yields first, if there is any.
Fallback(r) ==
    LET routed == {m \in Models : cache.model_routes[m].routes # <<>>} IN
    /\ pc[r] = "no_route"
    /\ \/ routed = {} /\ respond_json(r, 503, ctx[r])
       \/ \E m \in routed :
             LET route == cache.model_routes[m].routes[1]
             IN  Goto(r, "has_route", [ctx[r] EXCEPT !.upstream_model = route.provider_model])
    /\ UNCHANGED <<shared, metrics, input, audited, span>>

\* The end of request_filter: the request goes upstream.
Forward(r) ==
    /\ pc[r] = "has_route"
    /\ active_requests' = active_requests + 1
    /\ Goto(r, "forwarded", [ctx[r] EXCEPT !.auth_result = "ok", !.counted_active = TRUE])
    /\ UNCHANGED <<shared, requests_total, auth_failures_total, upstream_errors_total,
                   input, audited, span>>

\* request_body_filter sets value["model"], which panics when the JSON value
\* is an array or a scalar; the request's task ends there and then.
BodyFilterPanics(r) ==
    /\ pc[r] = "forwarded"
    /\ input[r].body = "not_an_object"
    /\ pc' = [pc EXCEPT ![r] = "lost"]
    /\ UNCHANGED <<shared, metrics, input, ctx, audited, span>>

\* The upstream answers, before or after it has had the body.
UpstreamAnswers(r) ==
    /\ pc[r] = "forwarded"
    /\ respond_json(r, 200, ctx[r])
    /\ UNCHANGED <<shared, metrics, input, audited, span>>

\* Mutant: every request gives the gauge back, counted or not.
ReleaseAlways(r) == 1

\* Mutant: a request the upstream did not answer does not.
ReleaseIfAnswered(r) == IF ctx[r].counted_active /\ pc[r] = "answered" THEN 1 ELSE 0

\* What a finished request gives back to the gauge.
Release(r) == IF ctx[r].counted_active THEN 1 ELSE 0

\* logging runs once for every request the framework finishes, with the error
\* that cut it short if there was one (writing an answer may fail as well).
logging(r) ==
    /\ pc[r] \in {"answered", "forwarded"}
    /\ requests_total' = requests_total + 1
    /\ \E failed \in {pc[r] = "forwarded", TRUE} :
          upstream_errors_total' = upstream_errors_total + (IF failed THEN 1 ELSE 0)
    /\ active_requests' = active_requests - Release(r)
    /\ audited' = IF ctx[r].audit_enabled
                  THEN [audited EXCEPT ![r] =
                           [auth_result |-> ctx[r].auth_result, api_key_id |-> ctx[r].api_key_id,
                            provider_model |-> ctx[r].upstream_model]]
                  ELSE audited
    /\ pc' = [pc EXCEPT ![r] = "logged"]
    /\ UNCHANGED <<shared, auth_failures_total, input, ctx, span>>

HandleRequest(r) ==
    \/ CheckHead(r) \/ LookUpKey(r) \/ LookUpLimits(r)
    \/ check_rate_limit(r) \/ record_rate_limit(r)
    \/ ReadBody(r) \/ select_route(r) \/ Fallback(r) \/ Forward(r)
    \/ BodyFilterPanics(r) \/ UpstreamAnswers(r) \/ logging(r)

Next ==
    \/ ReplaceCache
    \/ \E h \in Hashes : EntryExpires(h)
    \/ \E r \in Requests : Arrive(r) \/ HandleRequest(r)

Spec == Init /\ [][Next]_vars
-----------------------------------------------------------------------------
Labels == {"none", "arrived", "hashed", "known", "limited", "admitted", "reading_body",
           "has_model", "has_route", "no_route", "forwarded", "answered", "logged", "lost"}

TypeOK ==
    /\ cache.key_hashes \in [Hashes -> Keys \cup {None}]
    /\ window \in [Hashes -> Nat]
    /\ rr_counters \in [Models -> Nat]
    /\ active_requests \in Nat
    /\ {requests_total, auth_failures_total, upstream_errors_total} \subseteq Nat
    /\ pc \in [Requests -> Labels]
    /\ \A r \in Requests : ctx[r].api_key_id # None => ctx[r].key_hash # None

Forwarded(r) == ctx[r].counted_active

\* The gauge is exact (request_filter's inc and logging's dec): it counts the
\* requests sent upstream that logging has not yet seen, whatever ended them.
GaugeExact ==
    active_requests = Cardinality({r \in Requests : Forwarded(r) /\ pc[r] # "logged"})

\* The counters agree with what happened to the requests: one auth failure for
\* each request turned away with 401 or 403, however its answer went out, and
\* one request counted for each that was logged.
CountersExact ==
    /\ auth_failures_total = Cardinality({r \in Requests : ctx[r].verdict \in {401, 403}})
    /\ requests_total = Cardinality({r \in Requests : pc[r] = "logged"})
    /\ upstream_errors_total <= requests_total

\* A request is forwarded only with a key that was valid, and to a route that
\* was in the cache, at some moment since it arrived, although key and route
\* were read from the cache at different times.
ForwardedOnCurrentConfig ==
    \A r \in Requests : Forwarded(r) =>
        /\ ctx[r].api_key_id # None
        /\ \E c \in span[r] : c.key_hashes[ctx[r].key_hash] = ctx[r].api_key_id
        /\ \E c \in span[r], m \in Models :
              \E i \in DOMAIN c.model_routes[m].routes :
                  c.model_routes[m].routes[i].provider_model = ctx[r].upstream_model

\* A request goes upstream without a comparison with a limit only if its hash
\* was without limits at some moment since it arrived (the key is read first,
\* its limits under another lock): because nothing limits the key, or because
\* a refresh forgot the hash of a rotated key between the two reads.
UncheckedWasUnlimited ==
    \A r \in Requests : Forwarded(r) =>
        /\ \E c \in span[r] : c.rate_limits[ctx[r].key_hash] = ctx[r].limit
        /\ ctx[r].compared <=> ctx[r].limit # None

\* A model that stays mapped is served by its own routes: the fallback to
\* another model's route is only for a request whose model was, at some
\* moment since it arrived, without a route.
MappedModelKeepsItsRoutes ==
    \A r \in Requests :
        LET m == ctx[r].model
        IN  Forwarded(r) /\ m # None /\ (\A c \in span[r] : c.model_routes[m].routes # <<>>) =>
                \E c \in span[r] : \E i \in DOMAIN c.model_routes[m].routes :
                    c.model_routes[m].routes[i].provider_model = ctx[r].upstream_model

\* The audit trail tells who was let through: of the rows logging writes, those
\* of forwarded requests, and only those, say "ok", and they name key and route;
\* "invalid_key" stands for a 403 and nothing else.
AuditTellsOutcome ==
    \A r \in Requests : audited[r] # None =>
        /\ audited[r].auth_result = "ok" <=> Forwarded(r)
        /\ audited[r].provider_model # None <=> Forwarded(r)
        /\ Forwarded(r) => audited[r].api_key_id # None
        /\ audited[r].auth_result = "invalid_key" <=> ctx[r].verdict = 403
-----------------------------------------------------------------------------
\* A claim the repository makes and the code does not keep.

\* proxy.rs:156, gateway_active_requests "Active requests": when no request is
\* being handled the gauge is back at zero.
GaugeReturnsToZero ==
    (\A r \in Requests : ~Live(r)) => active_requests = 0
=============================================================================
