---------------------------- MODULE GatewayProofs ----------------------------
(***************************************************************************)
(* Proofs about Gateway, for any number of concurrent requests and any      *)
(* caches: the gauge and the counters are exact, a request is forwarded on  *)
(* a key and a route that were both in force while it was handled, and past *)
(* a limit that was in force too, if any was, a model that stays mapped     *)
(* keeps its routes, and the audit rows tell the outcome.  The invariants   *)
(* say what a request's context may hold at each of its stages.             *)
(***************************************************************************)
EXTENDS Gateway, RouteSelectionProofs

IsCache(c) ==
    /\ c.key_hashes \in [Hashes -> Keys \cup {None}]
    /\ c.rate_limits \in [Hashes -> Nat \cup {None}]
    /\ DOMAIN c.model_routes = Models
    /\ \A m \in Models : c.model_routes[m] \in ModelTarget

Context ==
    [audit_enabled : BOOLEAN, counted_active : BOOLEAN,
     auth_result : {"missing", "invalid_key", "ok"}, rejected : BOOLEAN,
     key_hash : Hashes \cup {None}, api_key_id : Keys \cup {None},
     model : Models \cup {None}, upstream_model : ProviderModels \cup {None},
     limit : Nat \cup {None}, compared : BOOLEAN, verdict : Nat]

SharedOK ==
    /\ IsCache(cache)
    /\ window \in [Hashes -> Nat]
    /\ rr_counters \in [Models -> Nat]

RequestsTyped ==
    /\ pc \in [Requests -> Labels]
    /\ input \in [Requests -> Input]
    /\ ctx \in [Requests -> Context]
    /\ audited \in [Requests -> [auth_result : {"missing", "invalid_key", "ok"},
                                 api_key_id : Keys \cup {None},
                                 provider_model : ProviderModels \cup {None}] \cup {None}]
    /\ DOMAIN span = Requests

\* The stages past the look-up of the key.
Authorized == {"known", "limited", "admitted", "reading_body", "has_model", "no_route",
               "has_route", "forwarded", "lost"}

\* The stages between the head of the request and its body.
Unread == {"hashed", "known", "limited", "admitted", "reading_body"}

\* The stages a request that was sent upstream may be in.
Sent == {"forwarded", "answered", "logged", "lost"}

\* What the context c of a request at stage p holds.
ContextFits(p, c) ==
    /\ p \in {"none", "arrived"} => c = new_ctx
    /\ p = "hashed" => c.key_hash # None
    /\ p \in Authorized => c.api_key_id # None
    /\ p \in Unread => c.model = None
    /\ p = "has_model" => c.model # None
    /\ p = "has_route" \/ c.counted_active <=> c.upstream_model # None
    /\ c.counted_active => p \in Sent /\ c.api_key_id # None
    /\ p \in {"forwarded", "lost"} => c.counted_active
    /\ c.counted_active <=> c.auth_result = "ok"
    /\ c.auth_result = "invalid_key" <=> c.verdict = 403
    /\ p \notin {"answered", "logged"} => c.verdict = 0

\* The key was valid in one of the caches of the request's span.
KeyWasValid(c, sp) ==
    c.api_key_id # None =>
        /\ c.key_hash \in Hashes
        /\ \E cc \in sp : cc.key_hashes[c.key_hash] = c.api_key_id

Offers(cc, m, upstream) ==
    \E i \in DOMAIN cc.model_routes[m].routes :
        cc.model_routes[m].routes[i].provider_model = upstream

WasUnmapped(c, sp) == \E cc \in sp : cc.model_routes[c.model].routes = <<>>

\* The route was one of a cache of the span; and of the request's own model,
\* unless one of these caches had none for it.
RouteWasOffered(c, sp) ==
    c.upstream_model # None =>
        /\ \E cc \in sp, m \in Models : Offers(cc, m, c.upstream_model)
        /\ c.model # None => \/ WasUnmapped(c, sp)
                             \/ \E cc \in sp : Offers(cc, c.model, c.upstream_model)

FallsBackUnmapped(p, c, sp) == p = "no_route" /\ c.model # None => WasUnmapped(c, sp)

\* The audit row is the one logging builds from the context.
AuditFits(p, c, row) ==
    row # None =>
        /\ p = "logged"
        /\ row.auth_result = c.auth_result
        /\ row.api_key_id = c.api_key_id
        /\ row.provider_model = c.upstream_model

RequestFits(r) ==
    /\ ContextFits(pc[r], ctx[r])
    /\ KeyWasValid(ctx[r], span[r])
    /\ RouteWasOffered(ctx[r], span[r])
    /\ FallsBackUnmapped(pc[r], ctx[r], span[r])
    /\ AuditFits(pc[r], ctx[r], audited[r])
    /\ Live(r) => cache \in span[r]

\* The sets the counters count.
InFlight(r) == Forwarded(r) /\ pc[r] # "logged"
TurnedAway(r) == ctx[r].verdict \in {401, 403}
Logged(r) == pc[r] = "logged"

CountersOK ==
    /\ active_requests = Cardinality({r \in Requests : InFlight(r)})
    /\ auth_failures_total = Cardinality({r \in Requests : TurnedAway(r)})
    /\ requests_total = Cardinality({r \in Requests : Logged(r)})
    /\ upstream_errors_total \in Nat
    /\ upstream_errors_total <= requests_total

IInv ==
    /\ SharedOK
    /\ RequestsTyped
    /\ \A r \in Requests : RequestFits(r)
    /\ CountersOK

LEMMA NewContextFits == new_ctx \in Context /\ ContextFits("none", new_ctx)
PROOF
  <1>1. new_ctx \in Context
    BY GatewayAssumption DEF new_ctx, Context
  <1>2. /\ new_ctx.counted_active = FALSE /\ new_ctx.auth_result = "missing"
        /\ new_ctx.verdict = 0 /\ new_ctx.upstream_model = None /\ new_ctx.api_key_id = None
    BY DEF new_ctx
  <1> QED BY <1>1, <1>2 DEF ContextFits, Unread, Authorized

LEMMA InitIInv == Init => IInv
PROOF
  <1> SUFFICES ASSUME Init PROVE IInv
    OBVIOUS
  <1>1. SharedOK
    <2>1. NoTarget \in ModelTarget
      BY DEF NoTarget, ModelTarget, Strategies
    <2> QED BY <2>1 DEF Init, SharedOK, IsCache
  <1>2. RequestsTyped
    BY NewContextFits, GatewayAssumption DEF Init, RequestsTyped, Labels
  <1>3. ASSUME NEW r \in Requests PROVE RequestFits(r)
    <2>1. pc[r] = "none" /\ ctx[r] = new_ctx /\ audited[r] = None /\ span[r] = {}
      BY DEF Init
    <2>2. new_ctx.api_key_id = None /\ new_ctx.upstream_model = None
      BY DEF new_ctx
    <2> QED BY <2>1, <2>2, NewContextFits
            DEF RequestFits, KeyWasValid, RouteWasOffered, FallsBackUnmapped, AuditFits, Live
  <1>4. CountersOK
    <2>1. \A r \in Requests : ~InFlight(r) /\ ~TurnedAway(r) /\ ~Logged(r)
      BY DEF Init, InFlight, Forwarded, TurnedAway, Logged, new_ctx
    <2>2. /\ {r \in Requests : InFlight(r)} = {} /\ {r \in Requests : TurnedAway(r)} = {}
          /\ {r \in Requests : Logged(r)} = {}
      BY <2>1
    <2>3. Cardinality({}) = 0
      BY FS_EmptySet
    <2> QED BY <2>2, <2>3 DEF Init, CountersOK
  <1> QED BY <1>1, <1>2, <1>3, <1>4 DEF IInv
-----------------------------------------------------------------------------
\* When at most one element joins or leaves a set of requests, its size changes
\* by that.
LEMMA CountStep ==
    ASSUME NEW S \in SUBSET Requests, NEW T \in SUBSET Requests, NEW r \in Requests,
           \A q \in Requests \ {r} : q \in T <=> q \in S
    PROVE  /\ Cardinality(S) \in Nat /\ Cardinality(T) \in Nat
           /\ Cardinality(T) = Cardinality(S) + (IF r \in T THEN 1 ELSE 0)
                                              - (IF r \in S THEN 1 ELSE 0)
PROOF
  <1>1. IsFiniteSet(S) /\ IsFiniteSet(T)
    BY GatewayAssumption, FS_Subset
  <1>2. Cardinality(S) \in Nat /\ Cardinality(T) \in Nat
    BY <1>1, FS_CardinalityType
  <1>3. CASE r \in S <=> r \in T
    <2>1. S = T
      BY <1>3
    <2> QED BY <1>2, <1>3, <2>1
  <1>4. CASE r \in T /\ r \notin S
    <2>1. T = S \cup {r}
      BY <1>4
    <2>2. Cardinality(T) = Cardinality(S) + 1
      BY <1>1, <1>4, <2>1, FS_AddElement
    <2> QED BY <1>2, <1>4, <2>2
  <1>5. CASE r \in S /\ r \notin T
    <2>1. S = T \cup {r}
      BY <1>5
    <2>2. Cardinality(S) = Cardinality(T) + 1
      BY <1>1, <1>5, <2>1, FS_AddElement
    <2> QED BY <1>2, <1>5, <2>2
  <1> QED BY <1>3, <1>4, <1>5

\* The counters stay exact when a step of request r changes each by what r
\* joins or leaves.
LEMMA CountersMove ==
    ASSUME CountersOK, NEW r \in Requests,
           \A q \in Requests \ {r} : pc'[q] = pc[q] /\ ctx'[q] = ctx[q],
           active_requests' = active_requests + (IF InFlight(r)' THEN 1 ELSE 0)
                                              - (IF InFlight(r) THEN 1 ELSE 0),
           auth_failures_total' = auth_failures_total + (IF TurnedAway(r)' THEN 1 ELSE 0)
                                                      - (IF TurnedAway(r) THEN 1 ELSE 0),
           requests_total' = requests_total + (IF Logged(r)' THEN 1 ELSE 0)
                                            - (IF Logged(r) THEN 1 ELSE 0),
           upstream_errors_total' \in Nat, upstream_errors_total' <= requests_total'
    PROVE  CountersOK'
PROOF
  <1>1. \A q \in Requests \ {r} : /\ InFlight(q)' <=> InFlight(q)
                                  /\ TurnedAway(q)' <=> TurnedAway(q)
                                  /\ Logged(q)' <=> Logged(q)
    BY DEF InFlight, Forwarded, TurnedAway, Logged
  <1> DEFINE A == {q \in Requests : InFlight(q)}
             A1 == {q \in Requests : InFlight(q)'}
             F == {q \in Requests : TurnedAway(q)}
             F1 == {q \in Requests : TurnedAway(q)'}
             L == {q \in Requests : Logged(q)}
             L1 == {q \in Requests : Logged(q)'}
  <1>2. active_requests' = Cardinality(A1)
    <2>1. \A q \in Requests \ {r} : q \in A1 <=> q \in A
      BY <1>1
    <2>2. (r \in A1 <=> InFlight(r)') /\ (r \in A <=> InFlight(r))
      OBVIOUS
    <2>3. active_requests = Cardinality(A)
      BY DEF CountersOK
    <2> HIDE DEF A, A1
    <2>4. Cardinality(A1) = Cardinality(A) + (IF r \in A1 THEN 1 ELSE 0) - (IF r \in A THEN 1 ELSE 0)
      <3>1. A \in SUBSET Requests /\ A1 \in SUBSET Requests
        BY DEF A, A1
      <3> QED BY <2>1, <3>1, CountStep
    <2> QED BY <2>2, <2>3, <2>4
  <1>3. auth_failures_total' = Cardinality(F1)
    <2>1. \A q \in Requests \ {r} : q \in F1 <=> q \in F
      BY <1>1
    <2>2. (r \in F1 <=> TurnedAway(r)') /\ (r \in F <=> TurnedAway(r))
      OBVIOUS
    <2>3. auth_failures_total = Cardinality(F)
      BY DEF CountersOK
    <2> HIDE DEF F, F1
    <2>4. Cardinality(F1) = Cardinality(F) + (IF r \in F1 THEN 1 ELSE 0) - (IF r \in F THEN 1 ELSE 0)
      <3>1. F \in SUBSET Requests /\ F1 \in SUBSET Requests
        BY DEF F, F1
      <3> QED BY <2>1, <3>1, CountStep
    <2> QED BY <2>2, <2>3, <2>4
  <1>4. requests_total' = Cardinality(L1)
    <2>1. \A q \in Requests \ {r} : q \in L1 <=> q \in L
      BY <1>1
    <2>2. (r \in L1 <=> Logged(r)') /\ (r \in L <=> Logged(r))
      OBVIOUS
    <2>3. requests_total = Cardinality(L)
      BY DEF CountersOK
    <2> HIDE DEF L, L1
    <2>4. Cardinality(L1) = Cardinality(L) + (IF r \in L1 THEN 1 ELSE 0) - (IF r \in L THEN 1 ELSE 0)
      <3>1. L \in SUBSET Requests /\ L1 \in SUBSET Requests
        BY DEF L, L1
      <3> QED BY <2>1, <3>1, CountStep
    <2> QED BY <2>2, <2>3, <2>4
  <1> QED BY <1>2, <1>3, <1>4 DEF CountersOK

\* CountersOK as the properties say it.
LEMMA CountersAreNatural ==
    CountersOK => active_requests \in Nat /\ auth_failures_total \in Nat /\ requests_total \in Nat
PROOF
  <1> SUFFICES ASSUME CountersOK
               PROVE  active_requests \in Nat /\ auth_failures_total \in Nat /\ requests_total \in Nat
    OBVIOUS
  <1>1. \A S \in SUBSET Requests : Cardinality(S) \in Nat
    BY GatewayAssumption, FS_Subset, FS_CardinalityType
  <1> QED BY <1>1 DEF CountersOK
-----------------------------------------------------------------------------
\* The frame of a step: request r moves to another stage with another context,
\* and nothing else that RequestFits looks at changes.
LEMMA OneMoves ==
    ASSUME IInv, NEW r \in Requests, NEW label \in Labels \ {"none", "arrived"}, NEW new \in Context,
           pc' = [pc EXCEPT ![r] = label], ctx' = [ctx EXCEPT ![r] = new],
           UNCHANGED <<cache, input, audited, span>>,
           pc[r] \notin {"none", "logged", "lost"},
           ContextFits(label, new), KeyWasValid(new, span[r]), RouteWasOffered(new, span[r]),
           FallsBackUnmapped(label, new, span[r])
    PROVE  RequestsTyped' /\ \A q \in Requests : RequestFits(q)'
PROOF
  <1>1. pc \in [Requests -> Labels] /\ ctx \in [Requests -> Context]
    BY DEF IInv, RequestsTyped
  <1>2. pc' \in [Requests -> Labels] /\ ctx' \in [Requests -> Context]
    BY <1>1
  <1>3. RequestsTyped'
    BY <1>2 DEF IInv, RequestsTyped
  <1>4. ASSUME NEW q \in Requests PROVE RequestFits(q)'
    <2>1. RequestFits(q)
      BY DEF IInv
    <2>2. CASE q = r
      <3>1. pc'[q] = label /\ ctx'[q] = new
        BY <1>1, <2>2
      <3>2. AuditFits(pc[q], ctx[q], audited[q]) /\ (Live(q) => cache \in span[q])
        BY <2>1 DEF RequestFits
      <3>3. AuditFits(label, new, audited[q]) /\ cache \in span[q]
        BY <2>2, <3>2 DEF AuditFits, Live
      <3> QED BY <2>2, <3>1, <3>3 DEF RequestFits
    <2>3. CASE q # r
      <3>1. pc'[q] = pc[q] /\ ctx'[q] = ctx[q]
        BY <1>1, <2>3
      <3> QED BY <2>1, <3>1 DEF RequestFits, Live
    <2> QED BY <2>2, <2>3
  <1> QED BY <1>3, <1>4

\* The same, for a step that no counter is about.
LEMMA OneMovesQuietly ==
    ASSUME IInv, NEW r \in Requests, NEW label \in Labels \ {"none", "arrived", "logged"},
           NEW new \in Context,
           pc' = [pc EXCEPT ![r] = label], ctx' = [ctx EXCEPT ![r] = new],
           UNCHANGED <<cache, metrics, input, audited, span>>,
           pc[r] \notin {"none", "logged", "lost"}, SharedOK',
           new.counted_active = ctx[r].counted_active,
           new.verdict \in {401, 403} <=> ctx[r].verdict \in {401, 403},
           ContextFits(label, new), KeyWasValid(new, span[r]), RouteWasOffered(new, span[r]),
           FallsBackUnmapped(label, new, span[r])
    PROVE  IInv'
PROOF
  <1>1. pc \in [Requests -> Labels] /\ ctx \in [Requests -> Context] /\ CountersOK
    BY DEF IInv, RequestsTyped
  <1>2. RequestsTyped' /\ \A q \in Requests : RequestFits(q)'
    BY OneMoves
  <1>3. pc'[r] = label /\ ctx'[r] = new
    BY <1>1
  <1>4. \A q \in Requests \ {r} : pc'[q] = pc[q] /\ ctx'[q] = ctx[q]
    BY <1>1
  <1>5. /\ InFlight(r)' <=> InFlight(r)
        /\ TurnedAway(r)' <=> TurnedAway(r)
        /\ Logged(r)' <=> Logged(r)
    BY <1>3 DEF InFlight, Forwarded, TurnedAway, Logged
  <1>6. active_requests \in Nat /\ auth_failures_total \in Nat /\ requests_total \in Nat
    BY <1>1, CountersAreNatural
  <1>7. /\ active_requests' = active_requests /\ auth_failures_total' = auth_failures_total
        /\ requests_total' = requests_total /\ upstream_errors_total' = upstream_errors_total
    BY DEF metrics
  <1>8. CountersOK'
    <2>1. upstream_errors_total \in Nat /\ upstream_errors_total <= requests_total
      BY <1>1 DEF CountersOK
    <2> QED BY <1>1, <1>4, <1>5, <1>6, <1>7, <2>1, CountersMove
  <1> QED BY <1>2, <1>8 DEF IInv

\* What the invariant says of one request.
LEMMA OfRequest ==
    ASSUME IInv, NEW r \in Requests
    PROVE  /\ ctx[r] \in Context /\ pc[r] \in Labels /\ input[r] \in Input
           /\ ContextFits(pc[r], ctx[r]) /\ KeyWasValid(ctx[r], span[r])
           /\ RouteWasOffered(ctx[r], span[r])
           /\ FallsBackUnmapped(pc[r], ctx[r], span[r])
           /\ Live(r) => cache \in span[r]
           /\ IsCache(cache)
PROOF
  BY DEF IInv, RequestsTyped, RequestFits, SharedOK

-----------------------------------------------------------------------------
\* The parts of a context that the invariant is about.
SameKey(c, d) == d.key_hash = c.key_hash /\ d.api_key_id = c.api_key_id
SameRoute(c, d) == d.model = c.model /\ d.upstream_model = c.upstream_model
SameOutcome(c, d) ==
    d.counted_active = c.counted_active /\ d.auth_result = c.auth_result /\ d.verdict = c.verdict

\* What setting a field leaves as it was.
LEMMA SetVerdict ==
    ASSUME NEW c \in Context, NEW v \in Nat, NEW d, d = [c EXCEPT !.verdict = v]
    PROVE  /\ d \in Context /\ d.verdict = v
           /\ d.counted_active = c.counted_active /\ d.auth_result = c.auth_result
           /\ SameKey(c, d) /\ SameRoute(c, d)
PROOF
  BY DEF Context, SameKey, SameRoute

LEMMA SetAuthResult ==
    ASSUME NEW c \in Context, NEW a \in {"missing", "invalid_key", "ok"},
           NEW d, d = [c EXCEPT !.auth_result = a]
    PROVE  /\ d \in Context /\ d.auth_result = a
           /\ d.counted_active = c.counted_active /\ d.verdict = c.verdict
           /\ SameKey(c, d) /\ SameRoute(c, d)
PROOF
  BY DEF Context, SameKey, SameRoute

LEMMA SetCountedActive ==
    ASSUME NEW c \in Context, NEW d, d = [c EXCEPT !.counted_active = TRUE]
    PROVE  /\ d \in Context /\ d.counted_active = TRUE
           /\ d.auth_result = c.auth_result /\ d.verdict = c.verdict
           /\ SameKey(c, d) /\ SameRoute(c, d)
PROOF
  BY DEF Context, SameKey, SameRoute

LEMMA SetKeyHash ==
    ASSUME NEW c \in Context, NEW h \in Hashes, NEW d, d = [c EXCEPT !.key_hash = h]
    PROVE  /\ d \in Context /\ d.key_hash = h /\ d.api_key_id = c.api_key_id
           /\ SameRoute(c, d) /\ SameOutcome(c, d)
PROOF
  BY DEF Context, SameRoute, SameOutcome

LEMMA SetApiKeyId ==
    ASSUME NEW c \in Context, NEW id \in Keys, NEW d, d = [c EXCEPT !.api_key_id = id]
    PROVE  /\ d \in Context /\ d.api_key_id = id /\ d.key_hash = c.key_hash
           /\ SameRoute(c, d) /\ SameOutcome(c, d)
PROOF
  BY DEF Context, SameRoute, SameOutcome

LEMMA SetModel ==
    ASSUME NEW c \in Context, NEW m \in Models, NEW d, d = [c EXCEPT !.model = m]
    PROVE  /\ d \in Context /\ d.model = m /\ d.upstream_model = c.upstream_model
           /\ SameKey(c, d) /\ SameOutcome(c, d)
PROOF
  BY DEF Context, SameKey, SameOutcome

LEMMA SetUpstreamModel ==
    ASSUME NEW c \in Context, NEW u \in ProviderModels, NEW d, d = [c EXCEPT !.upstream_model = u]
    PROVE  /\ d \in Context /\ d.upstream_model = u /\ d.model = c.model
           /\ SameKey(c, d) /\ SameOutcome(c, d)
PROOF
  BY DEF Context, SameKey, SameOutcome

\* Fields no property is about.
LEMMA SetOther ==
    ASSUME NEW c \in Context, NEW d,
           \/ d = [c EXCEPT !.audit_enabled = FALSE]
           \/ d = [c EXCEPT !.rejected = TRUE]
           \/ d = [c EXCEPT !.compared = TRUE]
           \/ \E l \in Nat \cup {None} : d = [c EXCEPT !.limit = l]
    PROVE  d \in Context /\ SameKey(c, d) /\ SameRoute(c, d) /\ SameOutcome(c, d)
PROOF
  <1>1. CASE d = [c EXCEPT !.audit_enabled = FALSE]
    BY <1>1 DEF Context, SameKey, SameRoute, SameOutcome
  <1>2. CASE d = [c EXCEPT !.rejected = TRUE]
    BY <1>2 DEF Context, SameKey, SameRoute, SameOutcome
  <1>3. CASE d = [c EXCEPT !.compared = TRUE]
    BY <1>3 DEF Context, SameKey, SameRoute, SameOutcome
  <1>4. CASE \E l \in Nat \cup {None} : d = [c EXCEPT !.limit = l]
    BY <1>4 DEF Context, SameKey, SameRoute, SameOutcome
  <1> QED BY <1>1, <1>2, <1>3, <1>4

\* The key and the route were found before, in caches that stay in the span.
LEMMA KeyStaysValid ==
    ASSUME NEW c, NEW d, NEW sp, SameKey(c, d), KeyWasValid(c, sp)
    PROVE  KeyWasValid(d, sp)
PROOF
  BY Zenon DEF SameKey, KeyWasValid

LEMMA RouteStaysOffered ==
    ASSUME NEW c, NEW d, NEW sp, SameRoute(c, d), RouteWasOffered(c, sp)
    PROVE  RouteWasOffered(d, sp)
PROOF
  BY Zenon DEF SameRoute, RouteWasOffered, WasUnmapped
-----------------------------------------------------------------------------
\* An answer of the gateway's own or of the upstream, given from context c.
LEMMA AnswerFits ==
    ASSUME NEW c \in Context, NEW status \in Nat \ {403}, NEW sp,
           NEW p \in Labels \ {"has_route"},
           ContextFits(p, c), KeyWasValid(c, sp), RouteWasOffered(c, sp),
           c.verdict = 0,
           NEW new, new = [c EXCEPT !.verdict = status]
    PROVE  /\ new \in Context
           /\ new.verdict = status /\ new.counted_active = c.counted_active
           /\ ContextFits("answered", new)
           /\ KeyWasValid(new, sp) /\ RouteWasOffered(new, sp)
           /\ FallsBackUnmapped("answered", new, sp)
PROOF
  <1>1. /\ new \in Context /\ new.verdict = status
        /\ new.counted_active = c.counted_active /\ new.auth_result = c.auth_result
        /\ SameKey(c, new) /\ SameRoute(c, new)
    <2>1. status \in Nat
      OBVIOUS
    <2> QED BY <2>1, SetVerdict
  <1>2. ContextFits("answered", new)
    BY <1>1 DEF ContextFits, Unread, Sent, Authorized, SameKey, SameRoute
  <1>3. KeyWasValid(new, sp) /\ RouteWasOffered(new, sp)
    BY <1>1, KeyStaysValid, RouteStaysOffered
  <1>4. FallsBackUnmapped("answered", new, sp)
    BY DEF FallsBackUnmapped
  <1> QED BY <1>1, <1>2, <1>3, <1>4

LEMMA UpstreamAnswersKeeps ==
    ASSUME IInv, NEW r \in Requests, UpstreamAnswers(r) PROVE IInv'
PROOF
  <1>1. PICK new : new = [ctx[r] EXCEPT !.verdict = 200]
    OBVIOUS
  <1>2. pc[r] = "forwarded" /\ pc' = [pc EXCEPT ![r] = "answered"] /\ ctx' = [ctx EXCEPT ![r] = new]
    BY <1>1, Zenon DEF UpstreamAnswers, respond_json, Goto
  <1>3. UNCHANGED <<cache, metrics, input, audited, span>> /\ SharedOK'
    BY DEF UpstreamAnswers, shared, IInv, SharedOK
  <1>4. ctx[r].verdict = 0
    BY <1>2, OfRequest DEF ContextFits
  <1>5. "answered" \in Labels \ {"none", "arrived", "logged"}
    BY DEF Labels
  <1>6. /\ new \in Context
        /\ new.verdict = 200 /\ new.counted_active = ctx[r].counted_active
        /\ ContextFits("answered", new)
        /\ KeyWasValid(new, span[r]) /\ RouteWasOffered(new, span[r])
        /\ FallsBackUnmapped("answered", new, span[r])
    BY <1>1, <1>2, <1>4, OfRequest, AnswerFits
  <1>7. /\ new.verdict \in {401, 403} <=> ctx[r].verdict \in {401, 403}
        /\ pc[r] \notin {"none", "logged", "lost"}
    BY <1>2, <1>4, <1>6
  <1> QED BY <1>2, <1>3, <1>5, <1>6, <1>7, OneMovesQuietly

\* The frame of a step that turns a request away: one more failure.
LEMMA OneIsTurnedAway ==
    ASSUME IInv, NEW r \in Requests, NEW new \in Context,
           pc' = [pc EXCEPT ![r] = "answered"], ctx' = [ctx EXCEPT ![r] = new],
           UNCHANGED <<cache, input, audited, span>>,
           UNCHANGED <<active_requests, requests_total, upstream_errors_total>>,
           auth_failures_total' = auth_failures_total + 1,
           pc[r] \notin {"none", "logged", "lost"}, SharedOK',
           new.counted_active = ctx[r].counted_active,
           new.verdict \in {401, 403}, ctx[r].verdict = 0,
           ContextFits("answered", new), KeyWasValid(new, span[r]), RouteWasOffered(new, span[r]),
           FallsBackUnmapped("answered", new, span[r])
    PROVE  IInv'
PROOF
  <1>1. pc \in [Requests -> Labels] /\ ctx \in [Requests -> Context] /\ CountersOK
    BY DEF IInv, RequestsTyped
  <1>2. RequestsTyped' /\ \A q \in Requests : RequestFits(q)'
    <2>1. "answered" \in Labels \ {"none", "arrived"}
      BY DEF Labels
    <2> QED BY <2>1, OneMoves
  <1>3. pc'[r] = "answered" /\ ctx'[r] = new
    BY <1>1
  <1>4. \A q \in Requests \ {r} : pc'[q] = pc[q] /\ ctx'[q] = ctx[q]
    BY <1>1
  <1>5. /\ InFlight(r)' <=> InFlight(r)
        /\ TurnedAway(r)' /\ ~TurnedAway(r)
        /\ ~Logged(r)' /\ ~Logged(r)
    BY <1>3 DEF InFlight, Forwarded, TurnedAway, Logged
  <1>6. active_requests \in Nat /\ auth_failures_total \in Nat /\ requests_total \in Nat
    BY <1>1, CountersAreNatural
  <1>7. CountersOK'
    <2>1. upstream_errors_total \in Nat /\ upstream_errors_total <= requests_total
      BY <1>1 DEF CountersOK
    <2> QED BY <1>1, <1>4, <1>5, <1>6, <2>1, CountersMove
  <1> QED BY <1>2, <1>7 DEF IInv

\* An answer from context base, the request's own but for fields no property
\* is about.
LEMMA AnswerKeeps ==
    ASSUME IInv, NEW r \in Requests, NEW status \in Nat \ {401, 403}, NEW base \in Context,
           SameKey(ctx[r], base), SameRoute(ctx[r], base), SameOutcome(ctx[r], base),
           pc[r] \notin {"none", "has_route", "answered", "logged", "lost"},
           respond_json(r, status, base), UNCHANGED <<cache, metrics, input, audited, span>>, SharedOK'
    PROVE  IInv'
PROOF
  <1>1. PICK new : new = [base EXCEPT !.verdict = status]
    OBVIOUS
  <1>2. pc' = [pc EXCEPT ![r] = "answered"] /\ ctx' = [ctx EXCEPT ![r] = new]
    BY <1>1, Zenon DEF respond_json, Goto
  <1>3. ctx[r].verdict = 0 /\ base.verdict = 0 /\ base.counted_active = ctx[r].counted_active
    BY OfRequest DEF ContextFits, SameOutcome
  <1>4. ContextFits("answered", base)
    BY <1>3, OfRequest DEF ContextFits, Unread, Sent, Authorized, SameKey, SameRoute, SameOutcome
  <1>5. KeyWasValid(base, span[r]) /\ RouteWasOffered(base, span[r])
    BY OfRequest, KeyStaysValid, RouteStaysOffered
  <1>6. /\ new \in Context
        /\ new.verdict = status /\ new.counted_active = base.counted_active
        /\ ContextFits("answered", new)
        /\ KeyWasValid(new, span[r]) /\ RouteWasOffered(new, span[r])
        /\ FallsBackUnmapped("answered", new, span[r])
    <2>1. status \in Nat \ {403} /\ "answered" \in Labels \ {"has_route"}
      BY DEF Labels
    <2> QED BY <1>1, <1>3, <1>4, <1>5, <2>1, AnswerFits
  <1>7. /\ new.verdict \in {401, 403} <=> ctx[r].verdict \in {401, 403}
        /\ pc[r] \notin {"none", "logged", "lost"}
        /\ "answered" \in Labels \ {"none", "arrived", "logged"}
    BY <1>3, <1>6 DEF Labels
  <1> QED BY <1>2, <1>3, <1>6, <1>7, OneMovesQuietly

LEMMA CheckHeadKeeps ==
    ASSUME IInv, NEW r \in Requests, CheckHead(r) PROVE IInv'
PROOF
  <1> DEFINE in == input[r]
             c == ctx[r]
  <1>1. /\ pc[r] = "arrived"
        /\ auth_failures_total' = auth_failures_total + (IF ctx'[r].verdict = 401 THEN 1 ELSE 0)
        /\ UNCHANGED <<cache, input, audited, span>>
        /\ UNCHANGED <<active_requests, requests_total, upstream_errors_total>>
    BY DEF CheckHead, shared
  <1>2. SharedOK'
    BY DEF CheckHead, shared, IInv, SharedOK
  <1>3. \/ respond_json(r, 200, [c EXCEPT !.audit_enabled = FALSE])
        \/ respond_json(r, 404, c)
        \/ respond_json(r, 405, c)
        \/ respond_json(r, 401, c)
        \/ in.token # None /\ Goto(r, "hashed", [c EXCEPT !.key_hash = in.token])
    <2>1. in.path \in {"/healthz", "/v1/chat/completions", "other"} /\ in.post \in BOOLEAN
      BY OfRequest DEF Input
    <2> QED BY <2>1, Zenon DEF CheckHead
  <1>4. /\ c \in Context /\ ContextFits("arrived", c) /\ c = new_ctx
        /\ KeyWasValid(c, span[r]) /\ RouteWasOffered(c, span[r])
    BY <1>1, OfRequest DEF ContextFits
  <1>5. /\ c.verdict = 0 /\ c.upstream_model = None /\ c.api_key_id = None
        /\ c.counted_active = FALSE /\ c.auth_result = "missing" /\ c.model = None
    BY <1>4 DEF new_ctx
  <1>6. ctx \in [Requests -> Context] /\ auth_failures_total \in Nat
    BY CountersAreNatural DEF IInv, RequestsTyped
  <1>7. SameKey(c, c) /\ SameRoute(c, c) /\ SameOutcome(c, c)
    BY DEF SameKey, SameRoute, SameOutcome
  <1>8. ASSUME NEW status \in {404, 405}, respond_json(r, status, c) PROVE IInv'
    <2>1. ctx'[r].verdict = status
      <3>1. PICK new : new = [c EXCEPT !.verdict = status]
        OBVIOUS
      <3>2. new.verdict = status
        BY <1>4, <3>1, SetVerdict
      <3>3. ctx' = [ctx EXCEPT ![r] = new]
        BY <1>8, <3>1, Zenon DEF respond_json, Goto
      <3> QED BY <1>6, <3>2, <3>3
    <2>2. auth_failures_total' = auth_failures_total
      BY <1>1, <1>6, <2>1
    <2>3. UNCHANGED <<cache, metrics, input, audited, span>>
      BY <1>1, <2>2 DEF metrics
    <2> QED BY <1>1, <1>2, <1>4, <1>7, <1>8, <2>3, AnswerKeeps
  <1>9. ASSUME respond_json(r, 200, [c EXCEPT !.audit_enabled = FALSE]) PROVE IInv'
    <2>1. PICK base : base = [c EXCEPT !.audit_enabled = FALSE]
      OBVIOUS
    <2>2. base \in Context /\ SameKey(c, base) /\ SameRoute(c, base) /\ SameOutcome(c, base)
      BY <1>4, <2>1, SetOther
    <2>3. respond_json(r, 200, base)
      BY <1>9, <2>1, Zenon
    <2>4. ctx'[r].verdict = 200
      <3>1. PICK new : new = [base EXCEPT !.verdict = 200]
        OBVIOUS
      <3>2. new.verdict = 200
        BY <2>2, <3>1, SetVerdict
      <3>3. ctx' = [ctx EXCEPT ![r] = new]
        BY <2>3, <3>1, Zenon DEF respond_json, Goto
      <3> QED BY <1>6, <3>2, <3>3
    <2>5. auth_failures_total' = auth_failures_total
      BY <1>1, <1>6, <2>4
    <2>6. UNCHANGED <<cache, metrics, input, audited, span>>
      BY <1>1, <2>5 DEF metrics
    <2> QED BY <1>1, <1>2, <2>2, <2>3, <2>6, AnswerKeeps
  <1>10. ASSUME respond_json(r, 401, c) PROVE IInv'
    <2>1. PICK new : new = [c EXCEPT !.verdict = 401]
      OBVIOUS
    <2>2. pc' = [pc EXCEPT ![r] = "answered"] /\ ctx' = [ctx EXCEPT ![r] = new]
      BY <1>10, <2>1, Zenon DEF respond_json, Goto
    <2>3. /\ new \in Context
          /\ new.verdict = 401 /\ new.counted_active = c.counted_active
          /\ ContextFits("answered", new)
          /\ KeyWasValid(new, span[r]) /\ RouteWasOffered(new, span[r])
          /\ FallsBackUnmapped("answered", new, span[r])
      <3>1. 401 \in Nat \ {403} /\ "arrived" \in Labels \ {"has_route"}
        BY DEF Labels
      <3> QED BY <1>4, <1>5, <2>1, <3>1, AnswerFits
    <2>4. auth_failures_total' = auth_failures_total + 1
      BY <1>1, <1>6, <2>2, <2>3
    <2> QED BY <1>1, <1>2, <1>5, <2>2, <2>3, <2>4, OneIsTurnedAway
  <1>11. ASSUME in.token # None, Goto(r, "hashed", [c EXCEPT !.key_hash = in.token]) PROVE IInv'
    <2>1. PICK new : new = [c EXCEPT !.key_hash = in.token]
      OBVIOUS
    <2>2. pc' = [pc EXCEPT ![r] = "hashed"] /\ ctx' = [ctx EXCEPT ![r] = new]
      BY <1>11, <2>1, Zenon DEF Goto
    <2>3. in.token \in Hashes
      BY <1>11, OfRequest DEF Input
    <2>4. /\ new \in Context /\ new.key_hash = in.token /\ new.api_key_id = c.api_key_id
          /\ SameRoute(c, new) /\ SameOutcome(c, new)
      BY <1>4, <2>1, <2>3, SetKeyHash
    <2>5. ContextFits("hashed", new)
      BY <1>5, <1>11, <2>4 DEF ContextFits, Unread, Authorized, SameRoute, SameOutcome
    <2>6. KeyWasValid(new, span[r]) /\ FallsBackUnmapped("hashed", new, span[r])
      BY <1>5, <2>4 DEF KeyWasValid, FallsBackUnmapped
    <2>7. RouteWasOffered(new, span[r])
      BY <1>4, <2>4, RouteStaysOffered
    <2>8. ctx'[r].verdict = 0 /\ new.counted_active = c.counted_active
      BY <1>5, <1>6, <2>2, <2>4 DEF SameOutcome
    <2>9. UNCHANGED <<cache, metrics, input, audited, span>>
      BY <1>1, <1>6, <2>8 DEF metrics
    <2>10. /\ new.verdict \in {401, 403} <=> c.verdict \in {401, 403}
           /\ pc[r] \notin {"none", "logged", "lost"}
           /\ "hashed" \in Labels \ {"none", "arrived", "logged"}
      BY <1>1, <2>4 DEF Labels, SameOutcome
    <2> QED BY <1>2, <2>2, <2>4, <2>5, <2>6, <2>7, <2>8, <2>9, <2>10, OneMovesQuietly
  <1> QED BY <1>3, <1>8, <1>9, <1>10, <1>11

LEMMA LookUpKeyKeeps ==
    ASSUME IInv, NEW r \in Requests, LookUpKey(r) PROVE IInv'
PROOF
  <1> DEFINE c == ctx[r]
             id == cache.key_hashes[c.key_hash]
  <1>1. /\ pc[r] = "hashed"
        /\ UNCHANGED <<cache, input, audited, span>>
        /\ UNCHANGED <<active_requests, requests_total, upstream_errors_total>>
    BY DEF LookUpKey, shared
  <1>2. SharedOK'
    BY DEF LookUpKey, shared, IInv, SharedOK
  <1>3. /\ c \in Context /\ ContextFits("hashed", c) /\ IsCache(cache) /\ cache \in span[r]
        /\ KeyWasValid(c, span[r]) /\ RouteWasOffered(c, span[r])
    BY <1>1, OfRequest DEF Live
  <1>4. c.verdict = 0 /\ c.counted_active # TRUE /\ c.key_hash \in Hashes
    BY <1>3 DEF ContextFits, Unread, Context, Sent
  <1>5. id \in Keys \cup {None}
    BY <1>3, <1>4 DEF IsCache
  <1>6. CASE /\ id = None
             /\ auth_failures_total' = auth_failures_total + 1
             /\ respond_json(r, 403, [c EXCEPT !.auth_result = "invalid_key"])
    <2>1. PICK base : base = [c EXCEPT !.auth_result = "invalid_key"]
      OBVIOUS
    <2>2. PICK new : new = [base EXCEPT !.verdict = 403]
      OBVIOUS
    <2>3. pc' = [pc EXCEPT ![r] = "answered"] /\ ctx' = [ctx EXCEPT ![r] = new]
      BY <1>6, <2>1, <2>2, Zenon DEF respond_json, Goto
    <2>4. /\ base \in Context /\ base.auth_result = "invalid_key"
          /\ base.counted_active = c.counted_active
          /\ SameKey(c, base) /\ SameRoute(c, base)
      BY <1>3, <2>1, SetAuthResult
    <2>5. /\ new \in Context /\ new.verdict = 403 /\ new.auth_result = "invalid_key"
          /\ new.counted_active = c.counted_active
          /\ SameKey(base, new) /\ SameRoute(base, new)
      BY <2>2, <2>4, SetVerdict
    <2>6. ContextFits("answered", new)
      BY <1>3, <1>4, <2>4, <2>5 DEF ContextFits, Unread, Authorized, Sent, SameKey, SameRoute
    <2>7. /\ KeyWasValid(base, span[r]) /\ RouteWasOffered(base, span[r])
          /\ KeyWasValid(new, span[r]) /\ RouteWasOffered(new, span[r])
      BY <1>3, <2>4, <2>5, KeyStaysValid, RouteStaysOffered
    <2>8. FallsBackUnmapped("answered", new, span[r])
      BY DEF FallsBackUnmapped
    <2> QED BY <1>1, <1>2, <1>4, <1>6, <2>3, <2>5, <2>6, <2>7, <2>8, OneIsTurnedAway
  <1>7. CASE /\ id # None
             /\ Goto(r, "known", [c EXCEPT !.api_key_id = id])
             /\ UNCHANGED auth_failures_total
    <2>1. PICK new : new = [c EXCEPT !.api_key_id = id]
      OBVIOUS
    <2>2. pc' = [pc EXCEPT ![r] = "known"] /\ ctx' = [ctx EXCEPT ![r] = new]
      BY <1>7, <2>1, Zenon DEF Goto
    <2>3. id \in Keys
      BY <1>5, <1>7
    <2>4. /\ new \in Context /\ new.api_key_id = id /\ new.key_hash = c.key_hash
          /\ SameRoute(c, new) /\ SameOutcome(c, new)
      BY <1>3, <2>1, <2>3, SetApiKeyId
    <2>5. ContextFits("known", new)
      BY <1>3, <1>4, <1>7, <2>4 DEF ContextFits, Unread, Authorized, Sent, SameRoute, SameOutcome
    <2>6. KeyWasValid(new, span[r]) /\ FallsBackUnmapped("known", new, span[r])
      BY <1>3, <1>4, <2>4 DEF KeyWasValid, FallsBackUnmapped
    <2>7. RouteWasOffered(new, span[r])
      BY <1>3, <2>4, RouteStaysOffered
    <2>8. UNCHANGED <<cache, metrics, input, audited, span>>
      BY <1>1, <1>7 DEF metrics
    <2>9. /\ new.verdict \in {401, 403} <=> c.verdict \in {401, 403}
          /\ new.counted_active = c.counted_active
          /\ pc[r] \notin {"none", "logged", "lost"}
          /\ "known" \in Labels \ {"none", "arrived", "logged"}
      BY <1>1, <2>4 DEF Labels, SameOutcome
    <2> QED BY <1>2, <2>2, <2>4, <2>5, <2>6, <2>7, <2>8, <2>9, OneMovesQuietly
  <1> QED BY <1>6, <1>7 DEF LookUpKey

\* A step that sets only fields no property is about.
LEMMA MovesOn ==
    ASSUME IInv, NEW r \in Requests, NEW new \in Context,
           NEW label \in {"admitted", "limited", "reading_body"},
           pc[r] \in {"known", "limited", "admitted"},
           SameKey(ctx[r], new), SameRoute(ctx[r], new), SameOutcome(ctx[r], new),
           pc' = [pc EXCEPT ![r] = label], ctx' = [ctx EXCEPT ![r] = new],
           UNCHANGED <<cache, metrics, input, audited, span>>, SharedOK'
    PROVE  IInv'
PROOF
  <1>1. ContextFits(label, new)
    BY OfRequest DEF ContextFits, Unread, Authorized, Sent, SameKey, SameRoute, SameOutcome
  <1>2. KeyWasValid(new, span[r]) /\ RouteWasOffered(new, span[r])
    BY OfRequest, KeyStaysValid, RouteStaysOffered
  <1>3. FallsBackUnmapped(label, new, span[r])
    BY DEF FallsBackUnmapped
  <1>4. /\ new.verdict \in {401, 403} <=> ctx[r].verdict \in {401, 403}
        /\ new.counted_active = ctx[r].counted_active
        /\ pc[r] \notin {"none", "logged", "lost"}
        /\ label \in Labels \ {"none", "arrived", "logged"}
    BY DEF Labels, SameOutcome
  <1> QED BY <1>1, <1>2, <1>3, <1>4, OneMovesQuietly

LEMMA LookUpLimitsKeeps ==
    ASSUME IInv, NEW r \in Requests, LookUpLimits(r) PROVE IInv'
PROOF
  <1> DEFINE limit == cache.rate_limits[ctx[r].key_hash]
             label == IF limit = None THEN "admitted" ELSE "limited"
  <1>1. PICK new : new = [ctx[r] EXCEPT !.limit = limit]
    OBVIOUS
  <1>2. /\ pc[r] = "known"
        /\ pc' = [pc EXCEPT ![r] = label] /\ ctx' = [ctx EXCEPT ![r] = new]
    BY <1>1, Zenon DEF LookUpLimits, Goto
  <1>3. UNCHANGED <<cache, metrics, input, audited, span>> /\ SharedOK'
    BY DEF LookUpLimits, shared, IInv, SharedOK
  <1>4. limit \in Nat \cup {None}
    BY <1>2, OfRequest DEF ContextFits, Unread, Authorized, KeyWasValid, IsCache
  <1>5. /\ new \in Context
        /\ SameKey(ctx[r], new) /\ SameRoute(ctx[r], new) /\ SameOutcome(ctx[r], new)
    <2> HIDE DEF limit
    <2> QED BY <1>1, <1>4, OfRequest, SetOther
  <1> HIDE DEF limit
  <1> QED BY <1>2, <1>3, <1>5, MovesOn

LEMMA check_rate_limitKeeps ==
    ASSUME IInv, NEW r \in Requests, check_rate_limit(r) PROVE IInv'
PROOF
  <1> DEFINE c == ctx[r]
  <1>1. pc[r] = "limited"
    BY DEF check_rate_limit
  <1>2. UNCHANGED <<cache, metrics, input, audited, span>> /\ SharedOK'
    BY DEF check_rate_limit, shared, IInv, SharedOK
  <1>3. c \in Context
    BY OfRequest
  <1>4. CASE respond_json(r, 429, [c EXCEPT !.rejected = TRUE, !.compared = TRUE])
    <2>1. PICK first : first = [c EXCEPT !.rejected = TRUE]
      OBVIOUS
    <2>2. PICK base : base = [first EXCEPT !.compared = TRUE]
      OBVIOUS
    <2>3. base = [c EXCEPT !.rejected = TRUE, !.compared = TRUE]
      BY <2>1, <2>2
    <2>4. first \in Context /\ SameKey(c, first) /\ SameRoute(c, first) /\ SameOutcome(c, first)
      BY <1>3, <2>1, SetOther
    <2>5. /\ base \in Context
          /\ SameKey(first, base) /\ SameRoute(first, base) /\ SameOutcome(first, base)
      BY <2>2, <2>4, SetOther
    <2>6. SameKey(c, base) /\ SameRoute(c, base) /\ SameOutcome(c, base)
      BY <2>4, <2>5 DEF SameKey, SameRoute, SameOutcome
    <2>7. respond_json(r, 429, base)
      BY <1>4, <2>3, Zenon
    <2>8. 429 \in Nat \ {401, 403}
      OBVIOUS
    <2> QED BY <1>1, <1>2, <2>5, <2>6, <2>7, <2>8, AnswerKeeps
  <1>5. CASE Goto(r, "admitted", [c EXCEPT !.compared = TRUE])
    <2>1. PICK new : new = [c EXCEPT !.compared = TRUE]
      OBVIOUS
    <2>2. new \in Context /\ SameKey(c, new) /\ SameRoute(c, new) /\ SameOutcome(c, new)
      BY <1>3, <2>1, SetOther
    <2>3. pc' = [pc EXCEPT ![r] = "admitted"] /\ ctx' = [ctx EXCEPT ![r] = new]
      BY <1>5, <2>1, Zenon DEF Goto
    <2> QED BY <1>1, <1>2, <2>2, <2>3, MovesOn
  <1> QED BY <1>4, <1>5, Zenon DEF check_rate_limit

LEMMA record_rate_limitKeeps ==
    ASSUME IInv, NEW r \in Requests, record_rate_limit(r) PROVE IInv'
PROOF
  <1>1. /\ pc[r] = "admitted" /\ pc' = [pc EXCEPT ![r] = "reading_body"]
        /\ UNCHANGED <<cache, metrics, input, audited, span>> /\ ctx' = ctx
        /\ window' = [window EXCEPT ![ctx[r].key_hash] = @ + 1] /\ rr_counters' = rr_counters
    BY DEF record_rate_limit
  <1>2. SharedOK'
    <2>1. window \in [Hashes -> Nat]
      BY DEF IInv, SharedOK
    <2>2. ctx[r].key_hash \in Hashes
      BY <1>1, OfRequest DEF ContextFits, Authorized, KeyWasValid
    <2>3. window' \in [Hashes -> Nat]
      BY <1>1, <2>1, <2>2
    <2> QED BY <1>1, <2>3 DEF IInv, SharedOK
  <1>3. ctx' = [ctx EXCEPT ![r] = ctx[r]] /\ ctx[r] \in Context
    BY <1>1 DEF IInv, RequestsTyped
  <1>4. SameKey(ctx[r], ctx[r]) /\ SameRoute(ctx[r], ctx[r]) /\ SameOutcome(ctx[r], ctx[r])
    BY DEF SameKey, SameRoute, SameOutcome
  <1> QED BY <1>1, <1>2, <1>3, <1>4, MovesOn

LEMMA ReadBodyKeeps ==
    ASSUME IInv, NEW r \in Requests, ReadBody(r) PROVE IInv'
PROOF
  <1> DEFINE c == ctx[r]
             body == input[r].body
  <1>1. pc[r] = "reading_body"
    BY DEF ReadBody
  <1>2. UNCHANGED <<cache, metrics, input, audited, span>> /\ SharedOK'
    BY DEF ReadBody, shared, IInv, SharedOK
  <1>3. /\ c \in Context /\ ContextFits("reading_body", c)
        /\ KeyWasValid(c, span[r]) /\ RouteWasOffered(c, span[r])
    BY <1>1, OfRequest
  <1>4. SameKey(c, c) /\ SameRoute(c, c) /\ SameOutcome(c, c)
    BY DEF SameKey, SameRoute, SameOutcome
  <1>5. pc[r] \notin {"none", "logged", "lost"}
    BY <1>1
  <1>6. CASE respond_json(r, 413, c)
    <2>1. 413 \in Nat \ {401, 403}
      OBVIOUS
    <2> QED BY <1>1, <1>2, <1>3, <1>4, <1>6, <2>1, AnswerKeeps
  <1>7. CASE body \in Models /\ Goto(r, "has_model", [c EXCEPT !.model = body])
    <2>1. PICK new : new = [c EXCEPT !.model = body]
      OBVIOUS
    <2>2. pc' = [pc EXCEPT ![r] = "has_model"] /\ ctx' = [ctx EXCEPT ![r] = new]
      BY <1>7, <2>1, Zenon DEF Goto
    <2>3. /\ new \in Context /\ new.model = body /\ new.upstream_model = c.upstream_model
          /\ SameKey(c, new) /\ SameOutcome(c, new)
      BY <1>3, <1>7, <2>1, SetModel
    <2>4. body # None
      BY <1>7, GatewayAssumption
    <2>5. ContextFits("has_model", new)
      BY <1>3, <2>3, <2>4 DEF ContextFits, Unread, Authorized, Sent, SameKey, SameOutcome
    <2>6. KeyWasValid(new, span[r])
      BY <1>3, <2>3, KeyStaysValid
    <2>7. new.upstream_model = None
      BY <1>3, <2>3 DEF ContextFits, Unread, Sent
    <2>8. RouteWasOffered(new, span[r]) /\ FallsBackUnmapped("has_model", new, span[r])
      BY <2>7 DEF RouteWasOffered, FallsBackUnmapped
    <2>9. /\ new.verdict \in {401, 403} <=> c.verdict \in {401, 403}
          /\ new.counted_active = c.counted_active
          /\ "has_model" \in Labels \ {"none", "arrived", "logged"}
      BY <2>3 DEF Labels, SameOutcome
    <2> QED BY <1>2, <1>5, <2>2, <2>3, <2>5, <2>6, <2>8, <2>9, OneMovesQuietly
  <1>8. CASE Goto(r, "no_route", c)
    <2>1. pc' = [pc EXCEPT ![r] = "no_route"] /\ ctx' = [ctx EXCEPT ![r] = c]
      BY <1>8, Zenon DEF Goto
    <2>2. ContextFits("no_route", c)
      BY <1>3 DEF ContextFits, Unread, Authorized, Sent
    <2>3. FallsBackUnmapped("no_route", c, span[r])
      BY <1>3 DEF FallsBackUnmapped, ContextFits, Unread
    <2>4. "no_route" \in Labels \ {"none", "arrived", "logged"}
      BY DEF Labels
    <2> QED BY <1>2, <1>3, <1>5, <2>1, <2>2, <2>3, <2>4, OneMovesQuietly
  <1> QED BY <1>6, <1>7, <1>8, Zenon DEF ReadBody

\* A request that gets a route, from the cache of the moment.
LEMMA GetsRoute ==
    ASSUME IInv, NEW r \in Requests, pc[r] \in {"has_model", "no_route"},
           NEW u \in ProviderModels, NEW m \in Models, Offers(cache, m, u),
           pc[r] = "has_model" => m = ctx[r].model,
           Goto(r, "has_route", [ctx[r] EXCEPT !.upstream_model = u]),
           UNCHANGED <<cache, metrics, input, audited, span>>, SharedOK'
    PROVE  IInv'
PROOF
  <1> DEFINE c == ctx[r]
  <1>1. PICK new : new = [c EXCEPT !.upstream_model = u]
    OBVIOUS
  <1>2. pc' = [pc EXCEPT ![r] = "has_route"] /\ ctx' = [ctx EXCEPT ![r] = new]
    BY <1>1, Zenon DEF Goto
  <1>3. /\ c \in Context /\ ContextFits(pc[r], c) /\ KeyWasValid(c, span[r])
        /\ FallsBackUnmapped(pc[r], c, span[r]) /\ cache \in span[r]
    BY OfRequest DEF Live
  <1>4. /\ new \in Context /\ new.upstream_model = u /\ new.model = c.model
        /\ SameKey(c, new) /\ SameOutcome(c, new)
    BY <1>1, <1>3, SetUpstreamModel
  <1>5. u # None
    BY GatewayAssumption
  <1>6. ContextFits("has_route", new)
    BY <1>3, <1>4, <1>5 DEF ContextFits, Unread, Authorized, Sent, SameKey, SameOutcome
  <1>7. KeyWasValid(new, span[r])
    BY <1>3, <1>4, KeyStaysValid
  <1>8. RouteWasOffered(new, span[r])
    <2>1. \E cc \in span[r], mm \in Models : Offers(cc, mm, u)
      BY <1>3
    <2>2. CASE pc[r] = "has_model"
      <3>1. \E cc \in span[r] : Offers(cc, c.model, u)
        BY <1>3, <2>2
      <3> QED BY <1>4, <2>1, <3>1 DEF RouteWasOffered
    <2>3. CASE pc[r] = "no_route"
      <3>1. c.model # None => WasUnmapped(new, span[r])
        BY <1>3, <1>4, <2>3 DEF FallsBackUnmapped, WasUnmapped
      <3> QED BY <1>4, <2>1, <3>1 DEF RouteWasOffered
    <2> QED BY <2>2, <2>3
  <1>9. /\ FallsBackUnmapped("has_route", new, span[r])
        /\ new.verdict \in {401, 403} <=> c.verdict \in {401, 403}
        /\ new.counted_active = c.counted_active
        /\ pc[r] \notin {"none", "logged", "lost"}
        /\ "has_route" \in Labels \ {"none", "arrived", "logged"}
    BY <1>4 DEF FallsBackUnmapped, Labels, SameOutcome
  <1> QED BY <1>2, <1>4, <1>6, <1>7, <1>8, <1>9, OneMovesQuietly

\* The routes a cache holds.
LEMMA RouteOfCache ==
    ASSUME IInv, NEW m \in Models, NEW i \in DOMAIN cache.model_routes[m].routes
    PROVE  /\ cache.model_routes[m].routes[i].provider_model \in ProviderModels
           /\ Offers(cache, m, cache.model_routes[m].routes[i].provider_model)
PROOF
  <1>1. cache.model_routes[m].routes \in Seq(RouteCandidate)
    BY DEF IInv, SharedOK, IsCache, ModelTarget
  <1>2. cache.model_routes[m].routes[i] \in RouteCandidate
    BY <1>1
  <1> QED BY <1>2 DEF RouteCandidate, Offers

LEMMA select_routeKeeps ==
    ASSUME IInv, NEW r \in Requests, select_route(r) PROVE IInv'
PROOF
  <1> DEFINE c == ctx[r]
             m == c.model
             target == cache.model_routes[m]
  <1>1. pc[r] = "has_model" /\ UNCHANGED <<cache, window, metrics, input, audited, span>>
    BY DEF select_route
  <1>2. /\ c \in Context /\ ContextFits("has_model", c) /\ cache \in span[r] /\ IsCache(cache)
        /\ KeyWasValid(c, span[r]) /\ RouteWasOffered(c, span[r])
    BY <1>1, OfRequest DEF Live
  <1>3. m \in Models
    BY <1>2 DEF ContextFits, Context
  <1>4. target.strategy \in Strategies /\ target.routes \in Seq(RouteCandidate)
    BY <1>2, <1>3 DEF IsCache, ModelTarget
  <1>5. CASE /\ target.routes = <<>>
             /\ Goto(r, "no_route", c)
             /\ UNCHANGED rr_counters
    <2>1. pc' = [pc EXCEPT ![r] = "no_route"] /\ ctx' = [ctx EXCEPT ![r] = c]
      BY <1>5, Zenon DEF Goto
    <2>2. SharedOK'
      BY <1>1, <1>5 DEF IInv, SharedOK
    <2>3. ContextFits("no_route", c)
      BY <1>2 DEF ContextFits, Unread, Authorized, Sent
    <2>4. FallsBackUnmapped("no_route", c, span[r])
      BY <1>2, <1>5 DEF FallsBackUnmapped, WasUnmapped
    <2>5. /\ "no_route" \in Labels \ {"none", "arrived", "logged"}
          /\ pc[r] \notin {"none", "logged", "lost"}
      BY <1>1 DEF Labels
    <2> QED BY <1>1, <1>2, <2>1, <2>2, <2>3, <2>4, <2>5, OneMovesQuietly
  <1>6. CASE /\ target.routes # <<>>
             /\ \E dice \in 0..TotalWeight(target.routes) - 1 :
                   LET i == SelectedIndex(target, rr_counters[m], dice)
                   IN  Goto(r, "has_route", [c EXCEPT !.upstream_model = target.routes[i].provider_model])
             /\ rr_counters' =
                   [rr_counters EXCEPT ![m] = NextCursor(target, @, Cardinality(Requests) + 1)]
    <2>1. rr_counters \in [Models -> Nat]
      BY DEF IInv, SharedOK
    <2>2. NextCursor(target, rr_counters[m], Cardinality(Requests) + 1) \in Nat
      <3>1. Cardinality(Requests) + 1 \in Nat \ {0} /\ rr_counters[m] \in Nat
        BY <1>3, <2>1, GatewayAssumption, FS_CardinalityType
      <3>2. \A a \in Nat, n \in Nat \ {0} : (a + 1) % n \in Nat
        BY RemainderType
      <3>3. (rr_counters[m] + 1) % (Cardinality(Requests) + 1) \in Nat
        BY <3>1, <3>2, Zenon
      <3> QED BY <3>1, <3>3, Zenon DEF NextCursor
    <2>3. rr_counters' \in [Models -> Nat]
      <3> DEFINE next == NextCursor(target, rr_counters[m], Cardinality(Requests) + 1)
      <3>1. rr_counters' = [rr_counters EXCEPT ![m] = next]
        BY <1>6
      <3>2. next \in Nat
        BY <2>2
      <3> HIDE DEF next
      <3> QED BY <1>3, <2>1, <3>1, <3>2
    <2>4. SharedOK'
      BY <1>1, <2>3 DEF IInv, SharedOK
    <2>5. PICK dice \in 0..TotalWeight(target.routes) - 1 :
              Goto(r, "has_route",
                   [c EXCEPT !.upstream_model =
                       target.routes[SelectedIndex(target, rr_counters[m], dice)].provider_model])
      BY <1>6, Zenon
    <2> DEFINE i == SelectedIndex(target, rr_counters[m], dice)
    <2>6. i \in DOMAIN target.routes
      BY <1>3, <1>4, <1>6, <2>1, SelectedIndexInDomain
    <2> HIDE DEF i
    <2>7. /\ target.routes[i].provider_model \in ProviderModels
          /\ Offers(cache, m, target.routes[i].provider_model)
      BY <1>3, <2>6, RouteOfCache
    <2>8. PICK u : u = target.routes[i].provider_model
      OBVIOUS
    <2>9. Goto(r, "has_route", [c EXCEPT !.upstream_model = u])
      BY <2>5, <2>8, Zenon DEF i
    <2> QED BY <1>1, <1>3, <2>4, <2>7, <2>8, <2>9, GetsRoute
  <1> QED BY <1>5, <1>6, Zenon DEF select_route

LEMMA FallbackKeeps ==
    ASSUME IInv, NEW r \in Requests, Fallback(r) PROVE IInv'
PROOF
  <1> DEFINE routed == {m \in Models : cache.model_routes[m].routes # <<>>}
  <1>1. pc[r] = "no_route"
    BY DEF Fallback
  <1>2. UNCHANGED <<cache, metrics, input, audited, span>> /\ SharedOK'
    BY DEF Fallback, shared, IInv, SharedOK
  <1>3. CASE respond_json(r, 503, ctx[r])
    <2>1. 503 \in Nat \ {401, 403} /\ ctx[r] \in Context
      BY OfRequest
    <2>2. SameKey(ctx[r], ctx[r]) /\ SameRoute(ctx[r], ctx[r]) /\ SameOutcome(ctx[r], ctx[r])
      BY DEF SameKey, SameRoute, SameOutcome
    <2> QED BY <1>1, <1>2, <1>3, <2>1, <2>2, AnswerKeeps
  <1>4. CASE \E m \in routed :
                 Goto(r, "has_route",
                      [ctx[r] EXCEPT !.upstream_model = cache.model_routes[m].routes[1].provider_model])
    <2>1. PICK m \in routed :
              Goto(r, "has_route",
                   [ctx[r] EXCEPT !.upstream_model = cache.model_routes[m].routes[1].provider_model])
      BY <1>4, Zenon
    <2>2. m \in Models /\ cache.model_routes[m].routes # <<>>
      OBVIOUS
    <2>3. 1 \in DOMAIN cache.model_routes[m].routes
      <3>1. cache.model_routes[m].routes \in Seq(RouteCandidate)
        BY <2>2 DEF IInv, SharedOK, IsCache, ModelTarget
      <3> QED BY <2>2, <3>1, EmptySeq
    <2>4. PICK u : u = cache.model_routes[m].routes[1].provider_model
      OBVIOUS
    <2>5. u \in ProviderModels /\ Offers(cache, m, u)
      BY <2>2, <2>3, <2>4, RouteOfCache
    <2>6. Goto(r, "has_route", [ctx[r] EXCEPT !.upstream_model = u])
      BY <2>1, <2>4, Zenon
    <2> QED BY <1>1, <1>2, <2>2, <2>5, <2>6, GetsRoute
  <1> QED BY <1>3, <1>4, Zenon DEF Fallback

\* The request is counted in the gauge as it goes upstream.
LEMMA ForwardKeeps ==
    ASSUME IInv, NEW r \in Requests, Forward(r) PROVE IInv'
PROOF
  <1> DEFINE c == ctx[r]
  <1>1. PICK first : first = [c EXCEPT !.auth_result = "ok"]
    OBVIOUS
  <1>2. PICK new : new = [first EXCEPT !.counted_active = TRUE]
    OBVIOUS
  <1>3. new = [c EXCEPT !.auth_result = "ok", !.counted_active = TRUE]
    BY <1>1, <1>2
  <1>4. /\ pc[r] = "has_route" /\ active_requests' = active_requests + 1
        /\ UNCHANGED <<requests_total, auth_failures_total, upstream_errors_total>>
        /\ UNCHANGED <<cache, input, audited, span>>
    BY DEF Forward, shared
  <1>5. pc' = [pc EXCEPT ![r] = "forwarded"] /\ ctx' = [ctx EXCEPT ![r] = new]
    BY <1>3, Zenon DEF Forward, Goto
  <1>6. SharedOK'
    BY DEF Forward, shared, IInv, SharedOK
  <1>7. /\ c \in Context /\ ContextFits("has_route", c)
        /\ KeyWasValid(c, span[r]) /\ RouteWasOffered(c, span[r])
    BY <1>4, OfRequest
  <1>8. /\ first \in Context /\ first.auth_result = "ok" /\ first.verdict = c.verdict
        /\ SameKey(c, first) /\ SameRoute(c, first)
    BY <1>1, <1>7, SetAuthResult
  <1>9. /\ new \in Context /\ new.counted_active = TRUE /\ new.auth_result = "ok"
        /\ new.verdict = c.verdict /\ SameKey(first, new) /\ SameRoute(first, new)
    BY <1>2, <1>8, SetCountedActive
  <1>10. ContextFits("forwarded", new)
    BY <1>7, <1>8, <1>9 DEF ContextFits, Unread, Authorized, Sent, SameKey, SameRoute
  <1>11. /\ KeyWasValid(first, span[r]) /\ RouteWasOffered(first, span[r])
         /\ KeyWasValid(new, span[r]) /\ RouteWasOffered(new, span[r])
    BY <1>7, <1>8, <1>9, KeyStaysValid, RouteStaysOffered
  <1>12. FallsBackUnmapped("forwarded", new, span[r])
    BY DEF FallsBackUnmapped
  <1>13. RequestsTyped' /\ \A q \in Requests : RequestFits(q)'
    <2>1. "forwarded" \in Labels \ {"none", "arrived"} /\ pc[r] \notin {"none", "logged", "lost"}
      BY <1>4 DEF Labels
    <2> QED BY <1>4, <1>5, <1>9, <1>10, <1>11, <1>12, <2>1, OneMoves
  <1>14. CountersOK'
    <2>1. pc \in [Requests -> Labels] /\ ctx \in [Requests -> Context] /\ CountersOK
      BY DEF IInv, RequestsTyped
    <2>2. pc'[r] = "forwarded" /\ ctx'[r] = new
      BY <1>5, <2>1
    <2>3. \A q \in Requests \ {r} : pc'[q] = pc[q] /\ ctx'[q] = ctx[q]
      BY <1>5, <2>1
    <2>4. c.counted_active # TRUE
      BY <1>7 DEF ContextFits, Sent
    <2>5. /\ InFlight(r)' /\ ~InFlight(r)
          /\ TurnedAway(r)' <=> TurnedAway(r)
          /\ ~Logged(r)' /\ ~Logged(r)
      <3>1. Forwarded(r)' /\ ~Forwarded(r)
        BY <1>7, <1>9, <2>2, <2>4 DEF Forwarded, Context
      <3> QED BY <1>4, <1>9, <2>2, <3>1 DEF InFlight, TurnedAway, Logged
    <2>6. active_requests \in Nat /\ auth_failures_total \in Nat /\ requests_total \in Nat
      BY <2>1, CountersAreNatural
    <2>7. upstream_errors_total \in Nat /\ upstream_errors_total <= requests_total
      BY <2>1 DEF CountersOK
    <2> QED BY <1>4, <2>1, <2>3, <2>5, <2>6, <2>7, CountersMove
  <1> QED BY <1>6, <1>13, <1>14 DEF IInv

\* The panic leaves everything as it was, the gauge included.
LEMMA BodyFilterPanicsKeeps ==
    ASSUME IInv, NEW r \in Requests, BodyFilterPanics(r) PROVE IInv'
PROOF
  <1> DEFINE c == ctx[r]
  <1>1. /\ pc[r] = "forwarded" /\ pc' = [pc EXCEPT ![r] = "lost"] /\ ctx' = ctx
        /\ UNCHANGED <<cache, metrics, input, audited, span>>
    BY DEF BodyFilterPanics, shared
  <1>2. SharedOK'
    BY DEF BodyFilterPanics, shared, IInv, SharedOK
  <1>3. ctx' = [ctx EXCEPT ![r] = c] /\ c \in Context
    BY <1>1 DEF IInv, RequestsTyped
  <1>4. ContextFits("lost", c)
    BY <1>1, OfRequest DEF ContextFits, Unread, Authorized, Sent
  <1>5. KeyWasValid(c, span[r]) /\ RouteWasOffered(c, span[r])
    BY OfRequest
  <1>6. /\ FallsBackUnmapped("lost", c, span[r])
        /\ "lost" \in Labels \ {"none", "arrived", "logged"}
        /\ pc[r] \notin {"none", "logged", "lost"}
    BY <1>1 DEF FallsBackUnmapped, Labels
  <1> QED BY <1>1, <1>2, <1>3, <1>4, <1>5, <1>6, OneMovesQuietly

\* The row is built from the context, and the gauge given back if it was taken.
LEMMA loggingKeeps ==
    ASSUME IInv, NEW r \in Requests, logging(r) PROVE IInv'
PROOF
  <1> DEFINE c == ctx[r]
             row == [auth_result |-> c.auth_result, api_key_id |-> c.api_key_id,
                     provider_model |-> c.upstream_model]
  <1>1. /\ pc[r] \in {"answered", "forwarded"}
        /\ requests_total' = requests_total + 1
        /\ active_requests' = active_requests - Release(r)
        /\ audited' = IF c.audit_enabled THEN [audited EXCEPT ![r] = row] ELSE audited
        /\ pc' = [pc EXCEPT ![r] = "logged"]
        /\ UNCHANGED <<cache, auth_failures_total, input, ctx, span>>
    BY DEF logging, shared
  <1>2. upstream_errors_total' = upstream_errors_total + 1 \/ upstream_errors_total' = upstream_errors_total
    <2>1. upstream_errors_total \in Nat
      BY DEF IInv, CountersOK
    <2>2. PICK failed \in {pc[r] = "forwarded", TRUE} :
              upstream_errors_total' = upstream_errors_total + (IF failed THEN 1 ELSE 0)
      BY DEF logging
    <2> QED BY <2>1, <2>2
  <1>3. SharedOK'
    BY DEF logging, shared, IInv, SharedOK
  <1>4. /\ pc \in [Requests -> Labels] /\ ctx \in [Requests -> Context] /\ CountersOK
        /\ audited \in [Requests -> [auth_result : {"missing", "invalid_key", "ok"},
                                     api_key_id : Keys \cup {None},
                                     provider_model : ProviderModels \cup {None}] \cup {None}]
    BY DEF IInv, RequestsTyped
  <1>5. c \in Context /\ ContextFits(pc[r], c) /\ KeyWasValid(c, span[r]) /\ RouteWasOffered(c, span[r])
    BY OfRequest
  <1>6. row \in [auth_result : {"missing", "invalid_key", "ok"}, api_key_id : Keys \cup {None},
                 provider_model : ProviderModels \cup {None}]
    BY <1>5 DEF Context
  <1>7. AuditFits("logged", c, row)
    BY DEF AuditFits
  <1> HIDE DEF row
  <1>8. \A q \in Requests \ {r} : pc'[q] = pc[q] /\ ctx'[q] = ctx[q] /\ audited'[q] = audited[q]
    BY <1>1, <1>4
  <1>9. pc'[r] = "logged" /\ ctx'[r] = c /\ (audited'[r] = row \/ audited'[r] = audited[r])
    BY <1>1, <1>4
  <1>10. RequestsTyped'
    <2>1. pc' \in [Requests -> Labels]
      BY <1>1, <1>4 DEF Labels
    <2>2. audited' \in [Requests -> [auth_result : {"missing", "invalid_key", "ok"},
                                     api_key_id : Keys \cup {None},
                                     provider_model : ProviderModels \cup {None}] \cup {None}]
      BY <1>1, <1>4, <1>6
    <2> QED BY <1>1, <2>1, <2>2 DEF IInv, RequestsTyped
  <1>11. ASSUME NEW q \in Requests PROVE RequestFits(q)'
    <2>1. RequestFits(q)
      BY DEF IInv
    <2>2. CASE q = r
      <3>1. ContextFits("logged", c)
        BY <1>1, <1>5 DEF ContextFits, Unread, Authorized, Sent
      <3>2. AuditFits("logged", c, audited[r])
        BY <2>1, <2>2 DEF RequestFits, AuditFits
      <3>3. AuditFits("logged", c, audited'[r])
        BY <1>7, <1>9, <3>2
      <3>4. FallsBackUnmapped("logged", c, span[r])
        BY DEF FallsBackUnmapped
      <3>5. span'[r] = span[r]
        BY <1>1
      <3> QED BY <1>5, <1>9, <2>2, <3>1, <3>3, <3>4, <3>5 DEF RequestFits, Live
    <2>3. CASE q # r
      <3>1. /\ pc'[q] = pc[q] /\ ctx'[q] = ctx[q] /\ audited'[q] = audited[q]
            /\ span'[q] = span[q] /\ cache' = cache
        BY <1>1, <1>8, <2>3
      <3> QED BY <2>1, <3>1 DEF RequestFits, Live
    <2> QED BY <2>2, <2>3
  <1>12. CountersOK'
    <2>1. active_requests \in Nat /\ auth_failures_total \in Nat /\ requests_total \in Nat
      BY <1>4, CountersAreNatural
    <2>2. /\ ~InFlight(r)' /\ (InFlight(r) <=> Forwarded(r))
          /\ TurnedAway(r)' <=> TurnedAway(r)
          /\ Logged(r)' /\ ~Logged(r)
      BY <1>1, <1>9 DEF InFlight, TurnedAway, Logged
    <2>3. Release(r) = IF Forwarded(r) THEN 1 ELSE 0
      BY DEF Release, Forwarded
    <2>4. /\ active_requests' = active_requests + (IF InFlight(r)' THEN 1 ELSE 0)
                                                - (IF InFlight(r) THEN 1 ELSE 0)
          /\ auth_failures_total' = auth_failures_total + (IF TurnedAway(r)' THEN 1 ELSE 0)
                                                        - (IF TurnedAway(r) THEN 1 ELSE 0)
          /\ requests_total' = requests_total + (IF Logged(r)' THEN 1 ELSE 0)
                                              - (IF Logged(r) THEN 1 ELSE 0)
      BY <1>1, <2>1, <2>2, <2>3
    <2>5. upstream_errors_total' \in Nat /\ upstream_errors_total' <= requests_total'
      BY <1>1, <1>2, <1>4, <2>1 DEF CountersOK
    <2> QED BY <1>4, <1>8, <2>4, <2>5, CountersMove
  <1> QED BY <1>3, <1>10, <1>11, <1>12 DEF IInv

LEMMA ArriveKeeps ==
    ASSUME IInv, NEW r \in Requests, Arrive(r) PROVE IInv'
PROOF
  <1>1. /\ pc[r] = "none" /\ pc' = [pc EXCEPT ![r] = "arrived"]
        /\ span' = [span EXCEPT ![r] = {cache}]
        /\ UNCHANGED <<cache, window, rr_counters, input, ctx, audited>> /\ UNCHANGED metrics
    BY DEF Arrive, shared
  <1>2. pc \in [Requests -> Labels] /\ DOMAIN span = Requests /\ CountersOK
    BY DEF IInv, RequestsTyped
  <1>3. SharedOK'
    BY <1>1 DEF IInv, SharedOK
  <1>4. RequestsTyped'
    <2>1. pc' \in [Requests -> Labels] /\ DOMAIN span' = Requests
      BY <1>1, <1>2 DEF Labels
    <2> QED BY <1>1, <2>1 DEF IInv, RequestsTyped
  <1>5. ASSUME NEW q \in Requests PROVE RequestFits(q)'
    <2>1. RequestFits(q)
      BY DEF IInv
    <2>2. CASE q = r
      <3>1. ctx[r] = new_ctx /\ ContextFits("none", ctx[r])
        BY <1>1, OfRequest DEF ContextFits
      <3>2. ContextFits("arrived", ctx[r])
        BY <3>1 DEF ContextFits, Unread, Authorized, Sent
      <3>3. ctx[r].api_key_id = None /\ ctx[r].upstream_model = None
        BY <3>1 DEF new_ctx
      <3>4. pc'[r] = "arrived" /\ span'[r] = {cache} /\ cache' = cache /\ ctx'[r] = ctx[r]
        BY <1>1, <1>2
      <3>5. AuditFits("arrived", ctx[r], audited'[r])
        BY <1>1, <2>1, <2>2 DEF RequestFits, AuditFits
      <3> QED BY <2>2, <3>2, <3>3, <3>4, <3>5
              DEF RequestFits, KeyWasValid, RouteWasOffered, FallsBackUnmapped
    <2>3. CASE q # r
      <3>1. /\ pc'[q] = pc[q] /\ ctx'[q] = ctx[q] /\ audited'[q] = audited[q]
            /\ span'[q] = span[q] /\ cache' = cache
        BY <1>1, <1>2, <2>3
      <3> QED BY <2>1, <3>1 DEF RequestFits, Live
    <2> QED BY <2>2, <2>3
  <1>6. CountersOK'
    <2>1. \A q \in Requests \ {r} : pc'[q] = pc[q] /\ ctx'[q] = ctx[q]
      BY <1>1, <1>2
    <2>2. ctx[r].counted_active # TRUE
      BY <1>1, OfRequest DEF ContextFits, Sent
    <2>3. /\ InFlight(r)' <=> InFlight(r)
          /\ TurnedAway(r)' <=> TurnedAway(r)
          /\ Logged(r)' <=> Logged(r)
      <3>1. pc'[r] = "arrived" /\ ctx'[r] = ctx[r]
        BY <1>1, <1>2
      <3> QED BY <1>1, <3>1 DEF InFlight, Forwarded, TurnedAway, Logged
    <2>4. active_requests \in Nat /\ auth_failures_total \in Nat /\ requests_total \in Nat
      BY <1>2, CountersAreNatural
    <2>5. /\ active_requests' = active_requests /\ auth_failures_total' = auth_failures_total
          /\ requests_total' = requests_total /\ upstream_errors_total' = upstream_errors_total
      BY <1>1 DEF metrics
    <2>6. upstream_errors_total \in Nat /\ upstream_errors_total <= requests_total
      BY <1>2 DEF CountersOK
    <2> QED BY <1>2, <2>1, <2>3, <2>4, <2>5, <2>6, CountersMove
  <1> QED BY <1>3, <1>4, <1>5, <1>6 DEF IInv

LEMMA EntryExpiresKeeps ==
    ASSUME IInv, NEW h \in Hashes, EntryExpires(h) PROVE IInv'
PROOF
  <1>1. /\ window[h] > 0 /\ window' = [window EXCEPT ![h] = @ - 1]
        /\ UNCHANGED <<cache, rr_counters, metrics, pc, input, ctx, audited, span>>
    BY DEF EntryExpires
  <1>2. SharedOK'
    <2>1. window \in [Hashes -> Nat]
      BY DEF IInv, SharedOK
    <2>2. window[h] - 1 \in Nat
      BY <1>1, <2>1
    <2>3. window' \in [Hashes -> Nat]
      BY <1>1, <2>1, <2>2
    <2> QED BY <1>1, <2>3 DEF IInv, SharedOK
  <1>3. RequestsTyped' /\ CountersOK'
    BY <1>1 DEF IInv, RequestsTyped, CountersOK, metrics, InFlight, Forwarded, TurnedAway, Logged
  <1>4. ASSUME NEW q \in Requests PROVE RequestFits(q)'
    <2>1. RequestFits(q)
      BY DEF IInv
    <2> QED BY <1>1, <2>1 DEF RequestFits, Live
  <1> QED BY <1>2, <1>3, <1>4 DEF IInv

\* A new cache joins the span of every request under way.
LEMMA ReplaceCacheKeeps ==
    ASSUME IInv, ReplaceCache PROVE IInv'
PROOF
  <1>1. /\ cache' \in Snapshots
        /\ span' = [r \in Requests |-> IF Live(r) THEN span[r] \cup {cache'} ELSE span[r]]
        /\ UNCHANGED <<window, rr_counters, metrics, pc, input, ctx, audited>>
    BY DEF ReplaceCache
  <1>2. SharedOK'
    <2>1. IsCache(cache')
      BY <1>1, GatewayAssumption DEF IsCache
    <2> QED BY <1>1, <2>1 DEF IInv, SharedOK
  <1>3. RequestsTyped' /\ CountersOK'
    BY <1>1 DEF IInv, RequestsTyped, CountersOK, metrics, InFlight, Forwarded, TurnedAway, Logged
  <1>4. ASSUME NEW q \in Requests PROVE RequestFits(q)'
    <2>1. RequestFits(q)
      BY DEF IInv
    <2>2. /\ span[q] \subseteq span'[q] /\ (Live(q) => cache' \in span'[q])
          /\ pc'[q] = pc[q] /\ ctx'[q] = ctx[q] /\ audited'[q] = audited[q]
      BY <1>1
    <2>3. KeyWasValid(ctx[q], span'[q])
      BY <2>1, <2>2 DEF RequestFits, KeyWasValid
    <2>4. WasUnmapped(ctx[q], span[q]) => WasUnmapped(ctx[q], span'[q])
      BY <2>2 DEF WasUnmapped
    <2>5. RouteWasOffered(ctx[q], span'[q])
      BY <2>1, <2>2, <2>4 DEF RequestFits, RouteWasOffered
    <2>6. FallsBackUnmapped(pc[q], ctx[q], span'[q])
      BY <2>1, <2>4 DEF RequestFits, FallsBackUnmapped
    <2> QED BY <2>1, <2>2, <2>3, <2>5, <2>6 DEF RequestFits, Live
  <1> QED BY <1>2, <1>3, <1>4 DEF IInv

LEMMA StepKeepsIInv == IInv /\ [Next]_vars => IInv'
PROOF
  <1> SUFFICES ASSUME IInv, [Next]_vars PROVE IInv'
    OBVIOUS
  <1>1. CASE ReplaceCache
    BY <1>1, ReplaceCacheKeeps
  <1>2. ASSUME NEW h \in Hashes, EntryExpires(h) PROVE IInv'
    BY <1>2, EntryExpiresKeeps
  <1>3. ASSUME NEW r \in Requests, Arrive(r) PROVE IInv'
    BY <1>3, ArriveKeeps
  <1>4. ASSUME NEW r \in Requests, HandleRequest(r) PROVE IInv'
    <2>1. CASE CheckHead(r)
      BY <2>1, CheckHeadKeeps
    <2>2. CASE LookUpKey(r)
      BY <2>2, LookUpKeyKeeps
    <2>3. CASE LookUpLimits(r)
      BY <2>3, LookUpLimitsKeeps
    <2>4. CASE check_rate_limit(r)
      BY <2>4, check_rate_limitKeeps
    <2>5. CASE record_rate_limit(r)
      BY <2>5, record_rate_limitKeeps
    <2>6. CASE ReadBody(r)
      BY <2>6, ReadBodyKeeps
    <2>7. CASE select_route(r)
      BY <2>7, select_routeKeeps
    <2>8. CASE Fallback(r)
      BY <2>8, FallbackKeeps
    <2>9. CASE Forward(r)
      BY <2>9, ForwardKeeps
    <2>10. CASE BodyFilterPanics(r)
      BY <2>10, BodyFilterPanicsKeeps
    <2>11. CASE UpstreamAnswers(r)
      BY <2>11, UpstreamAnswersKeeps
    <2>12. CASE logging(r)
      BY <2>12, loggingKeeps
    <2> QED BY <1>4, <2>1, <2>2, <2>3, <2>4, <2>5, <2>6, <2>7, <2>8, <2>9, <2>10, <2>11, <2>12
            DEF HandleRequest
  <1>5. CASE UNCHANGED vars
    <2>1. UNCHANGED <<cache, window, rr_counters, pc, input, ctx, audited, span>> /\ UNCHANGED metrics
      BY <1>5 DEF vars, shared
    <2>2. SharedOK' /\ RequestsTyped' /\ CountersOK'
      BY <2>1 DEF IInv, SharedOK, RequestsTyped, CountersOK, metrics, InFlight, Forwarded, TurnedAway, Logged
    <2>3. \A q \in Requests : RequestFits(q)'
      BY <2>1 DEF IInv, RequestFits, Live
    <2> QED BY <2>2, <2>3 DEF IInv
  <1> QED BY <1>1, <1>2, <1>3, <1>4, <1>5 DEF Next

LEMMA InvariantHolds == Spec => []IInv
PROOF
  BY InitIInv, StepKeepsIInv, PTL DEF Spec
-----------------------------------------------------------------------------
\* Cache, limiter, cursors and counters keep their types, the gauge among them
\* (it never goes below zero), and a key id is never known without its hash.
THEOREM TypeCorrect == Spec => []TypeOK
PROOF
  <1>1. IInv => TypeOK
    <2> SUFFICES ASSUME IInv PROVE TypeOK
      OBVIOUS
    <2>1. ASSUME NEW r \in Requests PROVE ctx[r].api_key_id # None => ctx[r].key_hash # None
      BY OfRequest, GatewayAssumption DEF KeyWasValid
    <2>2. active_requests \in Nat /\ {requests_total, auth_failures_total, upstream_errors_total} \subseteq Nat
      BY CountersAreNatural DEF IInv, CountersOK
    <2> QED BY <2>1, <2>2 DEF IInv, SharedOK, IsCache, RequestsTyped, TypeOK
  <1> QED BY <1>1, InvariantHolds, PTL

\* The gauge gateway_active_requests counts exactly the requests sent upstream
\* and not yet logged, however many run at once and however each ends
\* (request_filter's inc, logging's dec).
THEOREM GaugeIsExact == Spec => []GaugeExact
PROOF
  <1>1. IInv => GaugeExact
    BY DEF IInv, CountersOK, InFlight, GaugeExact
  <1> QED BY <1>1, InvariantHolds, PTL

\* One authentication failure is counted for each request turned away with 401
\* or 403, one request for each that was logged, and no more upstream errors
\* than requests.
THEOREM CountersAreExact == Spec => []CountersExact
PROOF
  <1>1. IInv => CountersExact
    BY DEF IInv, CountersOK, TurnedAway, Logged, CountersExact
  <1> QED BY <1>1, InvariantHolds, PTL

\* However the refresh thread replaces the cache between the four times
\* request_filter reads it, a forwarded request had a key and a route that were
\* each in a cache of its span.
THEOREM ForwardedOnCurrent == Spec => []ForwardedOnCurrentConfig
PROOF
  <1>1. IInv => ForwardedOnCurrentConfig
    <2> SUFFICES ASSUME IInv, NEW r \in Requests, ctx[r].counted_active
                 PROVE  /\ ctx[r].api_key_id # None
                        /\ \E c \in span[r] : c.key_hashes[ctx[r].key_hash] = ctx[r].api_key_id
                        /\ \E c \in span[r], m \in Models : Offers(c, m, ctx[r].upstream_model)
      BY DEF ForwardedOnCurrentConfig, Forwarded, Offers
    <2>1. ctx[r].api_key_id # None /\ ctx[r].upstream_model # None
      BY OfRequest DEF ContextFits
    <2> QED BY <2>1, OfRequest DEF KeyWasValid, RouteWasOffered
  <1> QED BY <1>1, InvariantHolds, PTL

\* A request whose model was mapped in every cache of its span is served by a
\* route of that model, never by the fallback to another one's (proxy.rs,
\* select_route and the fallback after it).
THEOREM MappedModelsKeepTheirRoutes == Spec => []MappedModelKeepsItsRoutes
PROOF
  <1>1. IInv => MappedModelKeepsItsRoutes
    <2> SUFFICES ASSUME IInv, NEW r \in Requests, ctx[r].counted_active, ctx[r].model # None,
                        \A c \in span[r] : c.model_routes[ctx[r].model].routes # <<>>
                 PROVE  \E c \in span[r] : Offers(c, ctx[r].model, ctx[r].upstream_model)
      BY DEF MappedModelKeepsItsRoutes, Forwarded, Offers
    <2>1. ctx[r].upstream_model # None
      BY OfRequest DEF ContextFits
    <2>2. ~WasUnmapped(ctx[r], span[r])
      BY DEF WasUnmapped
    <2> QED BY <2>1, <2>2, OfRequest DEF RouteWasOffered
  <1> QED BY <1>1, InvariantHolds, PTL

\* The audit row says "ok" and names key and route exactly when the request was
\* forwarded, and "invalid_key" exactly when it was answered with 403.
THEOREM AuditRowsTellOutcome == Spec => []AuditTellsOutcome
PROOF
  <1>1. IInv => AuditTellsOutcome
    <2> SUFFICES ASSUME IInv, NEW r \in Requests, audited[r] # None
                 PROVE  /\ audited[r].auth_result = "ok" <=> Forwarded(r)
                        /\ audited[r].provider_model # None <=> Forwarded(r)
                        /\ Forwarded(r) => audited[r].api_key_id # None
                        /\ audited[r].auth_result = "invalid_key" <=> ctx[r].verdict = 403
      BY DEF AuditTellsOutcome
    <2>1. AuditFits(pc[r], ctx[r], audited[r]) /\ ContextFits(pc[r], ctx[r])
      BY DEF IInv, RequestFits
    <2> QED BY <2>1 DEF AuditFits, ContextFits, Forwarded
  <1> QED BY <1>1, InvariantHolds, PTL
-----------------------------------------------------------------------------
\* What a request let through has read of its key's limits: a second invariant,
\* on top of the first.

\* The stages of a request that was let through.
LetThrough == {"admitted", "reading_body", "has_model", "no_route", "has_route", "forwarded", "lost"}

LimitFits(p, c, sp) ==
    /\ p \in {"none", "arrived", "hashed", "known"} => c.limit = None /\ ~c.compared
    /\ p = "limited" => c.limit # None
    /\ p \in LetThrough \/ c.counted_active => (c.compared <=> c.limit # None)
    /\ p = "limited" \/ p \in LetThrough \/ c.counted_active =>
          \E cc \in sp : cc.rate_limits[c.key_hash] = c.limit

LimitsFit == \A r \in Requests : LimitFits(pc[r], ctx[r], span[r])

\* What a step of request r does to stages and contexts.
Moves(r, label, new) ==
    /\ pc'[r] = label /\ ctx'[r] = new
    /\ \A q \in Requests \ {r} : pc'[q] = pc[q] /\ ctx'[q] = ctx[q]

LEMMA GotoMoves ==
    ASSUME IInv, NEW r \in Requests, NEW label, NEW new, Goto(r, label, new)
    PROVE  Moves(r, label, new)
PROOF
  BY DEF Moves, Goto, IInv, RequestsTyped

LEMMA OneMovesWithinLimits ==
    ASSUME LimitsFit, NEW r \in Requests, NEW new, NEW label, Moves(r, label, new), span' = span,
           LimitFits(label, new, span[r])
    PROVE  LimitsFit'
PROOF
  BY Zenon DEF LimitsFit, Moves

\* Nothing is said of a request that was answered without being forwarded.
LEMMA AnsweredFits ==
    ASSUME NEW c, NEW sp, c.counted_active = FALSE
    PROVE  LimitFits("answered", c, sp)
PROOF
  BY DEF LimitFits, LetThrough

\* Once let through, a request looks at its limits no more.
LEMMA LetThroughStays ==
    ASSUME IInv, LimitsFit, NEW r \in Requests, pc[r] \in LetThrough, NEW d,
           d.limit = ctx[r].limit, d.compared = ctx[r].compared, d.key_hash = ctx[r].key_hash,
           NEW label \in LetThrough \cup {"answered", "logged"}
    PROVE  LimitFits(label, d, span[r])
PROOF
  <1>1. LimitFits(pc[r], ctx[r], span[r])
    BY DEF LimitsFit
  <1>2. /\ label \notin {"none", "arrived", "hashed", "known"} /\ label # "limited"
    BY DEF LetThrough
  <1> QED BY <1>1, <1>2 DEF LimitFits

\* A step of request r that leaves the span alone.
LEMMA RequestKeepsLimits ==
    ASSUME IInv, LimitsFit, NEW r \in Requests, HandleRequest(r)
    PROVE  LimitsFit'
PROOF
  <1> DEFINE c == ctx[r]
             sp == span[r]
  <1>1. /\ c \in Context /\ ContextFits(pc[r], c) /\ LimitFits(pc[r], c, sp)
        /\ Live(r) => cache \in sp
    BY OfRequest DEF LimitsFit
  <1>2. c.counted_active \in BOOLEAN /\ (c.counted_active => pc[r] \in Sent)
    BY <1>1 DEF ContextFits, Context
  <1>3. span' = span
    BY DEF HandleRequest, CheckHead, LookUpKey, LookUpLimits, check_rate_limit, record_rate_limit,
           ReadBody, select_route, Fallback, Forward, BodyFilterPanics, UpstreamAnswers, logging
  \* Answered, but not forwarded.
  <1>4. ASSUME NEW d \in Context, NEW v, respond_json(r, v, d), d.counted_active = FALSE
        PROVE  LimitsFit'
    <2>1. PICK new : new = [d EXCEPT !.verdict = v]
      OBVIOUS
    <2>2. Goto(r, "answered", new)
      BY <1>4, <2>1, Zenon DEF respond_json
    <2>3. new.counted_active = FALSE
      BY <1>4, <2>1 DEF Context
    <2> QED BY <1>3, <2>2, <2>3, AnsweredFits, GotoMoves, OneMovesWithinLimits
  \* Already let through.
  <1>5. ASSUME NEW new, NEW label \in LetThrough \cup {"answered", "logged"}, Moves(r, label, new),
               pc[r] \in LetThrough,
               new.limit = c.limit, new.compared = c.compared, new.key_hash = c.key_hash
        PROVE  LimitsFit'
    BY <1>3, <1>5, LetThroughStays, OneMovesWithinLimits
  <1>6. CASE pc[r] \in {"arrived", "hashed"} /\ (CheckHead(r) \/ LookUpKey(r))
    <2>1. c.limit = None /\ c.compared = FALSE /\ c.counted_active = FALSE
      BY <1>1, <1>2, <1>6 DEF LimitFits, Sent, Context
    <2>2. ASSUME NEW new, new.limit = None, new.compared = FALSE, new.counted_active = FALSE,
                 NEW label \in {"hashed", "known"}, Goto(r, label, new)
          PROVE  LimitsFit'
      <3>1. LimitFits(label, new, sp)
        BY <2>2 DEF LimitFits, LetThrough
      <3> QED BY <1>3, <2>2, <3>1, GotoMoves, OneMovesWithinLimits
    <2>3. CASE CheckHead(r)
      <3>1. ASSUME respond_json(r, 200, [c EXCEPT !.audit_enabled = FALSE]) PROVE LimitsFit'
        <4>1. PICK d : d = [c EXCEPT !.audit_enabled = FALSE]
          OBVIOUS
        <4>2. d \in Context /\ d.counted_active = FALSE
          BY <1>1, <2>1, <4>1 DEF Context
        <4> QED BY <1>4, <3>1, <4>1, <4>2, Zenon
      <3>2. ASSUME NEW v, respond_json(r, v, c) PROVE LimitsFit'
        BY <1>1, <1>4, <2>1, <3>2
      <3>3. ASSUME Goto(r, "hashed", [c EXCEPT !.key_hash = input[r].token]) PROVE LimitsFit'
        <4>1. PICK new : new = [c EXCEPT !.key_hash = input[r].token]
          OBVIOUS
        <4>2. new.limit = None /\ new.compared = FALSE /\ new.counted_active = FALSE
          BY <1>1, <2>1, <4>1 DEF Context
        <4>3. Goto(r, "hashed", new)
          BY <3>3, <4>1, Zenon
        <4> QED BY <2>2, <4>2, <4>3
      <3> HIDE DEF c
      <3> QED BY <2>3, <3>1, <3>2, <3>3 DEF CheckHead, c
    <2>4. CASE LookUpKey(r)
      <3> DEFINE id == cache.key_hashes[c.key_hash]
      <3>1. ASSUME respond_json(r, 403, [c EXCEPT !.auth_result = "invalid_key"]) PROVE LimitsFit'
        <4>1. PICK d : d = [c EXCEPT !.auth_result = "invalid_key"]
          OBVIOUS
        <4>2. d \in Context /\ d.counted_active = FALSE
          BY <1>1, <2>1, <4>1 DEF Context
        <4> QED BY <1>4, <3>1, <4>1, <4>2, Zenon
      <3>2. ASSUME Goto(r, "known", [c EXCEPT !.api_key_id = id]) PROVE LimitsFit'
        <4>1. PICK new : new = [c EXCEPT !.api_key_id = id]
          OBVIOUS
        <4>2. new.limit = None /\ new.compared = FALSE /\ new.counted_active = FALSE
          BY <1>1, <2>1, <4>1 DEF Context
        <4>3. Goto(r, "known", new)
          BY <3>2, <4>1, Zenon
        <4> QED BY <2>2, <4>2, <4>3
      <3> QED BY <2>4, <3>1, <3>2, Zenon DEF LookUpKey
    <2> QED BY <1>6, <2>3, <2>4
  <1>7. CASE LookUpLimits(r)
    <2> DEFINE limit == cache.rate_limits[c.key_hash]
               label == IF limit = None THEN "admitted" ELSE "limited"
    <2>1. PICK new : new = [c EXCEPT !.limit = limit]
      OBVIOUS
    <2>2. pc[r] = "known" /\ Goto(r, label, new)
      BY <1>7, <2>1, Zenon DEF LookUpLimits
    <2>3. c.compared = FALSE /\ c.counted_active = FALSE /\ cache \in sp
      BY <1>1, <1>2, <2>2 DEF LimitFits, Sent, Context, Live
    <2>4. /\ new.limit = limit /\ new.compared = FALSE /\ new.counted_active = FALSE
          /\ new.key_hash = c.key_hash
      BY <1>1, <2>1, <2>3 DEF Context
    <2>5. LimitFits(label, new, sp)
      BY <2>3, <2>4 DEF LimitFits, LetThrough
    <2> HIDE DEF label
    <2> QED BY <1>3, <2>2, <2>5, GotoMoves, OneMovesWithinLimits
  <1>8. CASE check_rate_limit(r)
    <2>1. pc[r] = "limited"
      BY <1>8 DEF check_rate_limit
    <2>2. c.counted_active = FALSE /\ c.limit # None
      BY <1>1, <1>2, <2>1 DEF LimitFits, Sent
    <2>3. CASE respond_json(r, 429, [c EXCEPT !.rejected = TRUE, !.compared = TRUE])
      <3>1. PICK d : d = [c EXCEPT !.rejected = TRUE, !.compared = TRUE]
        OBVIOUS
      <3>2. d \in Context /\ d.counted_active = FALSE
        BY <1>1, <2>2, <3>1 DEF Context
      <3> QED BY <1>4, <2>3, <3>1, <3>2, Zenon
    <2>4. CASE Goto(r, "admitted", [c EXCEPT !.compared = TRUE])
      <3>1. PICK new : /\ Goto(r, "admitted", new)
                       /\ new.limit = c.limit /\ new.compared = TRUE /\ new.key_hash = c.key_hash
        BY <1>1, <2>4 DEF Context
      <3>2. LimitFits("admitted", new, sp)
        BY <1>1, <2>1, <2>2, <3>1 DEF LimitFits, LetThrough
      <3> QED BY <1>3, <3>1, <3>2, GotoMoves, OneMovesWithinLimits
    <2> QED BY <1>8, <2>3, <2>4, Zenon DEF check_rate_limit
  <1>9. CASE logging(r)
    <2>1. pc[r] \in {"answered", "forwarded"} /\ Moves(r, "logged", c)
      BY <1>9 DEF logging, IInv, RequestsTyped, Moves
    <2>2. LimitFits("logged", c, sp)
      BY <1>1, <2>1 DEF LimitFits, LetThrough
    <2> QED BY <1>3, <2>1, <2>2, OneMovesWithinLimits
  <1>10. CASE record_rate_limit(r) \/ BodyFilterPanics(r)
    <2>1. PICK label \in LetThrough : pc[r] \in LetThrough /\ Moves(r, label, c)
      BY <1>10 DEF record_rate_limit, BodyFilterPanics, IInv, RequestsTyped, Moves, LetThrough
    <2> QED BY <1>5, <2>1
  <1>11. CASE ReadBody(r) \/ select_route(r) \/ Fallback(r) \/ Forward(r) \/ UpstreamAnswers(r)
    <2>1. pc[r] \in LetThrough
      BY <1>11 DEF ReadBody, select_route, Fallback, Forward, UpstreamAnswers, LetThrough
    <2>2. ASSUME NEW new, NEW label \in LetThrough \cup {"answered"}, Goto(r, label, new),
                 new.limit = c.limit, new.compared = c.compared, new.key_hash = c.key_hash
          PROVE  LimitsFit'
      BY <1>5, <2>1, <2>2, GotoMoves
    <2>3. ASSUME NEW v, respond_json(r, v, c) PROVE LimitsFit'
      <3>1. PICK new : /\ Goto(r, "answered", new)
                       /\ new.limit = c.limit /\ new.compared = c.compared /\ new.key_hash = c.key_hash
        BY <1>1, <2>3 DEF respond_json, Context
      <3> QED BY <2>2, <3>1
    <2>4. ASSUME NEW u, Goto(r, "has_route", [c EXCEPT !.upstream_model = u]) PROVE LimitsFit'
      <3>1. PICK new : /\ Goto(r, "has_route", new)
                       /\ new.limit = c.limit /\ new.compared = c.compared /\ new.key_hash = c.key_hash
        BY <1>1, <2>4 DEF Context
      <3> QED BY <2>2, <3>1 DEF LetThrough
    <2>5. ASSUME Goto(r, "no_route", c) PROVE LimitsFit'
      BY <2>2, <2>5 DEF LetThrough
    <2>6. CASE ReadBody(r)
      <3>1. CASE \E body : Goto(r, "has_model", [c EXCEPT !.model = body])
        <4>1. PICK new : /\ Goto(r, "has_model", new)
                         /\ new.limit = c.limit /\ new.compared = c.compared
                         /\ new.key_hash = c.key_hash
          BY <1>1, <3>1 DEF Context
        <4> QED BY <2>2, <4>1 DEF LetThrough
      <3> QED BY <2>3, <2>5, <2>6, <3>1, Zenon DEF ReadBody
    <2>7. CASE select_route(r)
      BY <2>4, <2>5, <2>7, Zenon DEF select_route
    <2>8. CASE Fallback(r)
      BY <2>3, <2>4, <2>8, Zenon DEF Fallback
    <2>9. CASE Forward(r)
      <3>1. PICK new : new = [c EXCEPT !.auth_result = "ok", !.counted_active = TRUE]
        OBVIOUS
      <3>2. Goto(r, "forwarded", new)
        BY <2>9, <3>1, Zenon DEF Forward
      <3>3. new.limit = c.limit /\ new.compared = c.compared /\ new.key_hash = c.key_hash
        BY <1>1, <3>1 DEF Context
      <3> QED BY <2>2, <3>2, <3>3 DEF LetThrough
    <2>10. CASE UpstreamAnswers(r)
      BY <2>3, <2>10 DEF UpstreamAnswers
    <2> QED BY <1>11, <2>6, <2>7, <2>8, <2>9, <2>10
  <1>12. CheckHead(r) \/ LookUpKey(r) => pc[r] \in {"arrived", "hashed"}
    BY DEF CheckHead, LookUpKey
  <1> QED BY <1>6, <1>7, <1>8, <1>9, <1>10, <1>11, <1>12 DEF HandleRequest

LEMMA StepKeepsLimits == IInv /\ LimitsFit /\ [Next]_vars => LimitsFit'
PROOF
  <1> SUFFICES ASSUME IInv, LimitsFit, [Next]_vars PROVE LimitsFit'
    OBVIOUS
  <1>1. CASE ReplaceCache
    <2>1. \A q \in Requests : pc'[q] = pc[q] /\ ctx'[q] = ctx[q] /\ span[q] \subseteq span'[q]
      BY <1>1 DEF ReplaceCache
    <2> QED BY <2>1 DEF LimitsFit, LimitFits
  <1>2. ASSUME NEW r \in Requests, Arrive(r) PROVE LimitsFit'
    <2>1. /\ pc[r] = "none" /\ pc' = [pc EXCEPT ![r] = "arrived"] /\ ctx' = ctx
          /\ span' = [span EXCEPT ![r] = {cache}]
      BY <1>2 DEF Arrive
    <2>2. LimitFits("none", ctx[r], span[r]) /\ ctx[r].counted_active = FALSE
      BY <2>1, OfRequest DEF LimitsFit, ContextFits, Sent, Context
    <2>3. LimitFits("arrived", ctx[r], {cache})
      BY <2>2 DEF LimitFits, LetThrough
    <2>4. pc'[r] = "arrived" /\ span'[r] = {cache}
      BY <2>1 DEF IInv, RequestsTyped
    <2>5. \A q \in Requests \ {r} : pc'[q] = pc[q] /\ span'[q] = span[q]
      BY <2>1 DEF IInv, RequestsTyped
    <2> QED BY <2>1, <2>3, <2>4, <2>5, Zenon DEF LimitsFit
  <1>3. ASSUME NEW r \in Requests, HandleRequest(r) PROVE LimitsFit'
    BY <1>3, RequestKeepsLimits
  <1>4. CASE UNCHANGED <<pc, ctx, span>>
    BY <1>4 DEF LimitsFit
  <1> QED BY <1>1, <1>2, <1>3, <1>4 DEF Next, EntryExpires, vars

\* A forwarded request that was compared with no limit found none for its hash
\* in a cache of its span, and one that found a limit was compared with it
\* (request_filter's second look into the cache, and check_rate_limit).
THEOREM UncheckedWereUnlimited == Spec => []UncheckedWasUnlimited
PROOF
  <1>1. Init => LimitsFit
    <2> SUFFICES ASSUME Init, NEW r \in Requests PROVE LimitFits("none", new_ctx, span[r])
      BY DEF Init, LimitsFit
    <2>1. new_ctx.limit = None /\ new_ctx.compared = FALSE /\ new_ctx.counted_active = FALSE
      BY DEF new_ctx
    <2> QED BY <2>1 DEF LimitFits, LetThrough
  <1>2. LimitsFit => UncheckedWasUnlimited
    BY DEF LimitsFit, LimitFits, UncheckedWasUnlimited, Forwarded
  <1> QED BY <1>1, <1>2, InvariantHolds, StepKeepsLimits, PTL DEF Spec
=============================================================================
