--------------------------- MODULE DashboardProofs ---------------------------
(***************************************************************************)
(* Proofs about Forwarding and Dashboard: host, key and the model name of a *)
(* request are those of one route on every connection, a JSON body in one   *)
(* piece that does not grow is rewritten as it should be, the dashboard     *)
(* credits a request to the provider it was sent to, and its figures,       *)
(* percentiles and bars are what they are named for, for any routes,        *)
(* bodies, tables, readings of the clock and number of attempts, requests   *)
(* and fetches.                                                             *)
(***************************************************************************)
EXTENDS Dashboard, FiniteSetTheorems, SequenceTheorems, TLAPS

\* A set of natural numbers has a smallest one (the intervals from 0 to its
\* members are well ordered by inclusion).
LEMMA LeastNatural ==
    ASSUME NEW S \in SUBSET Nat, S # {}
    PROVE  \E n \in S : \A m \in S : n <= m
PROOF
  <1> DEFINE Upto == {0..n : n \in S}
             R == StrictSubsetOrdering(Nat)
  <1>1. Upto # {} /\ Upto \subseteq FiniteSubsetsOf(Nat)
    <2>1. \A n \in S : 0..n \in SUBSET Nat /\ IsFiniteSet(0..n)
      BY FS_Interval
    <2> QED BY <2>1 DEF FiniteSubsetsOf
  <1>2. IsWellFoundedOn(R, FiniteSubsetsOf(Nat))
    BY FS_StrictSubsetOrderingWellFounded
  <1>3. PICK x \in Upto : \A y \in Upto : ~ (<<y, x>> \in R)
    <2> HIDE DEF Upto, R
    <2> QED BY <1>1, <1>2, WFMin
  <1>4. PICK n \in S : x = 0..n
    OBVIOUS
  <1>5. ASSUME NEW m \in S, m < n PROVE FALSE
    <2>1. 0..m \in SUBSET Nat /\ 0..n \in SUBSET Nat
      OBVIOUS
    <2>2. 0..m \subseteq 0..n /\ n \in 0..n /\ n \notin 0..m
      BY <1>5
    <2>3. <<0..m, 0..n>> \in R
      BY <2>1, <2>2 DEF StrictSubsetOrdering
    <2> QED BY <1>3, <1>4, <2>3
  <1> QED BY <1>5

\* The equation of PartialSums, for the first k numbers.
AddsUp(f, numbers, k) ==
    \A n \in 0..k : f[n] = IF n = 0 THEN 0 ELSE f[n - 1] + numbers[n]

\* The sums of the first numbers exist.
LEMMA SumsExist ==
    ASSUME NEW numbers \in Seq(Nat)
    PROVE  \E f \in [0..Len(numbers) -> Nat] : AddsUp(f, numbers, Len(numbers))
PROOF
  <1> DEFINE Exists(k) == \E f \in [0..k -> Nat] : AddsUp(f, numbers, k)
             Bad == {k \in 0..Len(numbers) : ~Exists(k)}
  <1>1. SUFFICES ASSUME Bad # {} PROVE FALSE
    BY DEF Bad
  <1>2. PICK k \in Bad : \A m \in Bad : k <= m
    <2>1. Bad \in SUBSET Nat
      OBVIOUS
    <2> QED BY <1>1, <2>1, LeastNatural, Zenon
  <1>3. Len(numbers) \in Nat /\ k \in 0..Len(numbers)
    BY <1>2
  <1> HIDE DEF Exists
  <1>4. CASE k = 0
    <2>1. [n \in 0..0 |-> 0] \in [0..0 -> Nat] /\ AddsUp([n \in 0..0 |-> 0], numbers, 0)
      BY DEF AddsUp
    <2> QED BY <1>2, <1>4, <2>1 DEF Exists
  <1>5. CASE k # 0
    <2>1. k - 1 \in 0..Len(numbers) /\ k - 1 \notin Bad
      BY <1>2, <1>3, <1>5
    <2>2. PICK f \in [0..(k - 1) -> Nat] : AddsUp(f, numbers, k - 1)
      BY <2>1 DEF Exists
    <2>3. numbers[k] \in Nat
      BY <1>3, <1>5
    <2> DEFINE g == [n \in 0..k |-> IF n = k THEN f[k - 1] + numbers[k] ELSE f[n]]
    <2>4. g \in [0..k -> Nat]
      BY <1>3, <1>5, <2>3
    <2>5. AddsUp(g, numbers, k)
      BY <1>3, <1>5, <2>2 DEF AddsUp
    <2> QED BY <1>2, <2>4, <2>5 DEF Exists
  <1> QED BY <1>4, <1>5

\* PartialSums is the function of these sums.
LEMMA PartialSumsDef ==
    ASSUME NEW numbers \in Seq(Nat)
    PROVE  /\ PartialSums(numbers) \in [0..Len(numbers) -> Nat]
           /\ PartialSums(numbers)[0] = 0
           /\ \A n \in 1..Len(numbers) :
                 PartialSums(numbers)[n] = PartialSums(numbers)[n - 1] + numbers[n]
PROOF
  <1> DEFINE Sums(f) == [n \in 0..Len(numbers) |-> IF n = 0 THEN 0 ELSE f[n - 1] + numbers[n]]
             C == PartialSums(numbers)
  <1>1. \E f : f = Sums(f)
    <2>1. PICK f \in [0..Len(numbers) -> Nat] : AddsUp(f, numbers, Len(numbers))
      BY SumsExist
    <2>2. f = Sums(f)
      BY <2>1 DEF AddsUp
    <2> QED BY <2>2
  <1>2. C = CHOOSE f : f = Sums(f)
    BY Zenon DEF PartialSums
  <1>3. C = Sums(C)
    BY <1>1, <1>2, Zenon
  <1> HIDE DEF C
  <1>4. /\ DOMAIN C = 0..Len(numbers)
        /\ \A n \in 0..Len(numbers) : C[n] = IF n = 0 THEN 0 ELSE C[n - 1] + numbers[n]
    BY <1>3
  <1> DEFINE Bad == {k \in 0..Len(numbers) : C[k] \notin Nat}
  <1>5. Bad = {}
    <2>1. SUFFICES ASSUME Bad # {} PROVE FALSE
      OBVIOUS
    <2>2. PICK k \in Bad : \A m \in Bad : k <= m
      <3>1. Bad \in SUBSET Nat
        OBVIOUS
      <3> QED BY <2>1, <3>1, LeastNatural, Zenon
    <2>3. k \in 0..Len(numbers) /\ Len(numbers) \in Nat /\ C[k] \notin Nat
      BY <2>2
    <2>4. CASE k = 0
      BY <1>4, <2>3, <2>4
    <2>5. CASE k # 0
      <3>1. C[k - 1] \in Nat
        BY <2>2, <2>3, <2>5
      <3>2. numbers[k] \in Nat
        BY <2>3, <2>5
      <3> QED BY <1>4, <2>3, <2>5, <3>1, <3>2
    <2> QED BY <2>4, <2>5
  <1>6. \A n \in 0..Len(numbers) : C[n] \in Nat
    BY <1>5
  <1>7. C = [n \in 0..Len(numbers) |-> C[n]]
    BY <1>3
  <1>8. C \in [0..Len(numbers) -> Nat]
    BY <1>6, <1>7
  <1>9. C[0] = 0 /\ \A n \in 1..Len(numbers) : C[n] = C[n - 1] + numbers[n]
    BY <1>4
  <1> QED BY <1>8, <1>9 DEF C

LEMMA TotalType == ASSUME NEW numbers \in Seq(Nat) PROVE Total(numbers) \in Nat
PROOF
  <1>1. Len(numbers) \in 0..Len(numbers)
    OBVIOUS
  <1> QED BY <1>1, PartialSumsDef DEF Total

\* One more number adds itself.
LEMMA TotalAppend ==
    ASSUME NEW s \in Seq(Nat), NEW t \in Seq(Nat), Len(t) = Len(s) + 1,
           \A i \in 1..Len(s) : t[i] = s[i]
    PROVE  Total(t) = Total(s) + t[Len(t)]
PROOF
  <1> DEFINE S == PartialSums(s)
             T == PartialSums(t)
             Bad == {k \in 0..Len(s) : T[k] # S[k]}
  <1>1. /\ S \in [0..Len(s) -> Nat] /\ S[0] = 0
        /\ \A n \in 1..Len(s) : S[n] = S[n - 1] + s[n]
    BY PartialSumsDef
  <1>2. /\ T \in [0..Len(t) -> Nat] /\ T[0] = 0
        /\ \A n \in 1..Len(t) : T[n] = T[n - 1] + t[n]
    BY PartialSumsDef
  <1> HIDE DEF S, T
  <1>3. Bad = {}
    <2> SUFFICES ASSUME Bad # {} PROVE FALSE
      OBVIOUS
    <2>1. PICK k \in Bad : \A m \in Bad : k <= m
      <3>1. Bad \in SUBSET Nat
        OBVIOUS
      <3> QED BY <3>1, LeastNatural, Zenon
    <2>2. k \in 0..Len(s) /\ Len(s) \in Nat /\ T[k] # S[k]
      BY <2>1
    <2>3. k # 0
      BY <1>1, <1>2, <2>2
    <2>4. k \in 1..Len(s) /\ k \in 1..Len(t) /\ k - 1 \in 0..Len(s)
      BY <2>2, <2>3
    <2>5. T[k - 1] = S[k - 1]
      BY <2>1, <2>4
    <2> QED BY <1>1, <1>2, <2>2, <2>4, <2>5
  <1>4. Len(s) \in 0..Len(s) /\ Len(t) \in 1..Len(t) /\ Len(t) - 1 = Len(s)
    OBVIOUS
  <1>5. T[Len(s)] = S[Len(s)]
    BY <1>3, <1>4
  <1>6. T[Len(t)] = S[Len(s)] + t[Len(t)]
    BY <1>2, <1>4, <1>5
  <1> QED BY <1>6 DEF Total, S, T
-----------------------------------------------------------------------------
\* Records are changed field by field.
RequestFields ==
    {"ctx", "decided", "body", "left", "body_buf", "rewritten", "attempt", "peer", "key", "sent"}

RequestIsRecord == request # None => DOMAIN request = RequestFields

\* The context is as new or holds what apply_route makes of one route.
ContextIsApplied ==
    request # None =>
        \/ request.ctx = new_ctx
        \/ \E route \in Routes : request.ctx = apply_route(new_ctx, route)

\* A request is connected when all is decided, and as its context says.
Connected ==
    request # None /\ request.peer # None =>
        /\ request.decided /\ request.ctx.provider_id # None
        /\ request.peer = upstream_peer /\ request.key = request.ctx.provider_key

ForwardInv == current \in Routes \cup {None} /\ RequestIsRecord /\ ContextIsApplied /\ Connected

\* What apply_route leaves in a new context.
LEMMA AppliedRoute ==
    ASSUME NEW route \in Routes, NEW ctx, ctx = apply_route(new_ctx, route)
    PROVE  /\ ctx.upstream_model = route.model
           /\ ctx.provider_id = route.provider
           /\ ctx.provider_key = route.provider
           /\ ctx.upstream_host = IF route.parses THEN route.provider ELSE None
PROOF
  BY DEF apply_route, new_ctx

LEMMA NewContext ==
    ASSUME NEW ctx, ctx = new_ctx
    PROVE  /\ ctx.upstream_model = None
           /\ ctx.provider_id = None
           /\ ctx.upstream_host = None
PROOF
  BY DEF new_ctx

LEMMA RequestFilterKeeps == ASSUME NEW body, ForwardInv, request_filter(body) PROVE ForwardInv'
PROOF
  <1>1. UNCHANGED current /\ current \in Routes \cup {None}
    BY DEF request_filter, ForwardInv
  <1>2. PICK ctx \in {new_ctx} \cup (IF current = None THEN {} ELSE {apply_route(new_ctx, current)}) :
            /\ request'.ctx = ctx
            /\ request'.peer = None
            /\ DOMAIN request' = RequestFields
    BY DEF request_filter, RequestFields
  <1>3. ctx = new_ctx \/ \E route \in Routes : ctx = apply_route(new_ctx, route)
    BY <1>1, <1>2
  <1>4. ContextIsApplied'
    BY <1>2, <1>3 DEF ContextIsApplied
  <1> QED BY <1>1, <1>2, <1>4 DEF ForwardInv, Connected, RequestIsRecord

LEMMA FirstRouteKeeps == ForwardInv /\ first_route => ForwardInv'
PROOF
  <1> SUFFICES ASSUME ForwardInv, first_route PROVE ForwardInv'
    OBVIOUS
  <1>1. request # None /\ RequestIsRecord /\ UNCHANGED current /\ request.peer = None
    BY DEF ForwardInv, Connected, first_route
  <1> DEFINE given == IF request.ctx.provider_id = None /\ current # None
                      THEN apply_route(request.ctx, current) ELSE request.ctx
  <1>2. PICK ctx : ctx = given /\ request' = [request EXCEPT !.decided = TRUE, !.ctx = ctx]
    BY Zenon DEF first_route
  <1>3. request'.ctx = ctx /\ request'.peer = None /\ DOMAIN request' = RequestFields
    BY <1>1, <1>2, ZenonT(30) DEF RequestIsRecord, RequestFields
  <1>4. ctx = new_ctx \/ \E route \in Routes : ctx = apply_route(new_ctx, route)
    <2>1. CASE request.ctx.provider_id = None /\ current # None
      <3>1. request.ctx = new_ctx
        <4>1. ASSUME NEW route \in Routes, request.ctx = apply_route(new_ctx, route) PROVE FALSE
          <5>1. request.ctx.provider_id = route.provider
            BY <4>1, AppliedRoute, Zenon
          <5> QED BY <2>1, <5>1, ForwardingAssumption
        <4> QED BY <1>1, <4>1 DEF ForwardInv, ContextIsApplied
      <3>2. ctx = apply_route(new_ctx, current) /\ current \in Routes
        BY <1>2, <2>1, <3>1 DEF ForwardInv
      <3> QED BY <3>2
    <2>2. CASE ~(request.ctx.provider_id = None /\ current # None)
      BY <1>1, <1>2, <2>2 DEF ForwardInv, ContextIsApplied
    <2> QED BY <2>1, <2>2
  <1>5. ContextIsApplied'
    BY <1>3, <1>4 DEF ContextIsApplied
  <1> QED BY <1>1, <1>3, <1>5 DEF ForwardInv, Connected, RequestIsRecord

LEMMA ConnectKeeps == ForwardInv /\ Connect => ForwardInv'
PROOF
  <1> SUFFICES ASSUME ForwardInv, Connect PROVE ForwardInv'
    OBVIOUS
  <1>1. /\ request # None /\ RequestIsRecord /\ UNCHANGED current
        /\ request.decided /\ request.ctx.provider_id # None
    BY DEF ForwardInv, Connect
  <1>2. request' = [request EXCEPT !.peer = upstream_peer,
                                   !.key = request.ctx.provider_key,
                                   !.attempt = @ + 1]
    BY Zenon DEF Connect
  <1>3. /\ request'.ctx = request.ctx /\ request'.decided = request.decided
        /\ request'.peer = upstream_peer
        /\ request'.key = request.ctx.provider_key
        /\ DOMAIN request' = DOMAIN request
    BY <1>1, <1>2, ZenonT(30) DEF RequestIsRecord, RequestFields
  <1>4. Connected'
    BY <1>1, <1>3, Zenon DEF Connected, upstream_peer
  <1> QED BY <1>1, <1>3, <1>4 DEF ForwardInv, ContextIsApplied, RequestIsRecord

LEMMA BodyKeeps == ForwardInv /\ request_body_filter => ForwardInv'
PROOF
  <1> SUFFICES ASSUME ForwardInv, request_body_filter PROVE ForwardInv'
    OBVIOUS
  <1>1. request # None /\ RequestIsRecord /\ UNCHANGED current
    BY DEF ForwardInv, request_body_filter
  <1>2. PICK buf, left, rewritten, sent :
            request' = [request EXCEPT !.body_buf = buf, !.left = left, !.rewritten = rewritten, !.sent = sent]
    BY Zenon DEF request_body_filter
  <1>3. /\ request'.ctx = request.ctx /\ request'.decided = request.decided
        /\ request'.peer = request.peer
        /\ request'.key = request.key
        /\ DOMAIN request' = DOMAIN request
    BY <1>1, <1>2, ZenonT(30) DEF RequestIsRecord, RequestFields
  <1> QED BY <1>1, <1>3 DEF ForwardInv, Connected, upstream_peer, ContextIsApplied, RequestIsRecord

LEMMA ReconnectKeeps == ForwardInv /\ Reconnect => ForwardInv'
PROOF
  <1> SUFFICES ASSUME ForwardInv, Reconnect PROVE ForwardInv'
    OBVIOUS
  <1>1. request # None /\ RequestIsRecord /\ UNCHANGED current
    BY DEF ForwardInv, Reconnect
  <1>2. request' = [request EXCEPT !.peer = None, !.key = None,
                                   !.left = request.body.chunks, !.sent = <<>>]
    BY Zenon DEF Reconnect
  <1>3. /\ request'.ctx = request.ctx
        /\ request'.peer = None
        /\ DOMAIN request' = DOMAIN request
    BY <1>1, <1>2, ZenonT(30) DEF RequestIsRecord, RequestFields
  <1> QED BY <1>1, <1>3 DEF ForwardInv, Connected, ContextIsApplied, RequestIsRecord

LEMMA ForwardInvKept == ForwardInv /\ [Next]_vars => ForwardInv'
PROOF
  <1> SUFFICES ASSUME ForwardInv, [Next]_vars PROVE ForwardInv'
    OBVIOUS
  <1>1. CASE Refresh
    BY <1>1 DEF Refresh, ForwardInv, Connected, upstream_peer, ContextIsApplied, RequestIsRecord
  <1>2. CASE logging
    BY <1>2 DEF logging, ForwardInv, Connected, ContextIsApplied, RequestIsRecord
  <1>3. CASE UNCHANGED forwardVars
    BY <1>3 DEF forwardVars, ForwardInv, Connected, upstream_peer, ContextIsApplied, RequestIsRecord
  <1>4. \/ Refresh \/ logging \/ UNCHANGED forwardVars
        \/ first_route \/ Connect \/ request_body_filter \/ Reconnect
        \/ \E body \in plan.bodies : request_filter(body)
    BY Zenon DEF Next, Forward, LogRequest, insert_batch, delete_provider, Tick, refetch, ProvidersAnswered,
             LogsAnswered, DataArrives, DataFails, AuditPage, vars
  <1> QED BY <1>1, <1>2, <1>3, <1>4, FirstRouteKeeps, ConnectKeeps, BodyKeeps, ReconnectKeeps,
             RequestFilterKeeps, Zenon

LEMMA InitForwardInv == Init => ForwardInv
PROOF
  BY DEF Init, ForwardInit, ForwardInv, Connected, ContextIsApplied, RequestIsRecord

\* A request that has a provider has all of one route.
LEMMA RouteOfRequest ==
    ASSUME ForwardInv, request # None, request.ctx.provider_id # None
    PROVE  \E route \in Routes :
               /\ request.ctx.upstream_model = route.model
               /\ request.ctx.provider_id = route.provider
               /\ request.ctx.provider_key = route.provider
               /\ request.ctx.upstream_host = IF route.parses THEN route.provider ELSE None
PROOF
  <1>1. request.ctx # new_ctx
    BY NewContext, Zenon
  <1>2. PICK route \in Routes : request.ctx = apply_route(new_ctx, route)
    BY <1>1 DEF ForwardInv, ContextIsApplied
  <1> QED BY <1>2, AppliedRoute, Zenon

\* The model name to be written, if any.
LEMMA ModelOfRequest ==
    ASSUME ForwardInv, request # None
    PROVE  /\ request.ctx.upstream_model \in Names \cup {None}
           /\ request.ctx.provider_id = None => request.ctx.upstream_model = None
           /\ request.ctx.provider_id # None => request.ctx.upstream_model \in Names
PROOF
  <1>1. CASE request.ctx = new_ctx
    <2>1. request.ctx.upstream_model = None /\ request.ctx.provider_id = None
      BY <1>1, NewContext, Zenon
    <2> QED BY <2>1
  <1>2. ASSUME NEW route \in Routes, request.ctx = apply_route(new_ctx, route)
        PROVE  request.ctx.upstream_model \in Names /\ request.ctx.provider_id # None
    <2>1. request.ctx.upstream_model = route.model /\ request.ctx.provider_id = route.provider
      BY <1>2, AppliedRoute, Zenon
    <2> QED BY <2>1, ForwardingAssumption
  <1> QED BY <1>1, <1>2 DEF ForwardInv, ContextIsApplied
-----------------------------------------------------------------------------
\* The pieces sent, and the types of what the filter reads and writes.
Pieces == [model : Names \cup {None}, length : Nat]

FilterIsTyped ==
    request # None =>
        /\ request.body \in Bodies
        /\ request.left \in Seq(Nat) /\ request.body_buf \in Seq(Nat)
        /\ request.rewritten \in BOOLEAN
        /\ request.sent \in Seq(Pieces)

\* The filter sends a piece for a piece, from the first to the last, and none
\* before all is decided; a body was rewritten only after it had all passed.
FilterHasPassed ==
    request # None =>
        /\ Len(request.left) + Len(request.sent) = Len(request.body.chunks)
        /\ \A i \in 1..Len(request.left) :
              request.left[i] = request.body.chunks[Len(request.sent) + i]
        /\ request.rewritten => Total(request.body_buf) >= Total(request.body.chunks)
        /\ ~request.decided => Len(request.sent) = 0

\* The only name written is that of the context.
NamesAreChosen ==
    request # None =>
        \A i \in 1..Len(request.sent) : request.sent[i].model \in {request.ctx.upstream_model, None}

\* What becomes of a body that comes in one piece: nothing is sent before its
\* bytes, which are rewritten if they passed the filter for the first time.
WholeBodyPassed ==
    request # None /\ InOnePiece(request.body) =>
        LET n == Len(request.body.chunks)
            name == request.ctx.upstream_model
        IN  /\ \A i \in 1..Len(request.sent) : i < n => request.sent[i].length = 0
            /\ request.left = <<>> /\ request.body.json /\ name # None
                   /\ Total(request.body_buf) = Total(request.body.chunks) =>
                  request.sent[n] =
                      Piece(name, Padded(request.body.rest + Length[name], Total(request.body.chunks)))

BodyInv == FilterIsTyped /\ FilterHasPassed /\ NamesAreChosen /\ WholeBodyPassed

TypedPlan == plan \in PlanRecord

FilterInv == ForwardInv /\ BodyInv

LEMMA BodyType ==
    ASSUME NEW body \in Bodies
    PROVE  /\ body.chunks \in Seq(Nat) /\ body.chunks # <<>> /\ body.json \in BOOLEAN /\ body.rest \in Nat
           /\ Len(body.chunks) \in Nat \ {0}
           /\ Total(body.chunks) \in Nat
PROOF
  <1>1. body.chunks \in Seq(Nat) /\ body.chunks # <<>> /\ body.json \in BOOLEAN /\ body.rest \in Nat
    BY ForwardingAssumption
  <1>2. Len(body.chunks) \in Nat \ {0}
    BY <1>1, EmptySeq
  <1> QED BY <1>1, <1>2, TotalType

LEMMA NewRequestIsWhole ==
    ASSUME NEW body \in Bodies, request_filter(body)
    PROVE  BodyInv'
PROOF
  <1>1. /\ request'.body = body /\ request'.left = body.chunks /\ request'.body_buf = <<>>
        /\ request'.rewritten = FALSE /\ request'.sent = <<>>
    BY DEF request_filter
  <1>2. body.chunks \in Seq(Nat) /\ body.chunks # <<>> /\ Len(body.chunks) \in Nat
    BY BodyType
  <1>3. <<>> \in Seq(Nat) /\ <<>> \in Seq(Pieces) /\ Len(<<>>) = 0
    OBVIOUS
  <1>4. FilterIsTyped'
    BY <1>1, <1>2, <1>3 DEF FilterIsTyped
  <1>5. FilterHasPassed'
    BY <1>1, <1>2, <1>3 DEF FilterHasPassed
  <1>6. NamesAreChosen' /\ WholeBodyPassed'
    BY <1>1, <1>2, <1>3 DEF NamesAreChosen, WholeBodyPassed
  <1> QED BY <1>4, <1>5, <1>6 DEF BodyInv

\* What is left of the body is not empty before anything is sent.
LEMMA NothingSentYet ==
    ASSUME BodyInv, request # None, Len(request.sent) = 0
    PROVE  request.left # <<>>
PROOF
  <1>1. Len(request.left) + Len(request.sent) = Len(request.body.chunks) /\ request.body \in Bodies
    BY DEF BodyInv, FilterHasPassed, FilterIsTyped
  <1>2. Len(request.body.chunks) \in Nat \ {0}
    BY <1>1, BodyType
  <1> QED BY <1>1, <1>2

LEMMA FirstRouteKeepsBody ==
    ASSUME FilterInv, first_route
    PROVE  BodyInv'
PROOF
  <1>1. request # None /\ RequestIsRecord /\ ~request.decided
    BY DEF FilterInv, ForwardInv, first_route
  <1>2. PICK ctx : request' = [request EXCEPT !.decided = TRUE, !.ctx = ctx]
    BY Zenon DEF first_route
  <1>3. /\ request'.decided = TRUE /\ request'.body = request.body /\ request'.left = request.left
        /\ request'.body_buf = request.body_buf /\ request'.rewritten = request.rewritten
        /\ request'.sent = request.sent
    BY <1>1, <1>2, ZenonT(30) DEF RequestIsRecord, RequestFields
  <1>4. Len(request.sent) = 0 /\ request.left # <<>>
    BY <1>1, NothingSentYet DEF FilterInv, BodyInv, FilterHasPassed
  <1>5. FilterIsTyped' /\ FilterHasPassed'
    BY <1>1, <1>3 DEF FilterInv, BodyInv, FilterIsTyped, FilterHasPassed
  <1>6. NamesAreChosen' /\ WholeBodyPassed'
    BY <1>3, <1>4 DEF NamesAreChosen, WholeBodyPassed
  <1> QED BY <1>5, <1>6 DEF BodyInv

LEMMA ConnectKeepsBody ==
    ASSUME FilterInv, Connect
    PROVE  BodyInv'
PROOF
  <1>1. request # None /\ RequestIsRecord
    BY DEF FilterInv, ForwardInv, Connect
  <1>2. PICK peer, provider, attempt :
            request' = [request EXCEPT !.peer = peer, !.key = provider, !.attempt = attempt]
    BY Zenon DEF Connect
  <1>3. /\ request'.ctx = request.ctx /\ request'.body = request.body /\ request'.left = request.left
        /\ request'.body_buf = request.body_buf /\ request'.rewritten = request.rewritten
        /\ request'.sent = request.sent /\ request'.decided = request.decided
    BY <1>1, <1>2, ZenonT(30) DEF RequestIsRecord, RequestFields
  <1> QED BY <1>1, <1>3 DEF FilterInv, BodyInv, FilterIsTyped, FilterHasPassed, NamesAreChosen, WholeBodyPassed

LEMMA ReconnectBeginsAgain ==
    ASSUME FilterInv, Reconnect
    PROVE  BodyInv'
PROOF
  <1>1. request # None /\ RequestIsRecord
    BY DEF FilterInv, ForwardInv, Reconnect
  <1>2. request' = [request EXCEPT !.peer = None, !.key = None,
                                   !.left = request.body.chunks, !.sent = <<>>]
    BY Zenon DEF Reconnect
  <1>3. /\ request'.body = request.body /\ request'.left = request.body.chunks
        /\ request'.body_buf = request.body_buf /\ request'.rewritten = request.rewritten
        /\ request'.sent = <<>>
    BY <1>1, <1>2, ZenonT(30) DEF RequestIsRecord, RequestFields
  <1>4. request.body \in Bodies
    BY <1>1 DEF FilterInv, BodyInv, FilterIsTyped
  <1>5. request.body.chunks \in Seq(Nat) /\ request.body.chunks # <<>> /\ Len(request.body.chunks) \in Nat
    BY <1>4, BodyType
  <1>6. <<>> \in Seq(Pieces) /\ Len(<<>>) = 0
    OBVIOUS
  <1>7. FilterIsTyped'
    BY <1>1, <1>3, <1>5, <1>6 DEF FilterInv, BodyInv, FilterIsTyped
  <1>8. FilterHasPassed'
    BY <1>1, <1>3, <1>5, <1>6 DEF FilterInv, BodyInv, FilterHasPassed
  <1>9. NamesAreChosen' /\ WholeBodyPassed'
    BY <1>3, <1>5, <1>6 DEF NamesAreChosen, WholeBodyPassed
  <1> QED BY <1>7, <1>8, <1>9 DEF BodyInv

\* One piece passes the filter.
LEMMA FilterKeepsBody ==
    ASSUME FilterInv, request_body_filter
    PROVE  BodyInv'
PROOF
  <1>1. request # None /\ RequestIsRecord /\ request.left # <<>> /\ request.peer # None
    BY DEF FilterInv, ForwardInv, request_body_filter
  <1> DEFINE body == request.body
             left == request.left
             sent == request.sent
             name == request.ctx.upstream_model
             n == Len(body.chunks)
             next == Len(sent) + 1
             buf == Append(request.body_buf, Head(left))
             rewrite == /\ Len(left) = 1
                        /\ ~request.rewritten
                        /\ Total(buf) > 0
                        /\ name # None
                        /\ body.json /\ Total(buf) = Total(body.chunks)
             whole == Piece(name, Padded(body.rest + Length[name], Total(buf)))
             piece == IF rewrite THEN whole ELSE Piece(None, Head(left))
  <1>2. request' = [request EXCEPT !.body_buf = buf, !.left = Tail(@),
                                   !.rewritten = @ \/ rewrite, !.sent = Append(@, piece)]
    BY Zenon DEF request_body_filter
  <1>3. /\ request'.ctx = request.ctx /\ request'.body = body /\ request'.decided = request.decided
        /\ request'.left = Tail(left)
        /\ request'.body_buf = buf
        /\ request'.rewritten = (request.rewritten \/ rewrite)
        /\ request'.sent = Append(sent, piece)
    <2> HIDE DEF body, buf, rewrite, piece
    <2>1. request' = [request EXCEPT !.body_buf = buf, !.left = Tail(request.left),
                                     !.rewritten = (request.rewritten \/ rewrite),
                                     !.sent = Append(request.sent, piece)]
      BY <1>2
    <2>2. PICK rest, done, all :
              /\ rest = Tail(request.left) /\ done = (request.rewritten \/ rewrite)
              /\ all = Append(request.sent, piece)
              /\ request' = [request EXCEPT !.body_buf = buf, !.left = rest, !.rewritten = done, !.sent = all]
      BY <2>1, Zenon
    <2>3. /\ request'.ctx = request.ctx /\ request'.body = request.body /\ request'.decided = request.decided
          /\ request'.left = rest /\ request'.body_buf = buf /\ request'.rewritten = done /\ request'.sent = all
      BY <1>1, <2>2, ZenonT(30) DEF RequestIsRecord, RequestFields
    <2> QED BY <2>2, <2>3 DEF body
  <1>4. /\ body \in Bodies /\ left \in Seq(Nat) /\ request.body_buf \in Seq(Nat)
        /\ request.rewritten \in BOOLEAN /\ sent \in Seq(Pieces)
    BY <1>1 DEF FilterInv, BodyInv, FilterIsTyped
  <1>5. /\ body.chunks \in Seq(Nat) /\ body.json \in BOOLEAN /\ body.rest \in Nat
        /\ n \in Nat \ {0} /\ Total(body.chunks) \in Nat
    BY <1>4, BodyType
  <1>6. request.decided /\ name \in Names /\ Length[name] \in Nat /\ name # None
    <2>1. request.decided /\ request.ctx.provider_id # None
      BY <1>1 DEF FilterInv, ForwardInv, Connected
    <2>2. name \in Names
      BY <1>1, <2>1, ModelOfRequest DEF FilterInv
    <2> QED BY <2>1, <2>2, ForwardingAssumption
  <1>7. Head(left) \in Nat /\ Tail(left) \in Seq(Nat) /\ Len(Tail(left)) = Len(left) - 1 /\ Len(left) \in Nat \ {0}
    BY <1>1, <1>4, EmptySeq, HeadTailProperties
  <1>8. buf \in Seq(Nat) /\ Total(buf) = Total(request.body_buf) + Head(left) /\ Total(request.body_buf) \in Nat
    <2>1. /\ buf \in Seq(Nat) /\ Len(buf) = Len(request.body_buf) + 1 /\ buf[Len(buf)] = Head(left)
          /\ \A i \in 1..Len(request.body_buf) : buf[i] = request.body_buf[i]
      BY <1>4, <1>7
    <2>2. Total(buf) = Total(request.body_buf) + buf[Len(buf)]
      <3> HIDE DEF buf
      <3> QED BY <1>4, <2>1, TotalAppend
    <2> QED BY <1>4, <2>1, <2>2, TotalType
  <1>9. piece \in Pieces /\ piece.model \in {name, None}
    <2>1. Padded(body.rest + Length[name], Total(buf)) \in Nat
      <3>1. Total(buf) \in Nat
        BY <1>7, <1>8
      <3> HIDE DEF body, name, buf
      <3> QED BY <1>5, <1>6, <3>1 DEF Padded
    <2>2. /\ whole \in Pieces /\ whole.model = name
          /\ Piece(None, Head(left)) \in Pieces /\ Piece(None, Head(left)).model = None
      BY <1>6, <1>7, <2>1 DEF Piece, Pieces
    <2> QED BY <2>2, Zenon
  <1>10. /\ Len(left) + Len(sent) = n
         /\ \A i \in 1..Len(left) : left[i] = body.chunks[Len(sent) + i]
         /\ request.rewritten => Total(request.body_buf) >= Total(body.chunks)
         /\ \A i \in 1..Len(sent) : sent[i].model \in {name, None}
    BY <1>1 DEF FilterInv, BodyInv, FilterHasPassed, NamesAreChosen
  <1>11. rewrite \in BOOLEAN
    BY <1>5
  <1>12. /\ Len(sent) \in Nat /\ next \in 1..n /\ Len(left) = n - Len(sent)
         /\ Head(left) = body.chunks[next] /\ (Len(left) = 1 <=> next = n)
    <2>1. Len(sent) \in Nat /\ 1 \in 1..Len(left)
      BY <1>4, <1>7
    <2>2. Head(left) = left[1]
      BY <1>4, <1>7
    <2>3. next \in 1..n /\ Len(left) = n - Len(sent) /\ (Len(left) = 1 <=> next = n)
      <3> DEFINE toGo == Len(left)
                 gone == Len(sent)
      <3> HIDE DEF toGo, gone, n
      <3>1. toGo \in Nat \ {0} /\ gone \in Nat /\ toGo + gone = n
        BY <1>7, <1>10, <2>1 DEF toGo, gone
      <3>2. gone + 1 \in 1..n /\ toGo = n - gone /\ (toGo = 1 <=> gone + 1 = n)
        BY <3>1
      <3> QED BY <3>2 DEF toGo, gone
    <2>4. left[1] = body.chunks[Len(sent) + 1]
      BY <1>10, <2>1
    <2> QED BY <2>1, <2>2, <2>3, <2>4
  <1>13. /\ request'.sent \in Seq(Pieces) /\ Len(request'.sent) = next
         /\ request'.sent[next] = piece
         /\ \A i \in 1..Len(sent) : request'.sent[i] = sent[i]
    <2> HIDE DEF piece
    <2> QED BY <1>3, <1>4, <1>9, <1>12
  <1> DEFINE length == Padded(body.rest + Length[name], Total(body.chunks))
  <1>14. ASSUME InOnePiece(body)
         PROVE  /\ next < n => piece.length = 0
                /\ next = n /\ body.json /\ Total(buf) = Total(body.chunks) => piece = Piece(name, length)
    <2>1. body.chunks[next] \in Nat /\ (body.chunks[next] > 0 <=> next = n)
      BY <1>5, <1>12, <1>14 DEF InOnePiece
    <2>2. CASE next < n
      <3>1. next # n
        BY <1>5, <1>12, <2>2
      <3>2. Head(left) = 0 /\ ~rewrite
        BY <1>12, <2>1, <3>1
      <3>3. piece = Piece(None, Head(left))
        BY <3>2
      <3>4. piece.length = 0
        <4> HIDE DEF piece
        <4> QED BY <3>2, <3>3 DEF Piece
      <3> QED BY <3>1, <3>4
    <2>3. CASE next = n /\ body.json /\ Total(buf) = Total(body.chunks)
      <3>1. Head(left) > 0 /\ Len(left) = 1
        BY <1>12, <2>1, <2>3
      <3>2. Total(buf) > 0 /\ ~request.rewritten
        <4> DEFINE before == Total(request.body_buf)
                   chunk == Head(left)
                   all == Total(body.chunks)
                   sum == Total(buf)
        <4>1. /\ before \in Nat /\ chunk \in Nat /\ chunk > 0 /\ sum = before + chunk /\ sum = all
              /\ request.rewritten => before >= all
          BY <1>7, <1>8, <1>10, <2>3, <3>1
        <4> HIDE DEF before, chunk, all, sum
        <4>2. sum > 0 /\ ~request.rewritten
          BY <4>1
        <4> QED BY <4>2 DEF sum
      <3>3. rewrite
        BY <1>6, <2>3, <3>1, <3>2
      <3> HIDE DEF rewrite
      <3>4. piece = whole /\ whole = Piece(name, length)
        BY <2>3, <3>3
      <3>5. ~(next < n)
        BY <1>5, <2>3
      <3> QED BY <3>4, <3>5
    <2> QED BY <2>2, <2>3
  <1> HIDE DEF piece
  <1>15. FilterIsTyped'
    <2>1. request'.rewritten \in BOOLEAN
      BY <1>3, <1>4, <1>11
    <2> HIDE DEF body, left, buf, rewrite
    <2>2. request'.body \in Bodies /\ request'.left \in Seq(Nat) /\ request'.body_buf \in Seq(Nat)
      BY <1>3, <1>4, <1>7, <1>8
    <2> QED BY <1>13, <2>1, <2>2 DEF FilterIsTyped
  <1>16. FilterHasPassed'
    <2>1. Len(request'.left) + Len(request'.sent) = n
      <3>1. Len(request'.left) = Len(left) - 1 /\ Len(request'.sent) = Len(sent) + 1
        BY <1>3, <1>7, <1>13
      <3> HIDE DEF body, left, sent, n
      <3> QED BY <1>5, <1>7, <1>12, <3>1
    <2>2. \A i \in 1..Len(request'.left) : request'.left[i] = body.chunks[next + i]
      <3> SUFFICES ASSUME NEW i \in 1..Len(Tail(left)) PROVE Tail(left)[i] = body.chunks[next + i]
        BY <1>3
      <3>1. i + 1 \in 1..Len(left) /\ Tail(left)[i] = left[i + 1]
        BY <1>4, <1>7
      <3>2. left[i + 1] = body.chunks[Len(sent) + (i + 1)]
        BY <1>10, <3>1
      <3>3. Len(sent) + (i + 1) = next + i
        <4> HIDE DEF sent
        <4> QED BY <1>12
      <3> QED BY <3>1, <3>2, <3>3
    <2>3. request'.rewritten => Total(request'.body_buf) >= Total(body.chunks)
      <3>1. CASE request.rewritten
        BY <1>3, <1>5, <1>7, <1>8, <1>10, <3>1
      <3>2. CASE rewrite
        BY <1>3, <1>5, <3>2
      <3> QED BY <1>3, <3>1, <3>2
    <2> QED BY <1>3, <1>6, <1>13, <2>1, <2>2, <2>3 DEF FilterHasPassed
  <1>17. NamesAreChosen'
    <2> HIDE DEF name, sent
    <2>1. \A i \in 1..Len(request'.sent) : i \in 1..Len(sent) \/ i = next
      BY <1>12, <1>13
    <2>2. \A i \in 1..Len(request'.sent) : request'.sent[i].model \in {name, None}
      BY <1>9, <1>10, <1>13, <2>1
    <2> QED BY <1>3, <2>2 DEF NamesAreChosen, name
  <1>18. ASSUME InOnePiece(body)
         PROVE  /\ \A i \in 1..Len(request'.sent) : i < n => request'.sent[i].length = 0
                /\ request'.left = <<>> /\ body.json /\ Total(buf) = Total(body.chunks) =>
                      request'.sent[n] = Piece(name, length)
    <2>1. \A i \in 1..Len(sent) : i < n => sent[i].length = 0
      BY <1>1, <1>18 DEF FilterInv, BodyInv, WholeBodyPassed
    <2>2. \A i \in 1..Len(request'.sent) : i \in 1..Len(sent) \/ i = next
      BY <1>12, <1>13
    <2>3. request'.left = <<>> => next = n
      <3>1. request'.left = <<>> => Len(left) - 1 = 0
        <4>1. Len(request'.left) = Len(left) - 1 /\ Len(<<>>) = 0
          BY <1>3, <1>7
        <4> HIDE DEF left
        <4> QED BY <4>1, Zenon
      <3> HIDE DEF left, sent, n, next
      <3> QED BY <1>7, <1>12, <3>1
    <2> HIDE DEF body, sent, name, buf, n, next, length
    <2> QED BY <1>13, <1>14, <1>18, <2>1, <2>2, <2>3
  <1>19. WholeBodyPassed'
    <2> HIDE DEF buf
    <2> QED BY <1>3, <1>18 DEF WholeBodyPassed
  <1> QED BY <1>15, <1>16, <1>17, <1>19 DEF BodyInv

LEMMA TypedPlanKept == TypedPlan /\ [Next]_vars => TypedPlan'
PROOF
  <1> SUFFICES ASSUME TypedPlan, [Next]_vars PROVE TypedPlan'
    OBVIOUS
  <1>1. \/ plan' = plan
        \/ plan.requests > 0 /\ plan' = [plan EXCEPT !.requests = @ - 1]
        \/ plan.ticks > 0 /\ plan' = [plan EXCEPT !.ticks = @ - 1]
    BY Zenon DEF Next, Forward, LogRequest, insert_batch, delete_provider, Tick, refetch,
             ProvidersAnswered, LogsAnswered, DataArrives, DataFails, AuditPage, vars
  <1>2. plan.requests \in Nat /\ plan.ticks \in Nat
    BY DEF TypedPlan, PlanRecord
  <1>3. CASE plan.requests > 0 /\ plan' = [plan EXCEPT !.requests = @ - 1]
    <2>1. PICK n \in Nat : plan' = [plan EXCEPT !.requests = n]
      BY <1>2, <1>3
    <2> QED BY <2>1 DEF TypedPlan, PlanRecord
  <1>4. CASE plan.ticks > 0 /\ plan' = [plan EXCEPT !.ticks = @ - 1]
    <2>1. PICK n \in Nat : plan' = [plan EXCEPT !.ticks = n]
      BY <1>2, <1>4
    <2> QED BY <2>1 DEF TypedPlan, PlanRecord
  <1> QED BY <1>1, <1>3, <1>4 DEF TypedPlan

LEMMA FilterInvKept == FilterInv /\ TypedPlan /\ [Next]_vars => FilterInv'
PROOF
  <1> SUFFICES ASSUME FilterInv, TypedPlan, [Next]_vars PROVE FilterInv'
    OBVIOUS
  <1>0. ForwardInv'
    BY ForwardInvKept DEF FilterInv
  <1>1. ASSUME request' \in {request, None} PROVE BodyInv'
    BY <1>1, Zenon DEF FilterInv, BodyInv, FilterIsTyped, FilterHasPassed, NamesAreChosen, WholeBodyPassed
  <1>2. \/ request' \in {request, None}
        \/ first_route \/ Connect \/ request_body_filter \/ Reconnect
        \/ \E body \in plan.bodies : request_filter(body)
    BY Zenon DEF Next, Forward, Refresh, logging, LogRequest, insert_batch, delete_provider, Tick, refetch,
             ProvidersAnswered, LogsAnswered, DataArrives, DataFails, AuditPage, vars, forwardVars
  <1>3. plan.bodies \subseteq Bodies
    BY DEF TypedPlan, PlanRecord
  <1>4. BodyInv'
    BY <1>1, <1>2, <1>3, FirstRouteKeepsBody, ConnectKeepsBody, FilterKeepsBody, ReconnectBeginsAgain,
       NewRequestIsWhole
  <1> QED BY <1>0, <1>4 DEF FilterInv

LEMMA FilterInvariance == Spec => [](FilterInv /\ TypedPlan)
PROOF
  <1>1. Init => FilterInv /\ TypedPlan
    <2> SUFFICES ASSUME Init PROVE FilterInv /\ TypedPlan
      OBVIOUS
    <2>1. plan \in Plans /\ request = None
      BY DEF Init, ForwardInit
    <2>2. TypedPlan
      BY <2>1, DashboardAssumption DEF TypedPlan
    <2> QED BY <2>1, <2>2, InitForwardInv
            DEF FilterInv, BodyInv, FilterIsTyped, FilterHasPassed, NamesAreChosen, WholeBodyPassed
  <1> QED BY <1>1, FilterInvKept, TypedPlanKept, PTL DEF Spec

\* A request goes out under one route (apply_route, upstream_peer,
\* upstream_request_filter, request_body_filter): host, key and the name in
\* its body agree, whichever of the two looks into the cache gave the route,
\* however often it is sent again and whatever the refresh thread puts in the
\* cache meanwhile.
THEOREM RequestsHaveOneRoute == Spec => []OneRoute
PROOF
  <1>1. FilterInv => OneRoute
    <2> SUFFICES ASSUME FilterInv, request # None, request.peer # None
                 PROVE  \E route \in Routes :
                            /\ request.key = route.provider
                            /\ request.peer = IF route.parses THEN route.provider ELSE OpenAI
                            /\ \A i \in DOMAIN request.sent : request.sent[i].model \in {route.model, None}
      BY DEF OneRoute
    <2>1. /\ request.ctx.provider_id # None /\ request.peer = upstream_peer
          /\ request.key = request.ctx.provider_key
      BY DEF FilterInv, ForwardInv, Connected
    <2>2. PICK route \in Routes :
              /\ request.ctx.upstream_model = route.model
              /\ request.ctx.provider_key = route.provider
              /\ request.ctx.upstream_host = IF route.parses THEN route.provider ELSE None
      BY <2>1, RouteOfRequest DEF FilterInv
    <2>3. route.provider # None
      BY ForwardingAssumption
    <2>4. request.peer = IF route.parses THEN route.provider ELSE OpenAI
      BY <2>1, <2>2, <2>3, Zenon DEF upstream_peer
    <2>5. DOMAIN request.sent = 1..Len(request.sent)
      BY DEF FilterInv, BodyInv, FilterIsTyped
    <2>6. \A i \in DOMAIN request.sent : request.sent[i].model \in {route.model, None}
      BY <2>2, <2>5 DEF FilterInv, BodyInv, NamesAreChosen
    <2> QED BY <2>1, <2>2, <2>4, <2>6
  <1> QED BY <1>1, FilterInvariance, PTL

LEMMA RewritingIsAsStated == FilterInv => RewritingWorks
PROOF
  <1> DEFINE body == request.body
             name == request.ctx.upstream_model
             sent == request.sent
             n == Len(body.chunks)
  <1> SUFFICES ASSUME FilterInv, Played, body.json, InOnePiece(body),
                      body.rest + Length[name] <= Total(body.chunks),
                      Total(request.body_buf) = Total(body.chunks)
               PROVE  Whole(sent, body, name)
    BY DEF RewritingWorks
  <1>1. request # None /\ request.left = <<>> /\ request.peer # None
    BY DEF Played
  <1>2. /\ body \in Bodies /\ sent \in Seq(Pieces)
        /\ Len(request.left) + Len(sent) = n
    BY <1>1 DEF FilterInv, BodyInv, FilterIsTyped, FilterHasPassed
  <1>3. n \in Nat \ {0} /\ Total(body.chunks) \in Nat /\ body.rest \in Nat
    BY <1>2, BodyType
  <1>4. Len(sent) = n
    <2>1. Len(request.left) = 0 /\ Len(sent) \in Nat
      BY <1>1, <1>2
    <2> QED BY <1>2, <2>1
  <1>5. name \in Names /\ name # None /\ Length[name] \in Nat
    <2>1. request.ctx.provider_id # None
      BY <1>1 DEF FilterInv, ForwardInv, Connected
    <2>2. name \in Names
      BY <1>1, <2>1, ModelOfRequest DEF FilterInv
    <2> QED BY <2>2, ForwardingAssumption
  <1>6. /\ \A i \in 1..Len(sent) : i < n => sent[i].length = 0
        /\ sent[n] = Piece(name, Padded(body.rest + Length[name], Total(body.chunks)))
    BY <1>1, <1>5 DEF FilterInv, BodyInv, WholeBodyPassed
  <1>7. Padded(body.rest + Length[name], Total(body.chunks)) = Total(body.chunks)
    <2> HIDE DEF body, name
    <2> QED BY <1>3, <1>5 DEF Padded
  <1> HIDE DEF body, name, sent, n
  <1>8. sent[Len(sent)] = Piece(name, Total(body.chunks))
    BY <1>4, <1>6, <1>7
  <1>9. \A i \in 1..(Len(sent) - 1) : sent[i].length = 0
    BY <1>3, <1>4, <1>6
  <1> QED BY <1>8, <1>9 DEF Whole

\* A JSON body in one piece that does not grow is rewritten as it should be
\* (request_body_filter), for any bodies, names, chunks and attempts.
THEOREM RewritingIsUnderstood == Spec => []RewritingWorks
PROOF
  <1> QED BY FilterInvariance, RewritingIsAsStated, PTL

-----------------------------------------------------------------------------
\* A row without a provider counts for none, the others for the provider that
\* got the request.
Credited(row) == row.provider = None \/ SentTo(row, row.provider)

\* Wherever a row is: on its way to the table, in it, in a fetch, on screen.
RowsAreCredited ==
    /\ \A row \in waiting \cup audit_logs : Credited(row) /\ "provider" \in DOMAIN row
    /\ fetch # None /\ fetch.logs # None => \A row \in fetch.logs : Credited(row)
    /\ view # None => \A row \in view.logs : Credited(row)

\* The providers a picture may name.
PicturesNameProviders ==
    /\ providers \subseteq Providers
    /\ fetch # None => DOMAIN fetch = {"providers", "logs", "of"}
    /\ fetch # None /\ fetch.providers # None => fetch.providers \subseteq Providers
    /\ view # None => view.providers \subseteq Providers

CreditInv == ForwardInv /\ RowsAreCredited /\ PicturesNameProviders

LEMMA InitCreditInv == Init => CreditInv
PROOF
  <1> SUFFICES ASSUME Init PROVE CreditInv
    OBVIOUS
  <1>1. ForwardInv
    BY InitForwardInv
  <1>2. plan \in Plans /\ audit_logs = plan.rows
    BY DEF Init
  <1>3. \A row \in plan.rows : Credited(row)
    BY <1>2, DashboardAssumption, Zenon DEF Credited
  <1>4. \A row \in plan.rows : "provider" \in DOMAIN row
    <2>1. plan.rows \subseteq Row
      BY <1>2, DashboardAssumption DEF PlanRecord
    <2>2. \A row \in Row : "provider" \in DOMAIN row
      BY DEF Row
    <2> QED BY <2>1, <2>2
  <1> QED BY <1>1, <1>2, <1>3, <1>4 DEF Init, CreditInv, RowsAreCredited, PicturesNameProviders

\* The row of a request tells where it went.
LEMMA LogRequestKeeps == CreditInv /\ LogRequest => CreditInv'
PROOF
  <1> SUFFICES ASSUME CreditInv, LogRequest PROVE CreditInv'
    OBVIOUS
  <1>1. ForwardInv'
    BY ForwardInvKept DEF CreditInv, Next, Forward
  <1>2. UNCHANGED <<providers, audit_logs, fetch, view>>
    BY DEF LogRequest, viewVars
  <1>3. ASSUME NEW latency, NEW code, NEW ahead, NEW row, row = AuditRow(latency, code, ahead)
        PROVE  Credited(row) /\ "provider" \in DOMAIN row
    <2> DEFINE host == request.ctx.upstream_host
    <2>1. /\ row.provider = request.ctx.provider_id
          /\ row.sent_to = request.peer
          /\ row.parses = (host # None)
          /\ "provider" \in DOMAIN row
      BY <1>3 DEF AuditRow
    <2>2. request # None /\ ForwardInv
      BY DEF LogRequest, logging, CreditInv
    <2>3. ASSUME row.sent_to \in {row.provider, None}
          PROVE  Credited(row)
      <3>1. SentTo(row, row.provider)
        BY <2>3, Zenon DEF SentTo
      <3> QED BY <3>1 DEF Credited
    <2>4. ASSUME row.sent_to = OpenAI, ~row.parses
          PROVE  Credited(row)
      BY <2>4, Zenon DEF Credited, SentTo
    <2>5. CASE request.peer = None
      BY <2>1, <2>3, <2>5
    <2>6. CASE request.peer # None
      <3>1. request.ctx.provider_id # None /\ request.peer = IF host = None THEN OpenAI ELSE host
        BY <2>2, <2>6, Zenon DEF ForwardInv, Connected, upstream_peer
      <3>2. host \in {request.ctx.provider_id, None}
        BY <2>2, <3>1, RouteOfRequest
      <3>3. CASE host = None
        <4>1. row.sent_to = OpenAI /\ ~row.parses
          BY <2>1, <3>1, <3>3
        <4> QED BY <2>1, <2>4, <4>1, Zenon
      <3>4. CASE host # None
        <4>1. row.sent_to = row.provider
          BY <2>1, <3>1, <3>2, <3>4
        <4> QED BY <2>1, <2>3, <4>1
      <3> QED BY <3>3, <3>4, Zenon
    <2> QED BY <2>5, <2>6, Zenon
  <1>4. \A row \in waiting' : row \in waiting \/ (Credited(row) /\ "provider" \in DOMAIN row)
    <2>1. \/ waiting' = waiting
          \/ \E latency, code, ahead : waiting' = waiting \cup {AuditRow(latency, code, ahead)}
      BY Zenon DEF LogRequest
    <2> QED BY <1>3, <2>1
  <1>5. RowsAreCredited'
    BY <1>2, <1>4 DEF CreditInv, RowsAreCredited
  <1>6. PicturesNameProviders'
    BY <1>2 DEF CreditInv, PicturesNameProviders
  <1> QED BY <1>1, <1>5, <1>6 DEF CreditInv

\* The table loses rows, or forgets their provider.
LEMMA TableKeeps ==
    ASSUME CreditInv, insert_batch \/ \E gone \in Providers : delete_provider(gone)
    PROVE  CreditInv'
PROOF
  <1>1. ForwardInv'
    BY ForwardInvKept DEF CreditInv, Next
  <1>2. UNCHANGED <<fetch, view>> /\ providers' \subseteq providers
    BY DEF insert_batch, delete_provider, viewVars
  <1>3. \A row \in waiting' \cup audit_logs' : Credited(row) /\ "provider" \in DOMAIN row
    <2>1. CASE insert_batch
      <3>1. waiting' \cup audit_logs' \subseteq waiting \cup audit_logs
        BY <2>1 DEF insert_batch
      <3> QED BY <3>1 DEF CreditInv, RowsAreCredited
    <2>2. ASSUME NEW gone \in Providers, delete_provider(gone)
          PROVE  \A row \in waiting' \cup audit_logs' : Credited(row) /\ "provider" \in DOMAIN row
      <3>1. waiting' = waiting /\ audit_logs' = {Forget(row, gone) : row \in audit_logs}
        BY <2>2 DEF delete_provider
      <3>2. ASSUME NEW row \in audit_logs
            PROVE  Credited(Forget(row, gone)) /\ "provider" \in DOMAIN Forget(row, gone)
        <4>1. Credited(row) /\ "provider" \in DOMAIN row
          BY DEF CreditInv, RowsAreCredited
        <4>2. CASE row.provider # gone
          BY <4>1, <4>2 DEF Forget
        <4>3. CASE row.provider = gone
          <5>1. Forget(row, gone) = [row EXCEPT !.provider = None]
            BY <4>3 DEF Forget
          <5>2. [row EXCEPT !.provider = None].provider = None /\ DOMAIN [row EXCEPT !.provider = None] = DOMAIN row
            BY <4>1, Zenon
          <5> QED BY <4>1, <5>1, <5>2, Zenon DEF Credited
        <4> QED BY <4>2, <4>3
      <3> QED BY <3>1, <3>2 DEF CreditInv, RowsAreCredited
    <2> QED BY <2>1, <2>2
  <1>4. RowsAreCredited'
    BY <1>2, <1>3 DEF CreditInv, RowsAreCredited
  <1>5. PicturesNameProviders'
    BY <1>2 DEF CreditInv, PicturesNameProviders
  <1> QED BY <1>1, <1>4, <1>5 DEF CreditInv

\* A fetch takes rows of the table and providers that exist.
LEMMA FetchKeeps ==
    ASSUME CreditInv, \/ refetch \/ ProvidersAnswered \/ LogsAnswered
                      \/ DataArrives \/ DataFails \/ AuditPage
    PROVE  CreditInv'
PROOF
  <1>1. ForwardInv'
    BY ForwardInvKept DEF CreditInv, Next
  <1>2. UNCHANGED <<waiting, audit_logs, providers>>
    BY DEF refetch, ProvidersAnswered, LogsAnswered, DataArrives, DataFails, AuditPage, tableVars
  <1>3. /\ fetch' # None /\ fetch'.logs # None => \A row \in fetch'.logs : Credited(row)
        /\ view' # None => \A row \in view'.logs : Credited(row)
        /\ PicturesNameProviders'
    <2>1. CASE refetch
      <3>1. fetch' = [providers |-> None, logs |-> None, of |-> {}] /\ view' = view
        BY <2>1 DEF refetch
      <3>2. fetch'.providers = None /\ fetch'.logs = None /\ DOMAIN fetch' = {"providers", "logs", "of"}
        BY <3>1
      <3> QED BY <1>2, <3>1, <3>2 DEF CreditInv, RowsAreCredited, PicturesNameProviders
    <2>2. CASE ProvidersAnswered
      <3>1. fetch # None /\ DOMAIN fetch = {"providers", "logs", "of"}
        BY <2>2 DEF ProvidersAnswered, CreditInv, PicturesNameProviders
      <3>2. fetch' = [fetch EXCEPT !.providers = providers] /\ view' = view
        BY <2>2, Zenon DEF ProvidersAnswered
      <3>3. fetch'.providers = providers /\ fetch'.logs = fetch.logs /\ DOMAIN fetch' = DOMAIN fetch
        BY <3>1, <3>2, Zenon
      <3> QED BY <1>2, <3>1, <3>2, <3>3, Zenon DEF CreditInv, RowsAreCredited, PicturesNameProviders
    <2>3. CASE LogsAnswered
      <3>1. fetch # None /\ DOMAIN fetch = {"providers", "logs", "of"}
        BY <2>3 DEF LogsAnswered, CreditInv, PicturesNameProviders
      <3>2. PICK found \in list_audit_logs(audit_logs) :
                fetch' = [fetch EXCEPT !.logs = found, !.of = audit_logs]
        BY <2>3, Zenon DEF LogsAnswered
      <3>3. fetch'.providers = fetch.providers /\ fetch'.logs = found /\ DOMAIN fetch' = DOMAIN fetch
        BY <3>1, <3>2, Zenon
      <3>4. found \subseteq audit_logs
        BY <3>2 DEF list_audit_logs
      <3>5. \A row \in found : Credited(row)
        BY <3>4 DEF CreditInv, RowsAreCredited
      <3>6. view' = view
        BY <2>3 DEF LogsAnswered
      <3> QED BY <1>2, <3>1, <3>3, <3>5, <3>6, Zenon DEF CreditInv, RowsAreCredited, PicturesNameProviders
    <2>4. CASE DataArrives
      <3>1. /\ fetch # None /\ fetch.providers # None /\ fetch.logs # None
            /\ view' = [providers |-> fetch.providers, logs |-> fetch.logs, of |-> fetch.of, at |-> now]
            /\ fetch' = None
        BY <2>4 DEF DataArrives
      <3>2. view'.logs = fetch.logs /\ view'.providers = fetch.providers
        BY <3>1
      <3> QED BY <1>2, <3>1, <3>2 DEF CreditInv, RowsAreCredited, PicturesNameProviders
    <2>5. CASE DataFails \/ AuditPage
      <3>1. fetch' \in {fetch, None} /\ view' = view
        BY <2>5 DEF DataFails, AuditPage
      <3> QED BY <1>2, <3>1 DEF CreditInv, RowsAreCredited, PicturesNameProviders
    <2> QED BY <2>1, <2>2, <2>3, <2>4, <2>5, Zenon
  <1>4. RowsAreCredited'
    BY <1>2, <1>3 DEF CreditInv, RowsAreCredited
  <1> QED BY <1>1, <1>3, <1>4 DEF CreditInv

LEMMA CreditInvKept == CreditInv /\ [Next]_vars => CreditInv'
PROOF
  <1> SUFFICES ASSUME CreditInv, [Next]_vars PROVE CreditInv'
    OBVIOUS
  <1>1. CASE UNCHANGED <<tableVars, fetch, view>>
    <2>1. ForwardInv'
      BY ForwardInvKept DEF CreditInv
    <2> QED BY <1>1, <2>1 DEF tableVars, CreditInv, RowsAreCredited, PicturesNameProviders
  <1>2. \/ UNCHANGED <<tableVars, fetch, view>>
        \/ LogRequest \/ insert_batch
        \/ \E gone \in Providers : delete_provider(gone)
        \/ refetch \/ ProvidersAnswered \/ LogsAnswered \/ DataArrives \/ DataFails \/ AuditPage
    BY Zenon DEF Next, Forward, Tick, vars, viewVars
  <1> QED BY <1>1, <1>2, LogRequestKeeps, TableKeeps, FetchKeeps, Zenon

\* The dashboard's mix (computeProviderMix) counts for a provider requests that
\* were sent to it, wherever configuration, table, fetch and picture stand.
THEOREM CreditIsDue == Spec => []CreditWhereDue
PROOF
  <1>1. CreditInv => CreditWhereDue
    <2> SUFFICES ASSUME CreditInv, view # None, NEW p \in view.providers
                 PROVE  DashboardPage(now).mix[p].count =
                            Cardinality({row \in mixRows(view.logs, p) : SentTo(row, p)})
      BY DEF CreditWhereDue
    <2>1. p # None
      <3>1. p \in Providers
        BY DEF CreditInv, PicturesNameProviders
      <3> QED BY <3>1, ForwardingAssumption DEF Providers
    <2>2. \A row \in mixRows(view.logs, p) : SentTo(row, p)
      BY <2>1 DEF mixRows, CreditInv, RowsAreCredited, Credited
    <2>3. {row \in mixRows(view.logs, p) : SentTo(row, p)} = mixRows(view.logs, p)
      BY <2>2
    <2>4. DashboardPage(now).mix = computeProviderMix(view)
      BY DEF DashboardPage
    <2>5. computeProviderMix(view)[p].count = Cardinality(mixRows(view.logs, p))
      BY Zenon DEF computeProviderMix
    <2> QED BY <2>3, <2>4, <2>5
  <1> QED BY <1>1, InitCreditInv, CreditInvKept, PTL DEF Spec
-----------------------------------------------------------------------------
\* The table and what is on its way to it; rows in it name providers that
\* exist.
TableOK ==
    /\ now \in Nat
    /\ waiting \subseteq Row /\ audit_logs \subseteq Row
    /\ IsFiniteSet(waiting) /\ IsFiniteSet(audit_logs)
    /\ \A row \in audit_logs : row.provider \in providers \cup {None}

\* A list of rows that the API may have given for some table.
IsAnswer(logs, of) == IsFiniteSet(of) /\ of \subseteq Row /\ logs \in list_audit_logs(of)

PicturesAreAnswers ==
    /\ fetch # None /\ fetch.logs # None => IsAnswer(fetch.logs, fetch.of)
    /\ view # None => IsAnswer(view.logs, view.of) /\ view.at \in 0..now
    /\ open \in Row \cup {None}

PictureInv == CreditInv /\ TypedPlan /\ TableOK /\ PicturesAreAnswers

\* What is logged of a request is a row.
LEMMA AuditRowType ==
    ASSUME ForwardInv, TypedPlan, now \in Nat, request # None,
           NEW latency \in Latencies, NEW code \in Codes, NEW ahead \in 0..Skew
    PROVE  AuditRow(latency, code, ahead) \in Row
PROOF
  <1>1. plan.requests \in Nat
    BY DEF TypedPlan, PlanRecord
  <1> DEFINE provider == request.ctx.provider_id
             host == request.ctx.upstream_host
             peer == request.peer
             count == plan.requests
             time == now + ahead
             parses == host # None
  <1>2. provider = None => host = None
    <2>1. ASSUME NEW route \in Routes, request.ctx = apply_route(new_ctx, route) PROVE provider # None
      <3>1. provider = route.provider
        BY <2>1, AppliedRoute, Zenon
      <3> QED BY <3>1, ForwardingAssumption
    <2> QED BY <2>1, NewContext DEF ForwardInv, ContextIsApplied
  <1>3. provider \in Providers \cup {None} /\ host \in {provider, None}
    BY <1>2, RouteOfRequest DEF Providers
  <1>4. peer \in Providers \cup {OpenAI, None}
    <2>1. CASE peer # None
      <3>1. peer = IF host = None THEN OpenAI ELSE host
        BY <2>1, Zenon DEF ForwardInv, Connected, upstream_peer
      <3> QED BY <1>3, <3>1
    <2> QED BY <2>1
  <1>5. now + ahead \in Nat
    BY DashboardAssumption
  <1> HIDE DEF provider, host, peer, count, time
  <1>6. AuditRow(latency, code, ahead) =
            [request_id |-> count, provider |-> provider, latency_ms |-> latency,
             status_code |-> code, created_at |-> time, sent_to |-> peer, parses |-> parses]
    BY Zenon DEF AuditRow, provider, host, peer, count, time
  <1>7. /\ count \in Nat /\ provider \in Providers \cup {None} /\ time \in Nat
        /\ peer \in Providers \cup {OpenAI, None} /\ parses \in BOOLEAN
    BY <1>1, <1>3, <1>4, <1>5 DEF count, time
  <1> HIDE DEF parses
  <1> QED BY <1>6, <1>7 DEF Row

\* A row that forgets its provider is a row.
LEMMA ForgetType ==
    ASSUME NEW row \in Row, NEW gone
    PROVE  /\ Forget(row, gone) \in Row
           /\ Forget(row, gone).provider = IF row.provider = gone THEN None ELSE row.provider
PROOF
  <1>1. CASE row.provider = gone
    <2>1. Forget(row, gone) = [row EXCEPT !.provider = None]
      BY <1>1 DEF Forget
    <2> QED BY <1>1, <2>1 DEF Row
  <1>2. CASE row.provider # gone
    BY <1>2 DEF Forget
  <1> QED BY <1>1, <1>2

LEMMA TableStepKeeps ==
    ASSUME PictureInv, \/ LogRequest \/ insert_batch \/ Tick
                       \/ \E gone \in Providers : delete_provider(gone)
    PROVE  TableOK' /\ PicturesAreAnswers'
PROOF
  <1>1. UNCHANGED <<fetch, view, open>>
    BY DEF LogRequest, insert_batch, Tick, delete_provider, viewVars
  <1>2. PicturesAreAnswers'
    <2>1. now \in Nat /\ now' \in {now, now + 1}
      BY DEF PictureInv, TableOK, LogRequest, insert_batch, Tick, delete_provider
    <2>2. view # None => view.at \in 0..now'
      BY <2>1 DEF PictureInv, PicturesAreAnswers
    <2> QED BY <1>1, <2>2, Zenon DEF PictureInv, PicturesAreAnswers
  <1>3. TableOK
    BY DEF PictureInv
  <1>4. CASE LogRequest
    <2>1. UNCHANGED <<now, providers, audit_logs>>
      BY <1>4 DEF LogRequest
    <2>2. \/ waiting' = waiting
          \/ \E latency \in Latencies, code \in Codes, ahead \in 0..Skew :
                waiting' = waiting \cup {AuditRow(latency, code, ahead)}
      BY <1>4, Zenon DEF LogRequest
    <2>3. request # None
      BY <1>4 DEF LogRequest, logging
    <2>4. waiting' = waiting \/ \E row \in Row : waiting' = waiting \cup {row}
      BY <1>3, <2>2, <2>3, AuditRowType, Zenon DEF PictureInv, CreditInv, TableOK
    <2>5. waiting' \subseteq Row /\ IsFiniteSet(waiting')
      BY <1>3, <2>4, FS_AddElement DEF TableOK
    <2> QED BY <1>2, <1>3, <2>1, <2>5 DEF TableOK
  <1>5. CASE insert_batch
    <2>1. PICK row \in waiting :
              /\ waiting' = waiting \ {row}
              /\ audit_logs' = IF row.provider \in providers \cup {None} THEN audit_logs \cup {row} ELSE audit_logs
              /\ UNCHANGED <<now, providers>>
      BY <1>5 DEF insert_batch
    <2>2. IsFiniteSet(waiting') /\ IsFiniteSet(audit_logs')
      BY <1>3, <2>1, FS_AddElement, FS_RemoveElement DEF TableOK
    <2> QED BY <1>2, <1>3, <2>1, <2>2 DEF TableOK
  <1>6. CASE Tick
    BY <1>2, <1>3, <1>6 DEF Tick, tableVars, TableOK
  <1>7. ASSUME NEW gone \in Providers, delete_provider(gone) PROVE TableOK'
    <2>1. /\ audit_logs' = {Forget(row, gone) : row \in audit_logs}
          /\ providers' = providers \ {gone}
          /\ UNCHANGED <<now, waiting>>
      BY <1>7 DEF delete_provider
    <2>2. IsFiniteSet({Forget(row, gone) : row \in audit_logs})
      <3> DEFINE image == {Forget(row, gone) : row \in audit_logs}
                 f == [row \in audit_logs |-> Forget(row, gone)]
      <3>1. f \in Surjection(audit_logs, image)
        BY DEF Surjection
      <3>2. IsFiniteSet(audit_logs)
        BY <1>3 DEF TableOK
      <3> HIDE DEF f, image
      <3>3. IsFiniteSet(image)
        BY <3>1, <3>2, FS_Surjection
      <3> QED BY <3>3 DEF image
    <2>3. \A row \in audit_logs : /\ Forget(row, gone) \in Row
                                  /\ Forget(row, gone).provider \in providers' \cup {None}
      <3> TAKE row \in audit_logs
      <3>1. row \in Row /\ row.provider \in providers \cup {None}
        BY <1>3 DEF TableOK
      <3> QED BY <2>1, <3>1, ForgetType
    <2> QED BY <1>3, <2>1, <2>2, <2>3 DEF TableOK
  <1> QED BY <1>2, <1>4, <1>5, <1>6, <1>7

LEMMA PictureStepKeeps ==
    ASSUME PictureInv, \/ refetch \/ ProvidersAnswered \/ LogsAnswered
                       \/ DataArrives \/ DataFails \/ AuditPage
    PROVE  TableOK' /\ PicturesAreAnswers'
PROOF
  <1>1. UNCHANGED <<now, providers, waiting, audit_logs>>
    BY DEF refetch, ProvidersAnswered, LogsAnswered, DataArrives, DataFails, AuditPage, tableVars
  <1>2. TableOK'
    BY <1>1 DEF PictureInv, TableOK
  <1>3. /\ PicturesAreAnswers /\ now' = now
        /\ fetch # None => DOMAIN fetch = {"providers", "logs", "of"}
    BY <1>1 DEF PictureInv, CreditInv, PicturesNameProviders
  <1>4. CASE refetch
    <2>1. fetch' = [providers |-> None, logs |-> None, of |-> {}] /\ UNCHANGED <<view, open>>
      BY <1>4 DEF refetch
    <2>2. fetch'.logs = None
      BY <2>1
    <2> QED BY <1>2, <1>3, <2>1, <2>2, Zenon DEF PicturesAreAnswers
  <1>5. CASE ProvidersAnswered
    <2>1. fetch # None /\ fetch' = [fetch EXCEPT !.providers = providers] /\ UNCHANGED <<view, open>>
      BY <1>5 DEF ProvidersAnswered
    <2>2. fetch'.logs = fetch.logs /\ fetch'.of = fetch.of
      BY <1>3, <2>1, Zenon
    <2> QED BY <1>2, <1>3, <2>1, <2>2, Zenon DEF PicturesAreAnswers
  <1>6. CASE LogsAnswered
    <2>1. PICK found \in list_audit_logs(audit_logs) :
              fetch' = [fetch EXCEPT !.logs = found, !.of = audit_logs]
      BY <1>6, Zenon DEF LogsAnswered
    <2>2. fetch # None /\ UNCHANGED <<view, open>>
      BY <1>6 DEF LogsAnswered
    <2>3. fetch'.logs = found /\ fetch'.of = audit_logs
      BY <1>3, <2>1, <2>2, Zenon
    <2>4. IsAnswer(found, audit_logs)
      BY <2>1, Zenon DEF PictureInv, TableOK, IsAnswer
    <2> QED BY <1>2, <1>3, <2>2, <2>3, <2>4, Zenon DEF PicturesAreAnswers
  <1>7. CASE DataArrives
    <2>1. /\ fetch # None /\ fetch.logs # None /\ fetch' = None /\ open' = open
          /\ view' = [providers |-> fetch.providers, logs |-> fetch.logs, of |-> fetch.of, at |-> now]
      BY <1>7 DEF DataArrives
    <2>2. view'.logs = fetch.logs /\ view'.of = fetch.of /\ view'.at = now
      BY <2>1
    <2>3. now' = now /\ now \in 0..now
      BY <1>1 DEF PictureInv, TableOK
    <2> QED BY <1>2, <1>3, <2>1, <2>2, <2>3, Zenon DEF PicturesAreAnswers
  <1>8. CASE DataFails
    <2>1. fetch' = None /\ UNCHANGED <<view, open>>
      BY <1>8 DEF DataFails
    <2> QED BY <1>2, <1>3, <2>1, Zenon DEF PicturesAreAnswers
  <1>9. CASE AuditPage
    <2>1. view # None /\ open' \in view.logs \cup {None} /\ UNCHANGED <<fetch, view>>
      BY <1>9 DEF AuditPage
    <2>2. view.logs \subseteq Row
      BY <1>3, <2>1 DEF PicturesAreAnswers, IsAnswer, list_audit_logs
    <2>3. open' \in Row \cup {None}
      BY <2>1, <2>2
    <2> QED BY <1>2, <1>3, <2>1, <2>3, Zenon DEF PicturesAreAnswers
  <1> QED BY <1>4, <1>5, <1>6, <1>7, <1>8, <1>9

LEMMA PictureInvKept == PictureInv /\ [Next]_vars => PictureInv'
PROOF
  <1> SUFFICES ASSUME PictureInv, [Next]_vars PROVE PictureInv'
    OBVIOUS
  <1>1. CreditInv' /\ TypedPlan'
    BY CreditInvKept, TypedPlanKept DEF PictureInv
  <1>2. CASE UNCHANGED <<now, tableVars, viewVars>>
    <2>1. UNCHANGED <<now, waiting, audit_logs, providers, fetch, view, open>>
      BY <1>2 DEF tableVars, viewVars
    <2>2. TableOK'
      BY <2>1 DEF PictureInv, TableOK
    <2>3. PicturesAreAnswers'
      BY <2>1, Zenon DEF PictureInv, PicturesAreAnswers
    <2> QED BY <1>1, <2>2, <2>3 DEF PictureInv
  <1>3. \/ UNCHANGED <<now, tableVars, viewVars>>
        \/ LogRequest \/ insert_batch \/ Tick
        \/ \E gone \in Providers : delete_provider(gone)
        \/ refetch \/ ProvidersAnswered \/ LogsAnswered \/ DataArrives \/ DataFails \/ AuditPage
    BY Zenon DEF Next, Forward, vars
  <1>4. TableOK' /\ PicturesAreAnswers'
    BY <1>2, <1>3, TableStepKeeps, PictureStepKeeps DEF PictureInv
  <1> QED BY <1>1, <1>4 DEF PictureInv

LEMMA PictureInvariance == Spec => []PictureInv
PROOF
  <1>1. Init => PictureInv
    <2> SUFFICES ASSUME Init PROVE PictureInv
      OBVIOUS
    <2>1. plan \in Plans /\ audit_logs = plan.rows /\ providers = Providers
      BY DEF Init
    <2>2. /\ plan \in PlanRecord /\ IsFiniteSet(plan.rows)
          /\ \A row \in plan.rows : row.provider = None \/ SentTo(row, row.provider)
      BY <2>1, DashboardAssumption
    <2>3. plan.rows \subseteq Row
      BY <2>2 DEF PlanRecord
    <2>4. \A row \in plan.rows : row.provider \in Providers \cup {None}
      BY <2>3 DEF Row
    <2>5. IsFiniteSet({}) /\ now \in Nat
      BY FS_EmptySet, DashboardAssumption DEF Init
    <2>6. TableOK
      BY <2>1, <2>2, <2>3, <2>4, <2>5 DEF Init, TableOK
    <2>7. PicturesAreAnswers
      BY DEF Init, PicturesAreAnswers
    <2> QED BY <2>2, <2>6, <2>7, InitCreditInv DEF PictureInv, TypedPlan
  <1> QED BY <1>1, PictureInvKept, PTL DEF Spec
-----------------------------------------------------------------------------
LEMMA MinOfTwo ==
    ASSUME NEW a \in Int, NEW b \in Int
    PROVE  Min({a, b}) = IF a <= b THEN a ELSE b
PROOF
  <1>1. Min({a, b}) = CHOOSE x \in {a, b} : \A y \in {a, b} : x <= y
    BY Zenon DEF Min
  <1>2. CASE a <= b
    <2>1. \A x \in {a, b} : (\A y \in {a, b} : x <= y) <=> x = a
      BY <1>2
    <2> QED BY <1>1, <1>2, <2>1
  <1>3. CASE ~(a <= b)
    <2>1. \A x \in {a, b} : (\A y \in {a, b} : x <= y) <=> x = b
      BY <1>3
    <2> QED BY <1>1, <1>3, <2>1
  <1> QED BY <1>2, <1>3

LEMMA MaxOfTwo ==
    ASSUME NEW a \in Int, NEW b \in Int
    PROVE  Max({a, b}) = IF a >= b THEN a ELSE b
PROOF
  <1>1. Max({a, b}) = CHOOSE x \in {a, b} : \A y \in {a, b} : x >= y
    BY Zenon DEF Max
  <1>2. CASE a >= b
    <2>1. \A x \in {a, b} : (\A y \in {a, b} : x >= y) <=> x = a
      BY <1>2
    <2> QED BY <1>1, <1>2, <2>1
  <1>3. CASE ~(a >= b)
    <2>1. \A x \in {a, b} : (\A y \in {a, b} : x >= y) <=> x = b
      BY <1>3
    <2> QED BY <1>1, <1>3, <2>1
  <1> QED BY <1>2, <1>3

\* What is known of a list of rows.
LEMMA AnswerFacts ==
    ASSUME NEW logs, NEW of, IsAnswer(logs, of)
    PROVE  /\ logs \subseteq of /\ of \subseteq Row /\ IsFiniteSet(logs) /\ IsFiniteSet(of)
           /\ Cardinality(logs) \in Nat /\ Cardinality(of) \in Nat
           /\ Cardinality(logs) = IF LogLimit <= Cardinality(of) THEN LogLimit ELSE Cardinality(of)
           /\ \A row \in logs, other \in of \ logs : row.created_at >= other.created_at
           /\ \A row \in of : row.created_at \in Nat
PROOF
  <1>1. /\ IsFiniteSet(of) /\ of \subseteq Row /\ logs \in SUBSET of
        /\ Cardinality(logs) = Min({LogLimit, Cardinality(of)})
        /\ \A row \in logs, other \in of \ logs : row.created_at >= other.created_at
    BY DEF IsAnswer, list_audit_logs
  <1>2. IsFiniteSet(logs) /\ Cardinality(logs) \in Nat /\ Cardinality(of) \in Nat
    BY <1>1, FS_Subset, FS_CardinalityType
  <1>3. Min({LogLimit, Cardinality(of)}) = IF LogLimit <= Cardinality(of) THEN LogLimit ELSE Cardinality(of)
    BY <1>2, MinOfTwo, DashboardAssumption
  <1>4. \A row \in of : row.created_at \in Nat
    BY <1>1 DEF Row
  <1> QED BY <1>1, <1>2, <1>3, <1>4

\* The rows of a day, of a picture and of its table.
LEMMA RequestsOfAnswer ==
    ASSUME NEW logs, NEW of, IsAnswer(logs, of), NEW clock \in Nat
    PROVE  Cardinality(last24(logs, clock)) = Min({LogLimit, Cardinality(last24(of, clock))})
PROOF
  <1>1. /\ logs \subseteq of /\ IsFiniteSet(logs) /\ IsFiniteSet(of)
        /\ Cardinality(logs) \in Nat /\ Cardinality(of) \in Nat
        /\ Cardinality(logs) = IF LogLimit <= Cardinality(of) THEN LogLimit ELSE Cardinality(of)
        /\ \A row \in logs, other \in of \ logs : row.created_at >= other.created_at
        /\ \A row \in of : row.created_at \in Nat
    BY AnswerFacts
  <1>2. LogLimit \in Nat /\ Day * Hour \in Nat
    BY DashboardAssumption
  <1> DEFINE A == last24(logs, clock)
             B == last24(of, clock)
  <1>3. A \subseteq B /\ A \subseteq logs /\ B \subseteq of
    BY <1>1 DEF last24
  <1>4. /\ IsFiniteSet(A) /\ IsFiniteSet(B) /\ Cardinality(A) \in Nat /\ Cardinality(B) \in Nat
        /\ Cardinality(A) <= Cardinality(B) /\ Cardinality(A) <= Cardinality(logs)
        /\ Cardinality(B) <= Cardinality(of)
    BY <1>1, <1>3, FS_Subset, FS_CardinalityType
  <1>5. Min({LogLimit, Cardinality(B)}) = IF LogLimit <= Cardinality(B) THEN LogLimit ELSE Cardinality(B)
    BY <1>2, <1>4, MinOfTwo
  <1>6. CASE Cardinality(of) < LogLimit
    <2>1. logs = of
      BY <1>1, <1>2, <1>6, FS_Subset
    <2>2. A = B
      BY <2>1
    <2> HIDE DEF A, B
    <2>3. Cardinality(A) = Min({LogLimit, Cardinality(B)})
      BY <1>1, <1>2, <1>4, <1>5, <1>6, <2>2
    <2> QED BY <2>3 DEF A, B
  <1>7. CASE LogLimit <= Cardinality(of) /\ logs \subseteq A
    <2>1. A = logs
      BY <1>3, <1>7
    <2> HIDE DEF A, B
    <2> QED BY <1>1, <1>2, <1>4, <1>5, <1>7, <2>1 DEF A, B
  <1>8. CASE LogLimit <= Cardinality(of) /\ ~(logs \subseteq A)
    <2>1. PICK old \in logs : ~(clock - old.created_at <= Day * Hour)
      BY <1>8 DEF last24
    <2>2. ASSUME NEW row \in B PROVE row \in logs
      <3>1. row \in of /\ clock - row.created_at <= Day * Hour
        BY DEF last24
      <3>2. old.created_at \in Nat /\ row.created_at \in Nat
        BY <1>1, <3>1
      <3>3. ~(old.created_at >= row.created_at)
        BY <1>2, <2>1, <3>1, <3>2
      <3> QED BY <1>1, <2>1, <3>1, <3>3
    <2>3. A = B
      BY <1>3, <2>2 DEF last24
    <2> HIDE DEF A, B
    <2> QED BY <1>1, <1>2, <1>4, <1>5, <1>8, <2>3 DEF A, B
  <1> QED BY <1>1, <1>2, <1>6, <1>7, <1>8

\* The figures of the page, by their names.
LEMMA PageFigures ==
    ASSUME NEW clock
    PROVE  /\ DashboardPage(clock).stats.requests = Cardinality(last24(view.logs, clock))
           /\ DashboardPage(clock).stats.p95 = percentile(last24(view.logs, clock), 95)
           /\ DashboardPage(clock).stats.median = percentile(last24(view.logs, clock), 50)
           /\ DashboardPage(clock).volume = hourlyBuckets(view.logs, Day)
           /\ DashboardPage(clock).recent = recent(view.logs)
PROOF
  <1>1. /\ DashboardPage(clock).stats = computeStats(view.logs, clock)
        /\ DashboardPage(clock).volume = hourlyBuckets(view.logs, Day)
        /\ DashboardPage(clock).recent = recent(view.logs)
    BY DEF DashboardPage
  <1>2. /\ computeStats(view.logs, clock).requests = Cardinality(last24(view.logs, clock))
        /\ computeStats(view.logs, clock).p95 = percentile(last24(view.logs, clock), 95)
        /\ computeStats(view.logs, clock).median = percentile(last24(view.logs, clock), 50)
    BY DEF computeStats
  <1> QED BY <1>1, <1>2

\* The number of requests of a day is right up to the limit of the list
\* (list_audit_logs, computeStats), for any limit, table and time of looking.
THEOREM DayIsCounted == Spec => []RequestsAreOfTheDay
PROOF
  <1>1. PictureInv => RequestsAreOfTheDay
    <2> SUFFICES ASSUME PictureInv, view # None, NEW clock \in view.at..now
                 PROVE  DashboardPage(clock).stats.requests =
                            Min({LogLimit, Cardinality(last24(view.of, clock))})
      BY DEF RequestsAreOfTheDay
    <2>1. IsAnswer(view.logs, view.of) /\ clock \in Nat
      BY DEF PictureInv, PicturesAreAnswers, TableOK
    <2>2. Cardinality(last24(view.logs, clock)) = Min({LogLimit, Cardinality(last24(view.of, clock))})
      BY <2>1, RequestsOfAnswer
    <2>3. DashboardPage(clock).stats.requests = Cardinality(last24(view.logs, clock))
      BY PageFigures
    <2> QED BY <2>2, <2>3
  <1> QED BY <1>1, PictureInvariance, PTL
-----------------------------------------------------------------------------
\* t lists the members of T, each once, by their values.
Lists(t, T, val) ==
    /\ t \in [1..Cardinality(T) -> T]
    /\ \A i, j \in 1..Cardinality(T) : i # j => t[i] # t[j]
    /\ \A i, j \in 1..Cardinality(T) : i < j => val[t[i]] <= val[t[j]]

\* A set that is one larger is listed with its least member in front.
LEMMA ListOneMore ==
    ASSUME NEW T, NEW val \in [T -> Nat], NEW n \in Nat, Cardinality(T) = n + 1,
           NEW x \in T, \A y \in T : val[x] <= val[y],
           NEW t, Lists(t, T \ {x}, val), Cardinality(T \ {x}) = n
    PROVE  \E s : Lists(s, T, val)
PROOF
  <1> DEFINE s == [i \in 1..(n + 1) |-> IF i = 1 THEN x ELSE t[i - 1]]
  <1>1. /\ t \in [1..n -> T \ {x}]
        /\ \A i, j \in 1..n : i # j => t[i] # t[j]
        /\ \A i, j \in 1..n : i < j => val[t[i]] <= val[t[j]]
    BY Zenon DEF Lists
  <1>2. \A i \in 2..(n + 1) : i - 1 \in 1..n /\ s[i] = t[i - 1] /\ t[i - 1] \in T \ {x}
    BY <1>1
  <1>3. s[1] = x
    OBVIOUS
  <1>4. \A i \in 1..(n + 1) : i = 1 \/ i \in 2..(n + 1)
    OBVIOUS
  <1>5. s \in [1..(n + 1) -> T]
    BY <1>2, <1>4
  <1> HIDE DEF s
  <1>6. ASSUME NEW i \in 1..(n + 1), NEW j \in 1..(n + 1), i < j
        PROVE  s[i] # s[j] /\ val[s[i]] <= val[s[j]]
    <2>1. j \in 2..(n + 1)
      BY <1>6
    <2>2. s[j] = t[j - 1] /\ s[j] \in T \ {x} /\ j - 1 \in 1..n
      BY <1>2, <2>1
    <2>3. CASE i = 1
      BY <1>3, <2>2, <2>3
    <2>4. CASE i # 1
      <3>1. i \in 2..(n + 1) /\ i - 1 \in 1..n /\ i - 1 < j - 1 /\ i - 1 # j - 1
        BY <1>6, <2>4
      <3>2. s[i] = t[i - 1]
        BY <1>2, <3>1
      <3> QED BY <1>1, <2>2, <3>1, <3>2
    <2> QED BY <2>3, <2>4
  <1>7. \A i, j \in 1..(n + 1) : i # j => s[i] # s[j]
    <2> SUFFICES ASSUME NEW i \in 1..(n + 1), NEW j \in 1..(n + 1), i # j PROVE s[i] # s[j]
      OBVIOUS
    <2>1. i < j \/ j < i
      OBVIOUS
    <2> QED BY <1>6, <2>1
  <1> QED BY <1>5, <1>6, <1>7 DEF Lists

\* A finite set can be listed by any values of its members.
LEMMA ListExists ==
    ASSUME NEW S, IsFiniteSet(S), NEW val \in [S -> Nat]
    PROVE  \E s : Lists(s, S, val)
PROOF
  <1> DEFINE Listed(T) == \E s : Lists(s, T, val)
             Bad == {n \in Nat : \E T \in SUBSET S : Cardinality(T) = n /\ ~Listed(T)}
  <1>1. Bad = {}
    <2> SUFFICES ASSUME Bad # {} PROVE FALSE
      OBVIOUS
    <2>1. PICK n \in Bad : \A m \in Bad : n <= m
      <3>1. Bad \in SUBSET Nat
        OBVIOUS
      <3> QED BY <3>1, LeastNatural, Zenon
    <2>2. n \in Nat
      OBVIOUS
    <2>3. PICK T \in SUBSET S : Cardinality(T) = n /\ ~Listed(T)
      OBVIOUS
    <2>4. IsFiniteSet(T)
      BY FS_Subset
    <2>5. CASE n = 0
      <3>1. Lists([i \in 1..0 |-> 0], T, val)
        BY <2>3, <2>5 DEF Lists
      <3> QED BY <2>3, <3>1
    <2>6. CASE n # 0
      <3>1. T # {}
        BY <2>3, <2>6, FS_EmptySet
      <3>2. PICK x \in T : \A y \in T : val[x] <= val[y]
        <4> DEFINE V == {val[y] : y \in T}
        <4>1. V \in SUBSET Nat /\ V # {}
          BY <3>1
        <4>2. \E v \in V : \A w \in V : v <= w
          <5> HIDE DEF V
          <5> QED BY <4>1, LeastNatural
        <4> QED BY <4>2
      <3>3. n - 1 \in Nat /\ Cardinality(T) = (n - 1) + 1 /\ Cardinality(T \ {x}) = n - 1
        <4>1. Cardinality(T \ {x}) = Cardinality(T) - 1
          BY <2>4, FS_RemoveElement
        <4> HIDE DEF Listed, Bad
        <4> QED BY <2>2, <2>3, <2>6, <4>1
      <3>4. n - 1 \notin Bad
        BY <2>1, <2>2
      <3>5. T \ {x} \in SUBSET S
        OBVIOUS
      <3> HIDE DEF Listed
      <3>6. Listed(T \ {x})
        BY <3>3, <3>4, <3>5
      <3> HIDE DEF Bad
      <3>7. PICK t : Lists(t, T \ {x}, val)
        BY <3>6, Zenon DEF Listed
      <3>8. \E s : Lists(s, T, [y \in T |-> val[y]])
        <4> DEFINE restricted == [y \in T |-> val[y]]
        <4>1. restricted \in [T -> Nat] /\ \A y \in T : restricted[y] = val[y]
          OBVIOUS
        <4>2. t \in [1..Cardinality(T \ {x}) -> T \ {x}]
          BY <3>7, Zenon DEF Lists
        <4>3. Lists(t, T \ {x}, restricted)
          <5>1. \A i \in 1..Cardinality(T \ {x}) : t[i] \in T
            BY <4>2
          <5> HIDE DEF restricted
          <5>2. \A i \in 1..Cardinality(T \ {x}) : restricted[t[i]] = val[t[i]]
            BY <4>1, <5>1
          <5> QED BY <3>7, <5>2, Zenon DEF Lists
        <4>4. \A y \in T : restricted[x] <= restricted[y]
          BY <3>2
        <4> HIDE DEF restricted
        <4>5. \E s : Lists(s, T, restricted)
          BY <3>3, <4>1, <4>3, <4>4, ListOneMore
        <4> QED BY <4>5 DEF restricted
      <3>9. PICK s : Lists(s, T, [y \in T |-> val[y]])
        BY <3>8
      <3>10. Lists(s, T, val)
        <4>1. \A i \in 1..Cardinality(T) : s[i] \in T
          BY <3>9 DEF Lists
        <4>2. \A i \in 1..Cardinality(T) : [y \in T |-> val[y]][s[i]] = val[s[i]]
          BY <4>1
        <4> QED BY <3>9, <4>2, Zenon DEF Lists
      <3> QED BY <2>3, <3>10 DEF Listed
    <2> QED BY <2>5, <2>6
  <1>2. Cardinality(S) \in Nat
    BY FS_CardinalityType
  <1> QED BY <1>1, <1>2

\* by_latency lists the rows, fastest first.
LEMMA ByLatency ==
    ASSUME NEW logs, IsFiniteSet(logs), logs \subseteq Row
    PROVE  /\ by_latency(logs) \in [1..Cardinality(logs) -> logs]
           /\ \A i, j \in 1..Cardinality(logs) : i # j => by_latency(logs)[i] # by_latency(logs)[j]
           /\ \A i, j \in 1..Cardinality(logs) :
                 i < j => by_latency(logs)[i].latency_ms <= by_latency(logs)[j].latency_ms
PROOF
  <1> DEFINE val == [row \in logs |-> row.latency_ms]
             n == Cardinality(logs)
             Fits(s) == \A i, j \in DOMAIN s : i < j => s[i].latency_ms <= s[j].latency_ms
  <1>1. val \in [logs -> Nat]
    BY DashboardAssumption DEF Row
  <1>2. PICK s : Lists(s, logs, val)
    <2> HIDE DEF val
    <2> QED BY <1>1, ListExists
  <1>3. s \in [1..n -> logs] /\ \A i, j \in 1..n : i # j => s[i] # s[j]
    BY <1>2 DEF Lists
  <1>4. Fits(s)
    BY <1>2, <1>3 DEF Lists
  <1>5. s \in SetToSeqs(logs)
    BY <1>3 DEF SetToSeqs
  <1>6. by_latency(logs) = CHOOSE t \in SetToSeqs(logs) : Fits(t)
    BY Zenon DEF by_latency
  <1> HIDE DEF Fits
  <1>7. by_latency(logs) \in SetToSeqs(logs) /\ Fits(by_latency(logs))
    BY <1>4, <1>5, <1>6, Zenon
  <1>8. /\ by_latency(logs) \in [1..n -> logs]
        /\ \A i, j \in 1..n : i # j => by_latency(logs)[i] # by_latency(logs)[j]
    BY <1>7 DEF SetToSeqs
  <1> QED BY <1>7, <1>8 DEF Fits

\* rows lists them newest first.
LEMMA NewestFirst ==
    ASSUME NEW logs, IsFiniteSet(logs), logs \subseteq Row
    PROVE  /\ rows(logs) \in [1..Cardinality(logs) -> logs]
           /\ \A i, j \in 1..Cardinality(logs) : i < j => ~Newer(rows(logs)[j], rows(logs)[i])
PROOF
  <1> DEFINE val == [row \in logs |-> row.created_at]
             n == Cardinality(logs)
             Fits(s) == \A i, j \in DOMAIN s : i < j => ~Newer(s[j], s[i])
  <1>0. n \in Nat
    BY FS_CardinalityType
  <1>1. val \in [logs -> Nat]
    BY DEF Row
  <1>2. PICK t : Lists(t, logs, val)
    <2> HIDE DEF val
    <2> QED BY <1>1, ListExists
  <1>3. /\ t \in [1..n -> logs] /\ \A i, j \in 1..n : i # j => t[i] # t[j]
        /\ \A i, j \in 1..n : i < j => t[i].created_at <= t[j].created_at
    BY <1>2 DEF Lists
  <1> DEFINE s == [i \in 1..n |-> t[n + 1 - i]]
  <1> HIDE DEF n
  <1>4. \A i \in 1..n : n + 1 - i \in 1..n
    BY <1>0
  <1>5. s \in [1..n -> logs] /\ \A i \in 1..n : s[i] = t[n + 1 - i]
    BY <1>3, <1>4
  <1> HIDE DEF s
  <1>6. \A i, j \in 1..n : i # j => s[i] # s[j]
    <2> SUFFICES ASSUME NEW i \in 1..n, NEW j \in 1..n, i # j PROVE s[i] # s[j]
      OBVIOUS
    <2>1. n + 1 - i # n + 1 - j
      BY <1>0
    <2> QED BY <1>3, <1>4, <1>5, <2>1
  <1>7. ASSUME NEW i \in 1..n, NEW j \in 1..n, i < j PROVE ~Newer(s[j], s[i])
    <2>1. n + 1 - j < n + 1 - i
      BY <1>0, <1>7
    <2>2. t[n + 1 - j].created_at <= t[n + 1 - i].created_at
      BY <1>3, <1>4, <2>1
    <2>3. s[i].created_at \in Nat /\ s[j].created_at \in Nat
      BY <1>5 DEF Row
    <2> QED BY <1>5, <2>2, <2>3 DEF Newer
  <1>8. Fits(s)
    BY <1>5, <1>7
  <1>9. s \in SetToSeqs(logs)
    BY <1>5, <1>6 DEF SetToSeqs, n
  <1>10. rows(logs) = CHOOSE r \in SetToSeqs(logs) : Fits(r)
    BY Zenon DEF rows
  <1> HIDE DEF Fits
  <1>11. rows(logs) \in SetToSeqs(logs) /\ Fits(rows(logs))
    BY <1>8, <1>9, <1>10, Zenon
  <1>12. rows(logs) \in [1..n -> logs]
    BY <1>11 DEF SetToSeqs, n
  <1> QED BY <1>11, <1>12 DEF Fits, n

\* Rounding up.
LEMMA CeilingMeans ==
    ASSUME NEW m \in Nat
    PROVE  /\ Ceiling(m, 100) \in Int
           /\ 100 * (Ceiling(m, 100) - 1) < m
           /\ m <= 100 * Ceiling(m, 100)
PROOF
  <1> DEFINE q == (-m) \div 100
  <1>1. q \in Int /\ 100 * q <= -m /\ -m < 100 * (q + 1)
    OBVIOUS
  <1> QED BY <1>1 DEF Ceiling

\* percentile is the nearest rank.
LEMMA PercentileIsRank ==
    ASSUME NEW logs, IsFiniteSet(logs), logs \subseteq Row, logs # {}, NEW p \in 1..100
    PROVE  IsPercentile(logs, p, percentile(logs, p))
PROOF
  <1> DEFINE n == Cardinality(logs)
             m == p * n
             c == Ceiling(m, 100)
             s == by_latency(logs)
             v == s[c].latency_ms
             upTo(w) == {row \in logs : row.latency_ms <= w}
  <1>1. n \in Nat \ {0}
    BY FS_CardinalityType, FS_EmptySet
  <1>2. m \in Nat /\ 1 <= m /\ m <= 100 * n
    <2>1. m \in Nat
      BY <1>1
    <2>2. m >= 1 * n
      BY <1>1
    <2>3. m <= 100 * n
      BY <1>1
    <2> HIDE DEF m, n
    <2> QED BY <1>1, <2>1, <2>2, <2>3
  <1>3. c \in Int /\ 100 * (c - 1) < m /\ m <= 100 * c
    <2> HIDE DEF m
    <2> QED BY <1>2, CeilingMeans
  <1>4. c \in 1..n
    <2> HIDE DEF c, m, n
    <2> QED BY <1>1, <1>2, <1>3
  <1>5. percentile(logs, p) = v
    <2>1. Max({0, c - 1}) = c - 1
      <3> HIDE DEF c, n
      <3>1. 0 \in Int /\ c - 1 \in Int /\ c - 1 >= 0
        BY <1>4
      <3>2. Max({0, c - 1}) = IF 0 >= c - 1 THEN 0 ELSE c - 1
        BY <3>1, MaxOfTwo
      <3> QED BY <3>1, <3>2
    <2>2. Min({n - 1, c - 1}) = c - 1
      <3> HIDE DEF c, n
      <3>1. n - 1 \in Int /\ c - 1 \in Int /\ c - 1 <= n - 1
        BY <1>1, <1>4
      <3>2. Min({n - 1, c - 1}) = IF n - 1 <= c - 1 THEN n - 1 ELSE c - 1
        BY <3>1, MinOfTwo
      <3> QED BY <3>1, <3>2
    <2>3. percentile(logs, p) = s[Min({n - 1, Max({0, c - 1})}) + 1].latency_ms
      BY Zenon DEF percentile
    <2>4. (c - 1) + 1 = c
      <3> HIDE DEF c
      <3> QED BY <1>3
    <2> QED BY <2>1, <2>2, <2>3, <2>4, Zenon
  <1>6. /\ s \in [1..n -> logs]
        /\ \A i, j \in 1..n : i # j => s[i] # s[j]
        /\ \A i, j \in 1..n : i < j => s[i].latency_ms <= s[j].latency_ms
    BY ByLatency
  <1>7. \A row \in logs : row.latency_ms \in Nat
    BY DashboardAssumption DEF Row
  <1> HIDE DEF s, c, m
  <1>8. \A row \in logs : \E i \in 1..n : s[i] = row
    <2>1. s \in Injection(1..n, logs)
      BY <1>6 DEF Injection, IsInjective
    <2>2. Cardinality(1..n) = n
      <3> HIDE DEF n
      <3>1. 1 \in Int /\ n \in Int
        BY <1>1
      <3> QED BY <1>1, <3>1, FS_Interval
    <2>3. s \in Surjection(1..n, logs)
      BY <2>1, <2>2, FS_Injection
    <2> QED BY <2>3 DEF Surjection
  <1>9. v \in Nat /\ s[c] \in logs
    BY <1>4, <1>6, <1>7
  <1>10. /\ IsFiniteSet(upTo(v)) /\ Cardinality(upTo(v)) \in Nat
         /\ IsFiniteSet(upTo(v - 1)) /\ Cardinality(upTo(v - 1)) \in Nat
    <2>1. upTo(v) \subseteq logs /\ upTo(v - 1) \subseteq logs
      OBVIOUS
    <2> QED BY <2>1, FS_Subset, FS_CardinalityType
  <1>11. c <= Cardinality(upTo(v))
    <2> DEFINE f == [i \in 1..c |-> s[i]]
    <2>1. \A i \in 1..c : i \in 1..n /\ s[i] \in upTo(v)
      <3> TAKE i \in 1..c
      <3>1. i \in 1..n /\ (i = c \/ i < c)
        BY <1>1, <1>4
      <3>2. s[i].latency_ms <= v
        BY <1>4, <1>6, <1>9, <3>1
      <3> QED BY <1>6, <3>1, <3>2
    <2>2. f \in [1..c -> upTo(v)]
      BY <2>1
    <2>3. f \in Injection(1..c, upTo(v))
      BY <1>6, <2>1, <2>2 DEF Injection, IsInjective
    <2>4. Cardinality(1..c) = c
      <3>1. 1 \in Int /\ c \in Int /\ c >= 1
        BY <1>3, <1>4
      <3> QED BY <3>1, FS_Interval
    <2> HIDE DEF f, upTo
    <2>5. Cardinality(1..c) <= Cardinality(upTo(v))
      BY <1>10, <2>3, FS_Injection
    <2> QED BY <2>4, <2>5
  <1>12. Cardinality(upTo(v - 1)) <= c - 1
    <2> DEFINE f == [i \in 1..(c - 1) |-> s[i]]
               W == {s[i] : i \in 1..(c - 1)}
    <2>1. f \in Surjection(1..(c - 1), W)
      BY DEF Surjection
    <2>2. IsFiniteSet(1..(c - 1)) /\ Cardinality(1..(c - 1)) = c - 1
      <3>1. 1 \in Int /\ c - 1 \in Int /\ c - 1 >= 0
        BY <1>3, <1>4
      <3>2. /\ IsFiniteSet(1..(c - 1))
            /\ Cardinality(1..(c - 1)) = IF 1 > c - 1 THEN 0 ELSE (c - 1) - 1 + 1
        BY <3>1, FS_Interval
      <3> QED BY <3>1, <3>2
    <2>3. upTo(v - 1) \subseteq W
      <3> SUFFICES ASSUME NEW row \in logs, row.latency_ms <= v - 1 PROVE row \in W
        OBVIOUS
      <3>1. PICK i \in 1..n : s[i] = row
        BY <1>8
      <3>2. ASSUME i >= c PROVE FALSE
        <4>1. v <= s[i].latency_ms
          BY <1>4, <1>6, <1>9, <3>2
        <4> QED BY <1>7, <1>9, <3>1, <4>1
      <3>3. i \in 1..(c - 1)
        BY <1>3, <3>2
      <3> QED BY <3>1, <3>3
    <2> HIDE DEF f, W, upTo
    <2>4. IsFiniteSet(W) /\ Cardinality(W) <= c - 1
      BY <2>1, <2>2, FS_Surjection
    <2>5. Cardinality(upTo(v - 1)) <= Cardinality(W) /\ Cardinality(W) \in Nat
      BY <2>3, <2>4, FS_Subset, FS_CardinalityType
    <2> QED BY <1>3, <1>10, <2>4, <2>5
  <1>13. 100 * Cardinality(upTo(v)) >= m /\ 100 * Cardinality(upTo(v - 1)) < m
    <2> HIDE DEF upTo, v
    <2> QED BY <1>2, <1>3, <1>10, <1>11, <1>12
  <1>14. \E row \in logs : row.latency_ms = v
    BY <1>9
  <1>15. IsPercentile(logs, p, v)
    <2> HIDE DEF v
    <2> QED BY <1>13, <1>14, Zenon DEF IsPercentile, m, n
  <1> QED BY <1>5, <1>15

\* The latencies shown (percentile) are the nearest ranks, for any number of
\* rows.
THEOREM LatenciesAreNearestRanks == Spec => []LatenciesAreRanks
PROOF
  <1>1. PictureInv => LatenciesAreRanks
    <2> SUFFICES ASSUME PictureInv, view # None, NEW clock \in view.at..now, last24(view.logs, clock) # {}
                 PROVE  /\ IsPercentile(last24(view.logs, clock), 95, DashboardPage(clock).stats.p95)
                        /\ IsPercentile(last24(view.logs, clock), 50, DashboardPage(clock).stats.median)
      BY DEF LatenciesAreRanks
    <2>1. IsAnswer(view.logs, view.of)
      BY DEF PictureInv, PicturesAreAnswers
    <2>2. IsFiniteSet(view.logs) /\ view.logs \subseteq Row
      BY <2>1, AnswerFacts
    <2>3. IsFiniteSet(last24(view.logs, clock)) /\ last24(view.logs, clock) \subseteq Row
      BY <2>2, FS_Subset DEF last24
    <2>4. 95 \in 1..100 /\ 50 \in 1..100
      OBVIOUS
    <2> QED BY <2>3, <2>4, PercentileIsRank, PageFigures
  <1> QED BY <1>1, PictureInvariance, PTL

\* What the page lists as recent is newest first.
LEMMA RecentIsNewest ==
    ASSUME NEW logs, IsFiniteSet(logs), logs \subseteq Row
    PROVE  \A i, j \in 1..Len(recent(logs)) : i < j => ~Newer(recent(logs)[j], recent(logs)[i])
PROOF
  <1> DEFINE n == Cardinality(logs)
             r == rows(logs)
             k == Min({5, n})
  <1>1. n \in Nat
    BY FS_CardinalityType
  <1>2. r \in [1..n -> logs] /\ \A i, j \in 1..n : i < j => ~Newer(r[j], r[i])
    BY NewestFirst
  <1>3. k \in 0..n
    <2> HIDE DEF n
    <2>1. Min({5, n}) = IF 5 <= n THEN 5 ELSE n
      BY <1>1, MinOfTwo
    <2> QED BY <1>1, <2>1
  <1>4. recent(logs) = SubSeq(r, 1, k)
    BY Zenon DEF recent
  <1> HIDE DEF k, r, n
  <1>5. r \in Seq(logs) /\ Len(r) = n
    BY <1>1, <1>2
  <1>6. Len(recent(logs)) = k /\ \A i \in 1..k : recent(logs)[i] = r[i]
    <2>1. k \in 0..Len(r)
      BY <1>3, <1>5
    <2> QED BY <1>4, <1>5, <2>1
  <1> QED BY <1>1, <1>2, <1>3, <1>6

\* The types, and the foreign key of audit_logs: insert_batch and
\* delete_provider keep it between them.
THEOREM TypeCorrect == Spec => []TypeOK
PROOF
  <1>1. PictureInv => TypeOK
    <2> SUFFICES ASSUME PictureInv PROVE TypeOK
      OBVIOUS
    <2>1. TableOK /\ PicturesAreAnswers
      BY DEF PictureInv
    <2>2. ASSUME view # None
          PROVE  /\ view.logs \subseteq view.of /\ Cardinality(view.logs) <= LogLimit
                 /\ \A i, j \in 1..Len(DashboardPage(now).recent) :
                       i < j => ~Newer(DashboardPage(now).recent[j], DashboardPage(now).recent[i])
      <3>1. IsAnswer(view.logs, view.of)
        BY <2>1, <2>2 DEF PicturesAreAnswers
      <3>2. /\ view.logs \subseteq view.of /\ view.logs \subseteq Row /\ IsFiniteSet(view.logs)
            /\ Cardinality(view.of) \in Nat
            /\ Cardinality(view.logs) = IF LogLimit <= Cardinality(view.of) THEN LogLimit ELSE Cardinality(view.of)
        BY <3>1, AnswerFacts
      <3>3. Cardinality(view.logs) <= LogLimit
        BY <3>2, DashboardAssumption
      <3>4. DashboardPage(now).recent = recent(view.logs)
        BY PageFigures
      <3>5. \A i, j \in 1..Len(recent(view.logs)) :
                i < j => ~Newer(recent(view.logs)[j], recent(view.logs)[i])
        BY <3>2, RecentIsNewest
      <3> QED BY <3>2, <3>3, <3>4, <3>5, Zenon
    <2>3. /\ waiting \subseteq Row /\ audit_logs \subseteq Row /\ open \in Row \cup {None}
          /\ \A row \in audit_logs : row.provider \in providers \cup {None}
      BY <2>1 DEF TableOK, PicturesAreAnswers
    <2> QED BY <2>2, <2>3, Zenon DEF TypeOK
  <1> QED BY <1>1, PictureInvariance, PTL
-----------------------------------------------------------------------------
\* Rounding down a time to hours.
LEMMA HoursMeans ==
    ASSUME NEW a \in Int, NEW h \in Nat \ {0}, NEW d \in Nat
    PROVE  /\ a \div h \in Int
           /\ a \div h \in 0..(d - 1) <=> 0 <= a /\ a < d * h
PROOF
  <1> DEFINE q == a \div h
  <1>1. q \in Int /\ q * h <= a /\ a < (q + 1) * h
    BY SMT
  <1> HIDE DEF q
  <1>2. q >= 0 => a >= 0
    BY <1>1
  <1>3. q <= -1 => a < 0
    <2>1. q <= -1 => (q + 1) * h <= 0
      BY <1>1
    <2>2. (q + 1) * h \in Int
      BY <1>1
    <2> QED BY <1>1, <2>1, <2>2
  <1>4. q + 1 <= d => a < d * h
    <2>1. q + 1 <= d => (q + 1) * h <= d * h
      BY <1>1
    <2>2. (q + 1) * h \in Int /\ d * h \in Int
      BY <1>1
    <2> QED BY <1>1, <2>1, <2>2
  <1>5. q >= d => a >= d * h
    <2>1. q >= d => q * h >= d * h
      BY <1>1
    <2>2. q * h \in Int /\ d * h \in Int
      BY <1>1
    <2> QED BY <1>1, <2>1, <2>2
  <1>6. q \in 0..(d - 1) <=> 0 <= a /\ a < d * h
    <2>1. d * h \in Int
      OBVIOUS
    <2> QED BY <1>1, <1>2, <1>3, <1>4, <1>5, <2>1
  <1> QED BY <1>1, <1>6 DEF q

\* The first k bars show the rows of as many hours, the oldest of the chart.
LEMMA BarsSoFar ==
    ASSUME NEW logs, IsFiniteSet(logs), \A row \in logs : hoursAgo(row) \in Int, NEW k \in 0..Day
    PROVE  PartialSums(hourlyBuckets(logs, Day))[k] =
               Cardinality({row \in logs : hoursAgo(row) \in (Day - k)..(Day - 1)})
PROOF
  <1> DEFINE bars == hourlyBuckets(logs, Day)
             bar(l) == {row \in logs : hoursAgo(row) = Day - l}
             upTo(l) == {row \in logs : hoursAgo(row) \in (Day - l)..(Day - 1)}
             Bad == {l \in 0..Day : PartialSums(bars)[l] # Cardinality(upTo(l))}
  <1>0. Day \in Nat \ {0}
    BY DashboardAssumption
  <1>1. \A l : IsFiniteSet(bar(l)) /\ Cardinality(bar(l)) \in Nat /\ IsFiniteSet(upTo(l)) /\ Cardinality(upTo(l)) \in Nat
    <2> TAKE l
    <2>1. bar(l) \in SUBSET logs /\ upTo(l) \in SUBSET logs
      OBVIOUS
    <2> HIDE DEF bar, upTo
    <2> QED BY <2>1, FS_Subset, FS_CardinalityType
  <1>2. bars = [l \in 1..Day |-> Cardinality(bar(l))]
    BY DEF hourlyBuckets
  <1>3. bars \in Seq(Nat) /\ Len(bars) = Day /\ \A l \in 1..Day : bars[l] = Cardinality(bar(l))
    <2>1. \A l \in 1..Day : Cardinality(bar(l)) \in Nat
      BY <1>1
    <2> DEFINE count(l) == Cardinality(bar(l))
    <2> HIDE DEF count, bar, bars
    <2>2. bars = [l \in 1..Day |-> count(l)] /\ \A l \in 1..Day : count(l) \in Nat
      BY <1>2, <2>1 DEF count
    <2>3. bars \in Seq(Nat) /\ Len(bars) = Day /\ \A l \in 1..Day : bars[l] = count(l)
      BY <1>0, <2>2
    <2> QED BY <2>3 DEF count
  <1>4. /\ PartialSums(bars)[0] = 0
        /\ \A l \in 1..Day : PartialSums(bars)[l] = PartialSums(bars)[l - 1] + bars[l]
    <2> HIDE DEF bars
    <2> QED BY <1>3, PartialSumsDef
  <1>5. Bad = {}
    <2> SUFFICES ASSUME Bad # {} PROVE FALSE
      OBVIOUS
    <2>1. PICK l \in Bad : \A m \in Bad : l <= m
      <3>1. Bad \in SUBSET Nat
        OBVIOUS
      <3> QED BY <3>1, LeastNatural, Zenon
    <2>2. l \in 0..Day /\ PartialSums(bars)[l] # Cardinality(upTo(l))
      BY <2>1
    <2>3. CASE l = 0
      <3>1. upTo(0) = {}
        BY <1>0
      <3>2. Cardinality(upTo(0)) = 0
        BY <3>1, FS_EmptySet
      <3> HIDE DEF bars, upTo
      <3> QED BY <1>4, <2>2, <2>3, <3>2
    <2>4. CASE l # 0
      <3>1. l \in 1..Day /\ l - 1 \in 0..Day
        BY <1>0, <2>2, <2>4
      <3>2. PartialSums(bars)[l - 1] = Cardinality(upTo(l - 1))
        BY <2>1, <3>1
      <3>3. upTo(l) = upTo(l - 1) \cup bar(l) /\ upTo(l - 1) \cap bar(l) = {}
        BY <1>0, <3>1
      <3> HIDE DEF bars, upTo, bar
      <3>4. Cardinality(upTo(l)) = Cardinality(upTo(l - 1)) + Cardinality(bar(l)) - Cardinality(upTo(l - 1) \cap bar(l))
        BY <1>1, <3>3, FS_Union
      <3>5. Cardinality(upTo(l)) = Cardinality(upTo(l - 1)) + Cardinality(bar(l))
        <4>1. Cardinality(upTo(l - 1) \cap bar(l)) = 0
          BY <3>3, FS_EmptySet
        <4> QED BY <1>1, <3>4, <4>1
      <3> QED BY <1>3, <1>4, <2>2, <3>1, <3>2, <3>5
    <2> QED BY <2>3, <2>4
  <1>6. k \notin Bad
    BY <1>5
  <1> HIDE DEF bars, upTo
  <1> QED BY <1>6 DEF bars, upTo

\* A row of the figure is in one of the bars, or outside.
LEMMA FigureAndBars ==
    ASSUME NEW logs, IsFiniteSet(logs), logs \subseteq Row, now \in Nat, NEW clock \in 0..now
    PROVE  Total(hourlyBuckets(logs, Day))
               + Cardinality({row \in last24(logs, clock) : \/ now - row.created_at >= Day * Hour
                                                           \/ row.created_at > now})
             = Cardinality(last24(logs, clock))
PROOF
  <1> DEFINE d == Day * Hour
             inside == {row \in logs : hoursAgo(row) \in (Day - Day)..(Day - 1)}
             figure == last24(logs, clock)
             outside == {row \in figure : now - row.created_at >= d \/ row.created_at > now}
  <1>1. Day \in Nat \ {0} /\ Hour \in Nat \ {0} /\ d \in Nat \ {0}
    BY DashboardAssumption
  <1>2. \A row \in logs : row.created_at \in Nat
    BY DEF Row
  <1>3. \A row \in logs : /\ hoursAgo(row) \in Int
                          /\ hoursAgo(row) \in 0..(Day - 1) <=> 0 <= now - row.created_at /\ now - row.created_at < d
    <2> TAKE row \in logs
    <2>1. now - row.created_at \in Int
      BY <1>2
    <2> QED BY <1>1, <2>1, HoursMeans DEF hoursAgo
  <1>4. Total(hourlyBuckets(logs, Day)) = Cardinality(inside)
    <2>1. Len(hourlyBuckets(logs, Day)) = Day
      BY <1>1 DEF hourlyBuckets
    <2>2. Day \in 0..Day
      BY <1>1
    <2> QED BY <1>3, <2>1, <2>2, BarsSoFar DEF Total
  <1>5. Day - Day = 0
    BY <1>1
  <1> HIDE DEF d
  <1>6. inside = {row \in logs : 0 <= now - row.created_at /\ now - row.created_at < d}
    BY <1>3, <1>5
  <1>7. figure = {row \in logs : clock - row.created_at <= d}
    BY Zenon DEF last24, d
  <1> HIDE DEF inside
  <1>8. figure = inside \cup outside /\ inside \cap outside = {}
    <2> HIDE DEF figure
    <2>1. \A row \in inside : row \in figure /\ row \notin outside
      <3> SUFFICES ASSUME NEW row \in inside PROVE row \in figure /\ row \notin outside
        OBVIOUS
      <3>1. row \in logs /\ now - row.created_at < d /\ ~(row.created_at > now) /\ row.created_at \in Nat
        BY <1>1, <1>2, <1>6
      <3>2. clock - row.created_at <= d /\ ~(now - row.created_at >= d)
        BY <1>1, <3>1
      <3> QED BY <1>7, <3>1, <3>2
    <2>2. \A row \in figure : row \in inside \/ row \in outside
      <3> SUFFICES ASSUME NEW row \in figure, row \notin outside PROVE row \in inside
        OBVIOUS
      <3>1. row \in logs /\ row.created_at \in Nat
        BY <1>2, <1>7
      <3>2. 0 <= now - row.created_at /\ now - row.created_at < d
        BY <1>1, <3>1
      <3> QED BY <1>6, <3>1, <3>2
    <2> QED BY <2>1, <2>2
  <1>9. /\ IsFiniteSet(inside) /\ Cardinality(inside) \in Nat
        /\ IsFiniteSet(outside) /\ Cardinality(outside) \in Nat
    <2>1. inside \in SUBSET logs /\ outside \in SUBSET logs
      BY <1>6, <1>7
    <2> HIDE DEF outside
    <2> QED BY <2>1, FS_Subset, FS_CardinalityType
  <1> HIDE DEF outside, figure
  <1>10. Cardinality(inside \cup outside) = Cardinality(inside) + Cardinality(outside) - Cardinality(inside \cap outside)
    BY <1>9, FS_Union
  <1>11. Cardinality(inside \cup outside) = Cardinality(inside) + Cardinality(outside)
    <2>1. Cardinality(inside \cap outside) = 0
      BY <1>8, FS_EmptySet
    <2> QED BY <1>9, <1>10, <2>1
  <1> QED BY <1>4, <1>8, <1>9, <1>11 DEF outside, figure, d

\* Chart and figure agree but for rows on the day's edge and rows from ahead
\* (hourlyBuckets, computeStats), for any lengths of day and hour and however
\* far apart the two readings of the clock are.
THEOREM ChartAddsUp == Spec => []BarsAddUp
PROOF
  <1>1. PictureInv => BarsAddUp
    <2> SUFFICES ASSUME PictureInv, view # None, NEW clock \in view.at..now
                 PROVE  LET outside == {row \in last24(view.logs, clock) :
                                            \/ now - row.created_at >= Day * Hour
                                            \/ row.created_at > now}
                        IN  Total(DashboardPage(clock).volume) + Cardinality(outside) =
                                DashboardPage(clock).stats.requests
      BY DEF BarsAddUp
    <2>1. IsAnswer(view.logs, view.of) /\ now \in Nat /\ clock \in 0..now
      BY DEF PictureInv, PicturesAreAnswers, TableOK
    <2>2. IsFiniteSet(view.logs) /\ view.logs \subseteq Row
      BY <2>1, AnswerFacts
    <2> QED BY <2>1, <2>2, FigureAndBars, PageFigures
  <1> QED BY <1>1, PictureInvariance, PTL
=============================================================================
