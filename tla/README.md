# A TLA+ model of RustGateway

RustGateway is an LLM gateway in two processes that share a PostgreSQL
database: `gateway` (Rust, on pingora) authenticates chat-completion requests,
limits their rate, rewrites the model name and forwards them to a provider;
`admin-api` (Rust, on axum), with a console in the browser, edits the tables the
gateway is configured from and shows the traffic. This directory holds TLA+
modules of the parts where that can go wrong, TLC configurations that check
them on small instances, and theorems, checked by TLAPS for every value of the
constants.

    tlc -config RateLimiter.cfg MCRateLimiter      # any run of the table below
    tlapm RateLimiterProofs.tla                    # the proofs
    tlapm RouteSelectionProofs.tla
    tlapm RoutingProofs.tla
    tlapm GatewayProofs.tla
    tlapm ConfigCacheProofs.tla
    tlapm AuditWriterProofs.tla
    tlapm DashboardProofs.tla
    tlapm AdminConsoleProofs.tla

Every safety invariant and every action property of the passing runs is also a
theorem, and so are both refinements; the four liveness properties are checked
by TLC only.

## 1. The system

| component | source | state | operations | interacts with |
|---|---|---|---|---|
| Request pipeline | `gateway/src/proxy.rs` (`ProxyHttp for LlmGateway`) | one `RequestContext` per request; gauge and counters | `new_ctx`, `request_filter`, `request_body_filter`, `upstream_peer`, header filters, `logging` | reads the cache under its `RwLock` (four times per request), the limiter's and the round-robin mutex, sends rows to the audit channel |
| Rate limiter | `proxy.rs:36-93` | `RateLimitStore`: a deque of entries per key hash | `check_rate_limit`, `record_rate_limit` | called twice by `request_filter`, each time under the store's mutex |
| Route selection | `proxy.rs:166-201`, `ORDER BY` of `db.rs:130` | `rr_counters`, one cursor per model | `select_route` | reads the cache's `ModelTarget` |
| Configuration cache | `gateway/src/db.rs` | `GatewayCache`: key hashes, model routes, rate limits | `start_db_thread`: connect, three queries, replace, sleep | reads the tables; writes the cache |
| Audit writer | `gateway/src/audit_writer.rs`, end of `logging` | channel of 8192 rows, batch of up to 256 | `try_send`, receive, coalesce, `insert_batch` | rows of `audit_logs`, whose foreign keys the admin API's deletions disturb |
| Control-plane tables | `admin-api/src/repositories.rs`, `routes.rs`, `deploy/sql` | models, providers, provider models, policies with rules and routes, API keys with policies | create / update / delete / rotate / attach / detach | their only reader in the data plane is the refresh thread |
| Policy updates and concurrent requests | `repositories.rs` (`update_mapping_policy`), `routes.rs` | open transactions, row locks | UPDATE, DELETE, INSERT, COMMIT at READ COMMITTED | the tables; two administrators at once |
| Body rewriting, upstream peer | `proxy.rs`: `apply_route`, `upstream_peer`, `upstream_request_filter`, `request_body_filter` | the context's route and host, `body_buf`, `body_rewritten` | per connection: connect, send headers, pass chunks, replace the last by the rewritten body, pad | pingora, which may lose a connection and repeat the request on another |
| Admin console | `admin-web/src`: `lib/api.ts`, `hooks`, `stores`, `features/admin` | the picture of the tables (one query), section and selection, per page a draft, requests in flight | fetch, navigate, edit, save, add, delete, attach, rotate, fetch models | the admin API: six requests per fetch, one or more per save |
| Dashboard and audit page | `dashboard-page.tsx`, `audit-page.tsx`, `list_audit_logs` | none but the picture and the open row | figures, charts, provider mix, drawer | the newest 100 rows of `audit_logs`, the browser's clock |
| Upstream model discovery | `admin-api/src/upstream_models.rs` | – | one HTTP request | provider |
| Gateway process | `gateway/src/main.rs`, `config.rs` | – | start the threads, wait 2 s, serve | – |
| Admin API process, migrations | `admin-api/src/main.rs`, `db.rs`, `deploy/sql` | the schema | run five scripts at every start | database |
| Shared types | `crates/common` | – | SHA-256, bearer token, data types | – |
| Presentation | `admin-web/src/components` | – | frames, cards, badges, formatting | – |
| Deployment; design mock-ups | `deploy/`, `Makefile`; `design-console/` | – | charts and compose files; a drawing of the console on invented data | – |

What is hard here, and hardly reached by a test:

* **Check, then act.** The limiter checks under one lock and records under the
  next; the pipeline reads key, limits, route and fallback route from the cache
  under four locks, two of them after awaiting the client's body, while the
  refresh thread may replace the cache between any two.
* **Reading while the other side writes.** A refresh is three queries outside
  any transaction; the admin API commits between them.
* **Doing things twice.** pingora repeats a request on a new connection and
  plays the body through the filter again, with the context of the first time.
* **Stale pictures.** The console's picture is put together from six requests
  at different moments; drafts are made from it, edited while it is replaced,
  and written back whole while answers to older requests are still to come.
* **Partial failure.** A failing query, insert or upstream; a request whose
  task panics; a batch in which one row is refused; a save that is done but not
  acknowledged.
* **Bounds.** A full channel, a batch that never fills, a deque that nobody
  prunes, a cursor that wraps, a walk along weights at its ends.
* **Long sequences of legal calls.** Rotations, deletions and cascades that must
  never leave a dangling reference.

What makes each component correct:

* *Limiter*: a key gets no more than its limit per minute – as far as the worker
  threads, and changes of the limit meanwhile, allow –, is not rejected without
  cause, and its deque stays short.
* *Cache*: it lags behind the tables by a bounded number of refreshes, revoked
  keys disappear, granted ones appear, whatever fails in between.
* *Tables*: references resolve, whatever is deleted in whatever order.
* *Route selection*: shares are as the weights say, round robin is fair,
  priority takes a preferred route.
* *Pipeline*: gauge and counters balance; what is forwarded was authorised and
  routed by a configuration that was current while the request was handled; it was
  compared with a limit unless such a configuration had none; the audit row tells
  the outcome.
* *Audit writer*: rows accepted are settled in order, once; nothing stays in
  limbo; nothing is lost but by a refused batch or the end of the process.
* *Body and peer*: on every connection host, key and model name are those of one
  route; a body that comes in one piece and does not grow is rewritten rightly
  (others are not: `forwarding_body` below).
* *Policy updates*: a policy is a document, replaced whole and once or not at
  all.
* *Console*: a save goes to the item its draft was made from; a refresh takes
  nothing away that is being edited; what was acknowledged is shown in the end.
* *Dashboard*: figures, bars and credits agree with the rows and with each other.

## 2. Modules

```
RateLimiter ── MCRateLimiter          RouteSelection ─┬─ Routing ── MCRouting
     └── RateLimiterProofs                 │          └─ Gateway ── MCGateway
                                  RouteSelectionProofs ─┬─ RoutingProofs (and Routing)
                                                        └─ GatewayProofs (and Gateway)

ControlPlane ─┬─ ConfigCache ── MCConfigCache
              │       └── ConfigCacheProofs
              └─ AdminApi ── AdminData ── ConsoleStore ── { ModelPage, ProviderPage,
                    │        PolicyPage, ApiKeyPage } ── AdminConsole ── MCAdminConsole
                    └─(implements)─> PolicyDocuments           └── AdminConsoleProofs

AuditTrail <─(implements)─ AuditWriter ── MCAuditWriter
                                └── AuditWriterProofs

Forwarding ── Dashboard ── MCDashboard
                   └── DashboardProofs
```

**RateLimiter.** `store` is the `RateLimitStore`, `now` the monotonic clock in
ticks, `limits` the cache's rate limits, which `Refresh` replaces at any moment by
any of `Configs`: a key's limit may appear, rise, fall or vanish between two
requests and while a request is inside. A request is `idle`, `limited` (it has
copied its key's limits into `config` and has some), `checking` (it has read the
clock and waits for the first lock) or `admitted` (it has yet to record; a request
without limits gets here at once). `check_rate_limit` prunes, compares with
`config` and rejects or admits in one step, as it does under the lock;
`record_rate_limit` appends under the second. Nothing is awaited from reading
the clock to the second lock, so a request occupies a worker thread meanwhile:
`Workers` of them are there at a time. pingora runs one thread per service
unless its configuration file (`Opt::parse_args`, `main.rs`) says otherwise;
the model takes any number. Two variables are history only: `recorded` remembers
all admissions, each with the limit it was checked against, and `room[k]` what the
admissions of a key let its deque hold; the properties compare the deque with
them. Ages are truncated to seconds
(`as_secs`), which is why an entry counts for up to a second more than the
window: `SecTicks` keeps that visible. Entries always carry zero tokens and the
per-day limits are never read, as in the code: a key with such limits only is
never rejected.

**ControlPlane** holds the tables and one action per operation of
`repositories.rs` that changes them, with the cascades of `deploy/sql`. Ids and
hashes come from a generator that is assumed never to repeat itself (`used`), as
UUIDs and random key bytes do not; no property is about that. It has no `Next`
of its own; **ConfigCache** extends it and interleaves `AdminOp` with the refresh
thread: `Connect`, the three loading queries, each of which sees the tables of
its own moment, `QueryFails` at any of them, `Replace`. The cache is a set of
tagged entries, so that "entry e is in the cache" and "the tables imply e" can be compared one entry at a time;
`settled[e]` counts the refreshes since the tables changed their mind about e.
`LastRowWins` is the `insert` loop of `load_rate_limits`.

**RouteSelection** has the order of the routes and `select_route`'s arithmetic
as pure operators; the walk along the weights is a recursive function.
**Routing** puts them to use: refreshes replace a model's target, requests pick,
the cursor survives. The weighted arm is checked against its reference
definition: counting, for every value of the roll, which route it picks.

**Gateway** is the life of a request, one step per lock taken and per await:
`Arrive`, `CheckHead`, `LookUpKey`, `LookUpLimits`, `check_rate_limit`,
`record_rate_limit`, `ReadBody`, `select_route`, `Fallback`, `Forward`,
`BodyFilterPanics`, `UpstreamAnswers`, `logging`; `ReplaceCache` stands for the
refresh thread (its insides are ConfigCache's) and `EntryExpires` for time in
the limiter (its insides are RateLimiter's). `span[r]` collects the caches that
were current since request r arrived: what a request may legitimately have seen.

**AuditTrail** is the promise: rows are accepted or refused on the spot, the
accepted ones are settled in order, once, in groups that share one fate.
**AuditWriter** is the code: `try_send` on a bounded channel, the writer's
states `connecting`, `receiving`, `coalescing`, `inserting`, `stopped`, an insert
that fails if the database is gone or if a row names an entity deleted since
(foreign keys of `audit_logs`), the channel closing, the process ending. The
refinement needs no mapping beyond the names: `accepted`, `refused`, `done`.

**PolicyDocuments** is the promise made to whoever saves a mapping policy: each
save takes effect whole and in one step, or fails. **AdminApi** is the code: a
set of requests in flight, each `sent`, `replaced` (a transaction whose
statements are done), `ok` or `failed`. `Replace` are the statements of
`update_mapping_policy`, whose row lock makes a second update, and a deletion,
of the same policy wait; `Commit` makes them visible, and takes away only the
routes the transaction's DELETE saw. `Refuse` and `LoseAnswer` are the ways a
request can fail, before and after its effect. The refinement maps the tables
to documents and the requests under way to pending saves.

**AdminData** is the console's one query: `fetch.seen` collects the tables since
the fetch began, and `Arrive` puts a picture together from any of them that its
statements, in their order, may have found. A change acknowledged to this
console invalidates the query and begins a new fetch. **ConsoleStore** has the
store, React's life cycle of the page (a page is remounted when its key, the
item's id, changes, and only then) and what the handlers are made of;
**ModelPage**, **ProviderPage**, **PolicyPage** and **ApiKeyPage** have one action per
handler and per answer a handler waits for. A handler whose page is gone goes
on and no longer reaches the page's state: `calls[c].page`. **AdminConsole**
composes console, API and other administrators.

**Forwarding** is one authorised request on its way upstream, with `current`, the
route it would be given now, changing under it: the context, set field by field
by `apply_route`, from the first look into the cache (`request_filter`: the
body's model) or the second (`first_route`: the first route available), one or
more connections, the body played through `request_body_filter` chunk by chunk on
each. Bytes are counted, not spelled: a body has the lengths of its chunks and the
length of what serialising it again writes besides the model name, and a piece
sent has its length and the model name written into it, if any. **Dashboard** extends it with what becomes
of the request's row: handed to an audit writer, stored later, forgotten by a
deleted provider, listed, fetched and turned into figures. The page reads the
browser's clock twice, for the figures (`computeStats`, dashboard-page.tsx:52) and
for the bars (`hourlyBuckets`, line 28): the properties quantify over the first
reading, `clock`, at any moment since the picture came, and `now` is the second.
The audit writer's
insides are AuditWriter's; here rows are stored in any order.

## 3. Runs

| run | module, cfg | checks | states |
|---|---|---|---|
| `rate_limiter` | MCRateLimiter, RateLimiter.cfg | `TypeOK WindowBound StoreBound NoSpuriousReject` | 3.0 M |
| `rate_limiter_memory` | MCRateLimiter, RateLimiterMemory.cfg | `OnlyWindowKept` – violated | |
| `config_cache` | MCConfigCache, ConfigCache.cfg | `TypeOK ReferentialIntegrity StalenessBound RevocationTakesEffect GrantTakesEffect` | 68 k |
| `config_cache_aggregate` | MCConfigCache, ConfigCacheAggregate.cfg | `SameTablesSameLimits` – violated | |
| `routing` | MCRouting, Routing.cfg | `TypeOK WeightedShares FirstIsPreferred RoundRobinFair` | 32 k |
| `gateway` | MCGateway, Gateway.cfg | `TypeOK GaugeExact CountersExact ForwardedOnCurrentConfig UncheckedWasUnlimited MappedModelKeepsItsRoutes AuditTellsOutcome` | 3.5 M |
| `gateway_panic` | MCGateway, GatewayPanic.cfg | `GaugeReturnsToZero` – violated | |
| `audit_writer` | MCAuditWriter, AuditWriter.cfg | `TypeOK NothingSlipsAway AtMostOnce TrailSpec TrailProgress DrainsWhenClosed` | 27 k |
| `audit_history` | MCAuditWriter, AuditWriterHistory.cfg | `HistoryOutlivesEntities` – violated | |
| `admin_console` | MCAdminConsole, AdminConsole.cfg | `TypeOK SavesGoHome OwnChangesShown QuietPictureIsExact KeptThroughRefresh SavesAreWhole` | 976 k |
| `dashboard` | MCDashboard, Dashboard.cfg | `TypeOK OneRoute RewritingWorks LatenciesAreRanks RequestsAreOfTheDay BarsAddUp CreditWhereDue` | 1.4 M |
| `forwarding_body` | MCDashboard, DashboardBody.cfg | `RewrittenBodyArrives` – violated | |

What the passing runs show:

* `rate_limiter`: with two workers a limit of one admits two requests into one
  window and never three. Limits change at any moment, so `WindowBound` speaks of
  any stretch of admissions, up to now and no longer than the window, none of
  which was let through without a limit: they are no more than the highest limit
  any of them was checked against, plus one for every further worker. A request
  that read no limit ends such a stretch, as it does in the code, where it is
  recorded but not checked. `StoreBound` bounds the deque in the same way: a
  limited admission leaves at most its limit and the excess, however long the
  deque was before, and every unlimited one since adds one. Each 429 has as many
  admissions behind it as the limit its request read says.
* `config_cache`: two completed refreshes after the tables last changed their
  mind about a key or route, cache and tables agree on it (one is not enough:
  its query may have run before the change). Keys revoked for good leave the
  cache for good; keys and routes granted for good arrive. Any order of
  operations keeps every foreign key.
* `routing`: the weighted walk gives each route exactly its weight, zero
  counting as one, and never falls off its end; `routes[0]` is a most preferred
  route and the strategy that of its policy, also with mixed policies; round
  robin stays fair when a refresh replaces the routes by as many others.
* `gateway`: the gauge counts exactly the forwarded requests `logging` has not
  seen; counters and audit rows agree with what happened; whatever is forwarded
  was authorised, and routed, by a cache current since the request arrived; a
  request that no limiter compared with anything had no limits for its hash in
  such a cache – which is also the case of a key rotated between the look-up of
  the hash and that of the limits, whose old hash has none any more; a
  model that stays mapped is never served by another's routes.
* `audit_writer`: the writer implements AuditTrail, with its liveness; when the
  senders are gone it drains channel and batch and stops, or the process ends.
* `admin_console`: whatever the person does while requests are under way, a save
  is of the item it goes to (the page's `key` and its id closed over by the
  handlers see to it). When no fetch is under way and the last one succeeded,
  the picture is no older than the last change acknowledged to this console;
  a fetch during which nobody changed anything gives exactly the tables, while
  one that was overlapped by a change may mix two states: pages are shown
  from such pictures and the other properties hold nevertheless. A new picture
  leaves the page of a chosen item alone, draft included. And the transaction of
  `update_mapping_policy` implements PolicyDocuments: thanks to the lock on the
  policy's row two saves of one policy do not mix; without it (the mutant) the
  routes of both stay.
* `dashboard`: host, key and the model name written into the body are those of
  one route on every connection, though it takes two looks into the cache to find
  one, the context keeps them in separate fields, and both connection and cache
  may be replaced in between; the mutant, which takes the first available route
  even if the model has one, leaves the host of the one with the key of the other.
  The exception is a base URL that does not parse, with which the provider's key
  goes to api.openai.com. `RewritingWorks` says where the rewriting can be relied
  on: JSON in one piece, no longer under the provider's name, on the first
  connection that the filter is given any of it for; where it cannot is the
  finding `forwarding_body`. The figure of a day is exact below the listing's limit
  and stuck at the limit above it (`LIMIT 100`); figure and bars differ by the rows
  that cross the edges of the window between the two readings of the clock, and
  those from a clock that is ahead, only; latencies are nearest ranks for any
  number of rows; and a row is credited to the provider the request was sent to.

Disagreements between the code and what the repository says of it, one run each:

* `rate_limiter_memory` – "we only keep 60s window in memory" (`proxy.rs:80`): a
  key without limits is recorded and never pruned.
* `config_cache_aggregate` – "Aggregates limits from all enabled policies"
  (`db.rs:166`): each row overwrites the one before, and the query has no order.
* `gateway_panic` – "Active requests" (`proxy.rs:156`): a JSON body that is not
  an object panics after the gauge went up.
* `audit_history` – "Audit history should outlive the referenced entities"
  (`deploy/sql/004_audit_log_fk_set_null.sql:3`): a row not yet inserted when
  its key is deleted takes its whole batch down.
* `forwarding_body` – "Pad to original length so Content-Length stays valid"
  (`proxy.rs:426`) and "the body we read here is retained and replayed to the
  upstream by the framework (and rewritten in request_body_filter)"
  (`proxy.rs:336`): nothing shortens a body that grows with a longer model name,
  a chunk before the last is sent as it came, and on a second connection
  `body_rewritten` lets the client's body through.

### Bounds

* `rate_limiter`: two requests on two workers; one key that never has limits, and
  one whose limits are none, on tokens only, or one or two requests, and change at
  every moment; clock readings 0 to 4 with two ticks to the second, so that ages
  are truncated, and a window of one second; four admissions in all. The overshoot
  needs two requests between the locks, expiry a clock past three, a lowered
  limit two admissions before and one after; the theorems cover all other values.
* `config_cache`: two changes committed anywhere from connecting onwards, on
  empty tables or on a complete configuration with two policies, two limits,
  one key with two hashes, one provider with one model and a second name. Two
  changes suffice for each pair (rotate and update, delete and create); the
  number of refreshes is not bounded. `settled` counts to two, all the
  property reads.
* `routing`: every list of up to two routes with weights 0 and 2 and priorities
  0 and 1, lists of three, mixed policies; cursor modulus 8 for 2^64 (the
  cursor must wrap: at a wrap fairness restarts, since 2^64 need not be a
  multiple of the number of routes); three picks per position.
* `gateway`: two requests out of seven kinds, three caches (before and after a
  rotation and remapping, and one without limits). With two requests every step
  of one can fall between any two of the other.
* `audit_writer`: four rows, capacity and batches of two, so that a batch can be
  full while the channel is full; the theorems cover all sizes.
* `admin_console`: two rows of each kind, one there from the beginning. `Tours`
  divides the behaviours, since everything at once is out of reach: two requests
  and one edit about policies while another administrator may rewrite the policy
  that is open; two requests about keys while another may add a policy; one
  request and one edit in any section, with navigation between all of them,
  while another deletes the model the policy routes to. Two requests are what an
  overlap of saves needs, one edit what a draft needs to differ from its item;
  the number of fetches, refreshes and navigations is not bounded.
* `dashboard`: three plans. Requests of six kinds of body (one chunk, two, an
  empty first or last one; compact or not; not JSON) over two connections, with three
  routes whose names are shorter, longer and as long as the client's: two
  connections are what a repetition takes. One request that is logged, with a
  provider deleted at any moment and a gateway's clock one tick ahead. And every
  table of one to four rows, each a day old, an hour old or from the future, slow or fast,
  looked at over two ticks with a listing of three: the boundaries of the day
  are crossed while the picture is shown and between the two readings, and the limit is exceeded by one.
  `Hour`, `Day` and `Spark` are 2, 2 and 1 for 3600 s, 24 and 12: divisions and
  comparisons have the same boundaries.

`CHECK_DEADLOCK FALSE` stands where the system may stop: bounds are exhausted,
all requests are handled, or the process has ended. Routing never stops.

### Fairness

* `ConfigCache!FairSpec`: weak fairness for connecting and replacing, which the
  thread does as soon as it can; strong fairness for each query, since a query
  may fail – it is then tried again at the next refresh, and the assumption is
  that it does not fail every time. A database that is gone for ever makes the
  gateway serve its last cache for ever: that is the code's choice, and no
  liveness is claimed for it.
* `AuditWriter!FairSpec`: weak fairness for the writer's thread – connecting
  (the database is reachable at last; until then it retries), receiving, the
  deadline, the insert ending with success or error. None for handlers, for
  deletions, for closing or for the end of the process.
* The other modules state safety only.

## 4. Proofs

**RateLimiterProofs**, for every set of keys, every set of configurations the
cache may go through, window, clock resolution and number of workers, from
`RateLimiterAssumption` (which the run evaluates):

* `TypeCorrect`: `Spec => []TypeOK`, with at most `Workers` requests inside.
* `StoreStaysShort`: `Spec => []StoreBound`.
* `WindowIsBounded`: `Spec => []WindowBound`; with one worker there is no excess.
* `RejectionsAreDeserved`: `Spec => NoSpuriousReject`.

`WindowBound` speaks of admissions, the code only of what is left in the deque, so
it is not inductive. The invariant is

    IInv == /\ TypeOK /\ ReadingsArePast /\ StoreBound /\ StoreIsEndOfRecorded
            /\ TokensAreZero /\ RecordedInOrder /\ StretchesFit

`StoreIsEndOfRecorded` says that the deque is the end of the admissions and that
all that is missing is stale by now; it is kept by pruning because clock readings
taken before the lock are never ahead of the clock (`ReadingsArePast`) and what is
stale stays stale (`StaleIsStable`, over truncating division). So whatever is in
the window is in the deque. `StretchesFit` is about the ends of the deque: taken
together with the requests between the locks, an end that only limited requests
have entered or are about to enter is within the highest of their limits and the
excess of the workers. `check_rate_limit` keeps it, as it admits below the limit
it read only, and the others between the locks hold a worker each; a refresh
keeps it because admissions remember the limits they were checked against, not
those of now. `RecordedInOrder` makes a stretch of admissions the same as a stretch
of time, and `TokensAreZero` is why a token limit never rejects.

**AuditWriterProofs**, for every set of rows, capacity and batch size, from
`AuditWriterAssumption`:

* `TypeCorrect`, `RowsAreKept` (`[]NothingSlipsAway`), `RowsAreSettledOnce`
  (`[]AtMostOnce`).
* `WriterIsTrail`: `Spec => TrailSpec`, the refinement of AuditTrail.

The invariant is

    IInv == TypeOK /\ BatchInHand /\ NothingSlipsAway /\ AcceptedOnce

`NothingSlipsAway` (settled rows, then batch, then channel are the accepted
rows) is what makes an insert settle the *next* rows of AuditTrail;
`BatchInHand` – there is a batch exactly while one is coalesced or inserted –
keeps the batch within its size when its first row comes and makes every insert
settle at least one row; `AcceptedOnce` turns "in order" into "once".

**ConfigCacheProofs**, for any number of rows, ids and hashes, from
`ControlPlaneAssumption`, `MaxWritesAssumption`:

* `ReferencesResolve` (`[]ReferentialIntegrity`): no operation or cascade leaves a
  dangling reference.
* `TypeCorrect`.
* `StalenessIsBounded` (`[]StalenessBound`): after two refreshes that were
  completed since the tables changed their mind about an entry, cache and tables
  agree on it.

The invariant is

    IInv == TablesInv /\ TypeOK /\ LoadIsRecent /\ StalenessBound
    TablesInv == ControlTypeOK /\ Sound(db) /\ HashesAreUsed

`TablesInv` is kept by each operation: a lemma for each says that it leads from
sound tables to sound tables; `HashesAreUsed` is there for the uniqueness of
hashes, a constraint of the tables. `StalenessBound` speaks of the cache after a
replacement, which takes over what a load read some time before; `LoadIsRecent`
says of that load that on every entry settled for one refresh it has what the
tables say now, since it began after the change. `Commit` keeps it because an
entry it concerns is unsettled by it.

**RouteSelectionProofs**, for every list of routes and every weight, are about
pure operators. `SharesAreWeights` says that the walk along the weights stops
at route i for exactly `EffectiveWeight` values of the roll, and
`SelectedIndexInDomain` that no strategy leaves the list. `WeightedIndex` and
`CumulativeWeight` are recursive functions, so facts about all their arguments
need induction; the induction theorems of the library take an operator as a
parameter and cannot be used, so the proofs argue by least counterexample
(`LeastNatural`: a set of natural numbers has a smallest member, which follows
from the well-ordering of finite sets by inclusion). The walk is a function that
returns a function, as the provers know functions of one argument only.

**RoutingProofs**, for any rows, strategies and widths of the cursor, from
`RoutingAssumption` (there are finitely many rows at a time, the cursor has more
than one value):

* `TypeCorrect`, `SharesAreExact` (`[]WeightedShares`), `FirstRouteIsPreferred`
  (`[]FirstIsPreferred`), `RoundRobinIsFair` (`[]RoundRobinFair`).

The invariant is

    IInv == TypeOK /\ TargetIsLoaded /\ PicksComeRound

`TargetIsLoaded` (the target in force is what a load of the rows returns) is all
the first two need. Fairness compares counts of picks and is not inductive: from
counts alone it does not follow whose turn it is. `PicksComeRound` ties them to
the cursor: k rounds are complete, and of the next the last m positions before
the cursor have been picked.

**GatewayProofs**, for any number of requests, any caches and routes, from
`GatewayAssumption`:

* `TypeCorrect`, `GaugeIsExact` (`[]GaugeExact`), `CountersAreExact`
  (`[]CountersExact`), `ForwardedOnCurrent` (`[]ForwardedOnCurrentConfig`),
  `UncheckedWereUnlimited` (`[]UncheckedWasUnlimited`),
  `MappedModelsKeepTheirRoutes` (`[]MappedModelKeepsItsRoutes`) and
  `AuditRowsTellOutcome` (`[]AuditTellsOutcome`).

The invariant is

    IInv == SharedOK /\ RequestsTyped /\ (\A r \in Requests : RequestFits(r)) /\ CountersOK

The properties speak of requests that were forwarded or logged; `RequestFits`
says of a request at every stage before what it has found so far and that it was
found in a cache of its span: the key (`KeyWasValid`), the route
(`RouteWasOffered`), and, of a request about to fall back, that some cache of the
span did not map its model (`FallsBackUnmapped`). `CountersOK` states each counter
as the cardinality of a set of requests; a lemma per action says which set gains
or loses one member. `UncheckedWereUnlimited` has an invariant of its own beside
`IInv`: `LimitsFit` says of a request past the look-up of its limits that some
cache of its span held what it found for its hash, and that it was compared if
that was a limit.

**DashboardProofs**, for all routes, bodies, rows and limits, from
`ForwardingAssumption` and `DashboardAssumption`:

* `RequestsHaveOneRoute` (`[]OneRoute`): the context is as `apply_route` left a new
  one for some route, or still new, through both looks into the cache and whatever
  `Refresh` makes of `current` (`ContextIsApplied`); the connection has its host
  and key from it (`Connected`), and every name written into a piece sent is the
  context's (`NamesAreChosen`).
* `CreditIsDue` (`[]CreditWhereDue`): every row waiting, stored, fetched or shown
  names nobody or the provider it was sent to (`RowsAreCredited`), which
  `AuditRow` gets from `OneRoute`, and deletions keep by forgetting.

* `RewritingIsUnderstood` (`[]RewritingWorks`): `FilterHasPassed` – pieces sent and
  chunks left add up to the body's chunks, and nothing is rewritten before as many
  bytes as the body has were buffered – and `WholeBodyPassed`, which says what
  became of a body in one piece by what earlier connections left in the buffer.
* `TypeCorrect` (`[]TypeOK`), `DayIsCounted` (`[]RequestsAreOfTheDay`),
  `LatenciesAreNearestRanks` (`[]LatenciesAreRanks`), `ChartAddsUp` (`[]BarsAddUp`):
  tables stay finite and keep the foreign key on providers (`TableOK`), and
  whatever is shown is an answer of `list_audit_logs` about some table
  (`PicturesAreAnswers`); the rest is about the operators. That a finite set has a
  sorted sequence, that the sequence has each row once, how many rows are at most
  as slow as the one at an index and that the bars' sums are the sums of the hours
  are proved by least counterexample over `LeastNatural`.

**AdminConsoleProofs**, for any tables, ids, numbers of requests and edits, from
the assumptions that AdminConsole and the modules under it name: the tables held
their constraints at the start (`ControlPlaneAssumption`), of any rows one is the
newest (`AgeAssumption`), other administrators send what the handlers' extractors
accept (`OthersAssumption`), and `None` and the id of a new item are no id, row,
page, picture or document (`IdsAssumption`, `DocumentsAssumption`,
`DataAssumption`, `NoneAssumption`). `MaxCallsAssumption` and `ConsoleAssumption`
only type the bounds.

* `TypeCorrect` (`[]TypeOK`), `SavesNeverStray` (`[]SavesGoHome`),
  `OwnChangesAreShown` (`[]OwnChangesShown`), `QuietPicturesAreExact`
  (`[]QuietPictureIsExact`), `EditsSurviveRefresh` (`KeptThroughRefresh`).
* `SavesTakeEffectWhole`: `Spec => SavesAreWhole`, the refinement of
  PolicyDocuments.

The invariant is

    IInv == TablesInv /\ TransactionsInv /\ ClientInv /\ DataInv

* `TablesInv`: the tables are typed and their references resolve.
* `TransactionsInv`: a transaction whose statements are done still has its policy
  and its targets, and has deleted every route its policy has (`cleared`); no
  two such transactions are about one policy. It is kept because whoever would
  delete the policy or a target, or add a route, waits for the locks
  (`RowLocked`, `TargetShared`). Without it a commit could resurrect a deleted
  policy, leave another's routes behind or refer to a target that is gone.
* `ClientInv`: every request under way fits its handler and, as long as its page
  is mounted, the section of the page shown; the page shown is the one that
  sidebar and picture call for, its draft one of its section and its `of` its
  key's id. `SavesGoHome` alone is about requests only and says nothing of the
  page the next request will be made from.
* `DataInv`: a fetch has seen, last, the tables of now, and only these if nothing
  changed since it began; it began after the last acknowledged change. That is
  what the answer needs for `OwnChangesShown` and `QuietPictureIsExact`, which are
  about the picture only.

Steps are first divided in two (`StepIs`): those of the client, which leave the
tables alone and may begin one save (`ClientMove`), and those of the server, which
leave the page alone (`ServerMove`). For the refinement, each kind is brought
into the terms of PolicyDocuments: operations on the tables keep, make or delete
documents, or drop targets from them (`KeepsDocuments`, `MakesDocument`,
`RemovesDocuments`, `DropsTargets`); `Replace` is invisible; `Commit` is
`TakeEffect`, which is where `TransactionsInv` is needed: the routes left behind
are just the new ones. The lemmas about the operations on tables resemble those of
ConfigCacheProofs but ask and give more (the documents); that module is about
ConfigCache, whose variables and names AdminConsole does not share.

What is only model-checked: all liveness (`TrailProgress`, `DrainsWhenClosed`,
`RevocationTakesEffect`, `GrantTakesEffect`), which is out of the prover's reach;
and the five disagreements of section 3, which are counterexamples.

## 5. Not modelled, and why

* Wording and layout of responses, metrics labels, log lines, toasts, the open or
  closed state of modals that no handler reads, formatting of numbers and dates.
* Header rewrites other than the provider's key; the response's way back, which
  changes no state but what `logging` reads.
* Updates that leave parts of a policy out, which the admin API would accept and
  the console never sends.
* The rounding of shares in floating point: the model rounds the exact quotient.
* What `upstream_models.rs` parses: any set of models may come of it.
* Migrations: each script is sent as one query string, which PostgreSQL runs in
  one transaction, and is guarded by existence checks, so a crash falls between
  two scripts that can be run again; what two replicas starting together do to
  each other is up to PostgreSQL's catalogue locks, not to this code. All models
  take the schema as migrated.
* Process start-up, connection pool, router, `crates/common`: wiring and pure
  functions. The empty cache before the first load is an initial state of Gateway.
* Presentation, deployment files and the design mock-ups: no state that a model
  checker could tell us about.

Hazards without a property are listed in PROJECT.json with the reason: a
last save that wins without a version check, connection attempts that go on for
ever, migrations, a provider created twice by a retry, policies attached in part
but reported attached, a new key whose answer nobody sees, requests of status 0 that do not
count as errors. The models contain these behaviours; the repository promises
nothing that they would break.

## 6. Plan

Done, in this order:

1. RateLimiter with proofs: the most race-prone shared state of the data plane.
2. ControlPlane and ConfigCache: revocation and staleness; later with proofs.
3. RouteSelection and Routing.
4. Gateway: the pipeline, composed with the picks of RouteSelection.
5. AuditTrail and AuditWriter with refinement and proofs.
6. PolicyDocuments and AdminApi: the policy transaction and its refinement.
7. The console: its query, its pages, composed with AdminApi.
8. Forwarding and Dashboard with proofs: the body on its way, the row on its way
   to the figures.

9. Proofs of the remaining safety: Routing, Gateway, the rest of Dashboard, the
   console and the refinement of PolicyDocuments.

Left:

* EndToEnd: ConfigCache's thread and tables with Gateway's requests, bounded to
  one request: a key revoked two refreshes ago is never served. Today this
  follows from two runs that meet at the cache: `StalenessIsBounded` says which
  caches there may be, `ForwardedOnCurrent` that a request was authorised by one
  of its span.
* Proofs: the safety half of `RevocationTakesEffect` beyond `StalenessIsBounded`
  (that a load begun after the revocation never brings the key back) as an action
  property.
