------------------------------ MODULE Dashboard ------------------------------
(***************************************************************************)
(* Traffic as the admin console shows it.  The gateway hands a row for each *)
(* request to its audit writer (proxy.rs logging), which stores it some     *)
(* time later, with the time of the gateway's clock; the admin API lists    *)
(* the newest rows (repositories.rs); the console fetches list and          *)
(* providers side by side and computes its charts from that picture and its *)
(* own clock (admin-web/src/features/admin/dashboard-page.tsx,              *)
(* audit-page.tsx).                                                         *)
(***************************************************************************)
EXTENDS Forwarding, FiniteSets, SequencesExt

CONSTANTS
    LogLimit,       \* rows listed: 100
    Hour,           \* in ticks of the clock
    Day, Spark,     \* hours of the charts: 24 and 12
    Skew,           \* how far the clock of a gateway may be ahead
    Latencies,
    Plans           \* bound: what may happen, one of these: the bodies of the
                    \* requests, how many of them are logged, the ticks of the
                    \* clock, the providers deleted, the rows at the beginning

Providers == {route.provider : route \in Routes}

\* 0 if the client was not answered at all.
Codes == {0, 200, 502}

\* AuditRow, and as history where the request was sent last, or None, and
\* whether the base URL of its route could be parsed.
Row == [request_id : Nat, provider : Providers \cup {None}, latency_ms : Latencies,
        status_code : Codes, created_at : Nat,
        sent_to : Providers \cup {OpenAI, None}, parses : BOOLEAN]

\* The request of a row was sent to p, or nowhere, or to api.openai.com for
\* want of a base URL that parses.
SentTo(row, p) == row.sent_to \in {p, None} \/ (row.sent_to = OpenAI /\ ~row.parses)

PlanRecord ==
    [bodies : SUBSET Bodies, requests : Nat, ticks : Nat, deleted : SUBSET Providers, rows : SUBSET Row]

ASSUME DashboardAssumption ==
    /\ LogLimit \in Nat \ {0} /\ Hour \in Nat \ {0} /\ Skew \in Nat
    /\ Day \in Nat \ {0} /\ Spark \in 1..Day
    /\ Latencies \subseteq Nat
    /\ Plans \subseteq PlanRecord
    /\ \A p \in Plans :
          /\ IsFiniteSet(p.rows)
          /\ \A row \in p.rows : row.provider = None \/ SentTo(row, row.provider)

VARIABLES
    plan,       \* what is left of the plan chosen
    now,        \* the clock of the console and the database
    providers,  \* the providers in the tables
    waiting,    \* rows accepted by the audit writers and not yet stored
    audit_logs, \* the table
    fetch,      \* the answers to a fetch so far, or None
    view,       \* the console's picture, None before the first, with its time;
                \* of is the table it was taken from
    open        \* the row shown in the audit page's drawer, or None

tableVars == <<providers, waiting, audit_logs>>

viewVars == <<fetch, view, open>>

vars == <<forwardVars, plan, now, tableVars, viewVars>>

Init ==
    /\ ForwardInit
    /\ plan \in Plans
    /\ now = Day * Hour
    /\ providers = Providers
    /\ waiting = {}
    /\ audit_logs = plan.rows
    /\ fetch = None /\ view = None /\ open = None
-----------------------------------------------------------------------------
\* A request passes through the gateway and is logged at its end.
AuditRow(latency, code, ahead) ==
    [request_id |-> plan.requests, provider |-> request.ctx.provider_id,
     latency_ms |-> latency, status_code |-> code, created_at |-> now + ahead,
     sent_to |-> request.peer, parses |-> request.ctx.upstream_host # None]

\* The row is handed over, or dropped because the writer is behind.
LogRequest ==
    /\ logging
    /\ \/ /\ plan.requests > 0
          /\ plan' = [plan EXCEPT !.requests = @ - 1]
          /\ \E latency \in Latencies, code \in Codes, ahead \in 0..Skew :
                waiting' = waiting \cup {AuditRow(latency, code, ahead)}
       \/ UNCHANGED <<plan, waiting>>
    /\ UNCHANGED <<now, providers, audit_logs, viewVars>>

\* The cache matters as long as the plan has requests.
Forward ==
    \/ /\ \/ plan.bodies # {} /\ Refresh
          \/ first_route \/ Connect \/ request_body_filter \/ Reconnect
          \/ \E body \in plan.bodies : request_filter(body)
       /\ UNCHANGED <<plan, now, tableVars, viewVars>>
    \/ LogRequest

\* The writers store the rows in any order; one whose provider is gone is
\* lost to the foreign key.
insert_batch ==
    /\ \E row \in waiting :
          /\ waiting' = waiting \ {row}
          /\ audit_logs' = IF row.provider \in providers \cup {None} THEN audit_logs \cup {row} ELSE audit_logs
    /\ UNCHANGED <<forwardVars, plan, now, providers, viewVars>>

Forget(row, gone) == IF row.provider = gone THEN [row EXCEPT !.provider = None] ELSE row

\* Mutant: without ON DELETE SET NULL.
delete_provider_only(gone) ==
    /\ gone \in plan.deleted \cap providers
    /\ providers' = providers \ {gone}
    /\ UNCHANGED <<forwardVars, plan, now, waiting, audit_logs, viewVars>>

delete_provider(gone) ==
    /\ gone \in plan.deleted \cap providers
    /\ providers' = providers \ {gone}
    /\ audit_logs' = {Forget(row, gone) : row \in audit_logs}
    /\ UNCHANGED <<forwardVars, plan, now, waiting, viewVars>>

Tick ==
    /\ plan.ticks > 0
    /\ plan' = [plan EXCEPT !.ticks = @ - 1]
    /\ now' = now + 1
    /\ UNCHANGED <<forwardVars, tableVars, viewVars>>
-----------------------------------------------------------------------------
\* Mutant: no ORDER BY.
list_any_logs(table) == {rows \in SUBSET table : Cardinality(rows) = Min({LogLimit, Cardinality(table)})}

\* ORDER BY created_at DESC LIMIT 100; rows of one moment come in any order.
list_audit_logs(table) ==
    {rows \in SUBSET table :
        /\ Cardinality(rows) = Min({LogLimit, Cardinality(table)})
        /\ \A row \in rows, other \in table \ rows : row.created_at >= other.created_at}

\* The Refresh buttons, or a component that uses the query is mounted; a fetch
\* under way is begun anew.
refetch ==
    /\ fetch' = [providers |-> None, logs |-> None, of |-> {}]
    /\ UNCHANGED <<forwardVars, plan, now, tableVars, view, open>>

ProvidersAnswered ==
    /\ fetch # None /\ fetch.providers = None
    /\ fetch' = [fetch EXCEPT !.providers = providers]
    /\ UNCHANGED <<forwardVars, plan, now, tableVars, view, open>>

LogsAnswered ==
    /\ fetch # None /\ fetch.logs = None
    /\ \E rows \in list_audit_logs(audit_logs) :
          fetch' = [fetch EXCEPT !.logs = rows, !.of = audit_logs]
    /\ UNCHANGED <<forwardVars, plan, now, tableVars, view, open>>

\* All are answered: the picture is replaced, the drawer keeps its row.
DataArrives ==
    /\ fetch # None /\ fetch.providers # None /\ fetch.logs # None
    /\ view' = [providers |-> fetch.providers, logs |-> fetch.logs, of |-> fetch.of, at |-> now]
    /\ fetch' = None
    /\ UNCHANGED <<forwardVars, plan, now, tableVars, open>>

DataFails ==
    /\ fetch # None
    /\ fetch' = None
    /\ UNCHANGED <<forwardVars, plan, now, tableVars, view, open>>
-----------------------------------------------------------------------------
\* The dashboard's figures, from the rows of a picture.  The clock is read when
\* they are begun, and again for each of the bar charts: clock is the first
\* reading, now the later ones (which no property needs to tell apart).

Newer(row, other) == row.created_at > other.created_at

\* The audit page's rows, newest first, and the five the dashboard shows.
rows(logs) ==
    CHOOSE s \in SetToSeqs(logs) : \A i, j \in DOMAIN s : i < j => ~Newer(s[j], s[i])

recent(logs) == SubSeq(rows(logs), 1, Min({5, Cardinality(logs)}))

Ceiling(n, by) == -((-n) \div by)

\* The rows, fastest first.
by_latency(logs) ==
    CHOOSE s \in SetToSeqs(logs) : \A i, j \in DOMAIN s : i < j => s[i].latency_ms <= s[j].latency_ms

\* Mutant: rounded down.
percentile_floor(logs, p) ==
    IF logs = {} THEN 0
    ELSE LET n == Cardinality(logs)
             idx == Min({n - 1, Max({0, (p * n) \div 100 - 1})})
         IN  by_latency(logs)[idx + 1].latency_ms

percentile(logs, p) ==
    IF logs = {} THEN 0
    ELSE LET n == Cardinality(logs)
             idx == Min({n - 1, Max({0, Ceiling(p * n, 100) - 1})})
         IN  by_latency(logs)[idx + 1].latency_ms

\* Mutant: rounded up.
hours_begun(row) == Ceiling(now - row.created_at, Hour)

\* Rounded down, so that a row from the future has a negative number.
hoursAgo(row) == (now - row.created_at) \div Hour

hourlyBuckets(logs, buckets) ==
    [i \in 1..buckets |-> Cardinality({row \in logs : hoursAgo(row) = buckets - i})]

last24(logs, clock) == {row \in logs : clock - row.created_at <= Day * Hour}

Errors(logs) == {row \in logs : row.status_code >= 400}

computeStats(logs, clock) ==
    [requests |-> Cardinality(last24(logs, clock)),
     total    |-> Cardinality(logs),
     spark    |-> hourlyBuckets(last24(logs, clock), Spark),
     p95      |-> percentile(last24(logs, clock), 95),
     median   |-> percentile(last24(logs, clock), 50),
     errors   |-> Cardinality(Errors(last24(logs, clock)))]

\* Mutant: rows without a provider are credited to all of them.
mixRowsAll(logs, p) == {row \in logs : row.provider \in {p, None}}

mixRows(logs, p) == {row \in logs : row.provider = p}

computeProviderMix(data) ==
    [p \in data.providers |->
        LET mine == mixRows(data.logs, p) IN
        [count  |-> Cardinality(mine),
         share  |-> (200 * Cardinality(mine) + Cardinality(data.logs))
                        \div (2 * Max({1, Cardinality(data.logs)})),
         p95    |-> percentile(mine, 95),
         errors |-> Cardinality(Errors(mine))]]

DashboardPage(clock) ==
    [stats  |-> computeStats(view.logs, clock),
     volume |-> hourlyBuckets(view.logs, Day),
     mix    |-> computeProviderMix(view),
     recent |-> recent(view.logs)]

\* The audit page: a row is opened in the drawer, or the drawer closed.
AuditPage ==
    /\ view # None
    /\ open' \in view.logs \cup {None}
    /\ UNCHANGED <<forwardVars, plan, now, tableVars, fetch, view>>

Next ==
    \/ Forward
    \/ insert_batch
    \/ \E gone \in Providers : delete_provider(gone)
    \/ Tick
    \/ refetch \/ ProvidersAnswered \/ LogsAnswered \/ DataArrives \/ DataFails
    \/ AuditPage

Spec == Init /\ [][Next]_vars
-----------------------------------------------------------------------------
\* Rows name providers that exist (the foreign keys of audit_logs), a picture
\* has at most LogLimit rows, shown newest first.
TypeOK ==
    /\ waiting \subseteq Row /\ audit_logs \subseteq Row
    /\ \A row \in audit_logs : row.provider \in providers \cup {None}
    /\ open \in Row \cup {None}
    /\ view # None =>
          /\ view.logs \subseteq view.of /\ Cardinality(view.logs) <= LogLimit
          /\ \A i, j \in 1..Len(DashboardPage(now).recent) :
                i < j => ~Newer(DashboardPage(now).recent[j], DashboardPage(now).recent[i])

\* v is the p-th percentile by nearest rank.
IsPercentile(logs, p, v) ==
    LET n == Cardinality(logs)
        upTo(w) == Cardinality({row \in logs : row.latency_ms <= w})
    IN  /\ \E row \in logs : row.latency_ms = v
        /\ 100 * upTo(v) >= p * n
        /\ 100 * upTo(v - 1) < p * n

\* The latencies shown (percentile) are nearest ranks, for any number of rows:
\* p95 of few rows is the slowest, the median of two the faster one.
LatenciesAreRanks ==
    view # None => \A clock \in view.at..now :
        last24(view.logs, clock) # {} =>
            /\ IsPercentile(last24(view.logs, clock), 95, DashboardPage(clock).stats.p95)
            /\ IsPercentile(last24(view.logs, clock), 50, DashboardPage(clock).stats.median)

\* The figure "Requests · 24h" (computeStats) is right for the table it was
\* taken from as long as less than LogLimit requests were made in a day, and
\* LogLimit otherwise, at any later time it is looked at.
RequestsAreOfTheDay ==
    view # None => \A clock \in view.at..now :
        DashboardPage(clock).stats.requests = Min({LogLimit, Cardinality(last24(view.of, clock))})

\* Figure and chart of one day disagree (computeStats, hourlyBuckets) only
\* about rows a day old to the tick, or grown a day old between the two
\* readings of the clock, and those of a gateway whose clock is ahead: they
\* are in the figure but in no bar.
BarsAddUp ==
    view # None => \A clock \in view.at..now :
        LET outside == {row \in last24(view.logs, clock) : \/ now - row.created_at >= Day * Hour
                                                           \/ row.created_at > now}
        IN  Total(DashboardPage(clock).volume) + Cardinality(outside) = DashboardPage(clock).stats.requests

\* The provider mix (computeProviderMix) credits a request to the provider it
\* was sent to, though the route was chosen and is logged elsewhere and the
\* configuration changes meanwhile.
CreditWhereDue ==
    view # None =>
        \A p \in view.providers :
            DashboardPage(now).mix[p].count = Cardinality({row \in mixRows(view.logs, p) : SentTo(row, p)})
=============================================================================
