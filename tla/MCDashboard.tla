----------------------------- MODULE MCDashboard -----------------------------
(***************************************************************************)
(* An instance of Dashboard, and of the Forwarding it extends, for TLC.     *)
(* The client's model name has three bytes; those of the providers are      *)
(* shorter, equal and longer.  Bodies come whole, in two chunks, or with an *)
(* empty chunk before or after, compact or with spaces that rewriting       *)
(* drops, and one is not JSON.  The console meets every table of up to four *)
(* rows that are a day old, an hour old or from the future, slow or fast, of*)
(* which it gets three.                                                     *)
(***************************************************************************)
EXTENDS Dashboard

CONSTANTS a, b, short, equal, long

MCRoutes ==
    {[provider |-> a, parses |-> TRUE, model |-> short], [provider |-> b, parses |-> TRUE, model |-> long],
     [provider |-> b, parses |-> FALSE, model |-> equal]}

MCLength == [name \in Names |-> CASE name = short -> 2 [] name = equal -> 3 [] name = long -> 4]

Body(chunks, json, rest) == [chunks |-> chunks, json |-> json, rest |-> rest]

MCBodies ==
    {Body(<<8>>, TRUE, 5), Body(<<8>>, TRUE, 4), Body(<<8>>, FALSE, 5),
     Body(<<5, 3>>, TRUE, 5), Body(<<8, 0>>, TRUE, 5), Body(<<0, 8>>, TRUE, 5)}

MCLatencies == {1, 2}

\* The clock begins at 4.
MCTimes == <<0, 2, 5>>

OldRow(i, kind) ==
    [request_id |-> 10 + i, provider |-> b, latency_ms |-> 1 + (kind % 2),
     status_code |-> IF kind % 2 = 0 THEN 200 ELSE 502, created_at |-> MCTimes[1 + (kind \div 2)],
     sent_to |-> b, parses |-> TRUE]

MCTables ==
    UNION {{{OldRow(i, kinds[i]) : i \in 1..n} :
                kinds \in {f \in [1..n -> 0..5] : \A i, j \in 1..n : i <= j => f[i] <= f[j]}} : n \in 1..4}

Plan(bodies, requests, ticks, deleted, table) ==
    [bodies |-> bodies, requests |-> requests, ticks |-> ticks, deleted |-> deleted, rows |-> table]

\* Requests of every kind; requests one of which is logged; every table.
MCPlans ==
    {Plan(MCBodies, 0, 0, {}, {}), Plan({Body(<<8>>, TRUE, 5)}, 1, 0, {b}, {})}
        \cup {Plan({}, 0, 2, {}, table) : table \in MCTables}
=============================================================================
