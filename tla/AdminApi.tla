------------------------------ MODULE AdminApi ------------------------------
(***************************************************************************)
(* Requests to the admin API while they are carried out                     *)
(* (admin-api/src/routes.rs, repositories.rs).  Clients send them over      *)
(* connections of their own, so they are served in any order.  A request    *)
(* that needs one statement, or creates what nobody else can see yet, is    *)
(* one operation of ControlPlane.  update_mapping_policy is a transaction   *)
(* at READ COMMITTED: it updates the policy's row, deletes and inserts      *)
(* rules and routes, and commits.  The locks its statements take (the       *)
(* policy's row; a key share on each provider model it routes to) hold      *)
(* others back until then.  A client always sends every part of a policy,   *)
(* as the console does.                                                     *)
(***************************************************************************)
EXTENDS ControlPlane, Sequences

CONSTANTS
    Age,            \* of every id: rows with a higher one are newer
    MaxCalls        \* bound: requests clients begin

ASSUME MaxCallsAssumption == MaxCalls \in Nat

\* Of any rows of one table there is a newest.
ASSUME AgeAssumption ==
    \A table \in {Models, Providers, Policies, Keys} : \A rows \in SUBSET table :
        rows # {} => \E newest \in rows : \A other \in rows : Age[other] <= Age[newest]

\* The requests under way, in the order they were begun; None is over.  A
\* record has the operation op, the row id it addresses, its body with, the
\* routes a transaction has deleted, and how far it is: "sent", "replaced"
\* (the statements are done), "ok" or "failed" (answered).
VARIABLE calls

Callers == 1..MaxCalls

\* What UpdateMappingPolicyRequest replaces.
Documents ==
    [enabled : BOOLEAN, rule : Limits \cup {None}, routes : SUBSET ProviderModels]

ASSUME DocumentsAssumption == None \notin Documents

\* What the handlers' Path and Json extractors let through.
WellFormed(op, id, with) ==
    \/ op = "create_epichust_model" /\ with \in Names
    \/ op = "update_epichust_model" /\ id \in Models /\ with \in Names
    \/ op = "delete_epichust_model" /\ id \in Models
    \/ op = "create_provider" /\ with \in Endpoints
    \/ op = "update_provider" /\ id \in Providers /\ with \in Endpoints
    \/ op \in {"delete_provider", "provider_available_models"} /\ id \in Providers
    \/ op = "create_provider_model" /\ with \in ProviderModels
    \/ op = "delete_provider_model" /\ id \in ProviderModels
    \/ /\ op = "create_mapping_policy"
       /\ with.epichust_model \in Models
       /\ [enabled |-> with.enabled, rule |-> with.rule, routes |-> with.routes] \in Documents
    \/ op = "update_mapping_policy" /\ id \in Policies /\ with \in Documents
    \/ op = "delete_mapping_policy" /\ id \in Policies
    \/ op = "create_api_key"
    \/ op = "update_api_key" /\ id \in Keys /\ with \in BOOLEAN
    \/ op \in {"rotate_api_key", "delete_api_key"} /\ id \in Keys
    \/ /\ op \in {"attach_api_key_mapping_policy", "detach_api_key_mapping_policy"}
       /\ id \in Keys /\ with \in Policies

Live == {c \in DOMAIN calls : calls[c] # None}

DocumentOf(d, p) ==
    [enabled |-> d.mapping_policies[p].enabled,
     rule    |-> d.rate_limit_rules[p],
     routes  |-> {r[2] : r \in {r \in d.mapping_policy_routes : r[1] = p}}]

DocumentsIn(d) ==
    [p \in Policies |-> IF d.mapping_policies[p] = None THEN None ELSE DocumentOf(d, p)]

PendingSaves ==
    {[caller |-> c, policy |-> calls[c].id, document |-> calls[c].with] :
        c \in {c \in Live : /\ calls[c].op = "update_mapping_policy"
                            /\ calls[c].at \in {"sent", "replaced"}}}

Docs == INSTANCE PolicyDocuments
            WITH docs <- DocumentsIn(db), pending <- PendingSaves, Targets <- ProviderModels

ApiInit == ControlInit /\ calls = <<>>
-----------------------------------------------------------------------------
\* An update of p that has its statements behind it and has not committed.
InTransaction(c) == c \in Live /\ calls[c].at = "replaced"

RowLocked(p) == \E c \in Live : InTransaction(c) /\ calls[c].id = p

TargetShared(pm) == \E c \in Live : InTransaction(c) /\ pm \in calls[c].with.routes

\* What each request does to the tables; id is the row it creates or names.
OnModels(op, id, with) ==
    \/ op = "create_epichust_model" /\ create_epichust_model(id, with)
    \/ op = "update_epichust_model" /\ update_epichust_model(id, with)
    \/ /\ op = "delete_epichust_model"
       /\ \A p \in Policies : db.mapping_policies[p] # None /\ RowLocked(p) =>
              db.mapping_policies[p].epichust_model # id
       /\ delete_epichust_model(id)

OnProviders(op, id, with) ==
    \/ op = "create_provider" /\ create_provider(id, with)
    \/ op = "update_provider" /\ update_provider(id, with)
    \/ /\ op = "delete_provider"
       /\ \A pm \in ProviderModels : ProviderOf[pm] = id => ~TargetShared(pm)
       /\ delete_provider(id)
    \/ op = "create_provider_model" /\ create_provider_model(with)
    \/ /\ op = "create_provider_model"
       /\ with \in db.provider_models
       /\ UNCHANGED <<db, used>>
    \/ op = "delete_provider_model" /\ ~TargetShared(id) /\ delete_provider_model(id)

OnPolicies(op, id, with) ==
    \/ /\ op = "create_mapping_policy"
       /\ create_mapping_policy(id, [epichust_model |-> with.epichust_model, enabled |-> with.enabled],
                                with.rule, with.routes)
    \/ op = "delete_mapping_policy" /\ ~RowLocked(id) /\ delete_mapping_policy(id)

OnKeys(op, id, with) ==
    \/ op = "create_api_key" /\ create_api_key(id, with)
    \/ op = "update_api_key" /\ update_api_key(id, with)
    \/ op = "rotate_api_key" /\ rotate_api_key(id, with)
    \/ op = "delete_api_key" /\ delete_api_key(id)
    \/ op = "attach_api_key_mapping_policy" /\ attach_api_key_mapping_policy(id, with)
    \/ op = "detach_api_key_mapping_policy" /\ detach_api_key_mapping_policy(id, with)

\* Statements that find no row with the given id succeed and do nothing.
FindsNothing(op, id) ==
    \/ op \in {"update_epichust_model", "delete_epichust_model"} /\ db.epichust_models[id] = None
    \/ op \in {"update_provider", "delete_provider"} /\ db.providers[id] = None
    \/ op = "delete_provider_model" /\ id \notin db.provider_models
    \/ op = "delete_mapping_policy" /\ db.mapping_policies[id] = None
    \/ op \in {"update_api_key", "delete_api_key"} /\ db.api_keys[id] = None

\* Ids and keys are made when a row is created, in the order of their age.
Fresh(ids) == {id \in ids \ used : \A other \in ids \ used : Age[id] <= Age[other]}

IdsFor(call) ==
    CASE call.op = "create_epichust_model" -> Fresh(Models)
      [] call.op = "create_provider"       -> Fresh(Providers)
      [] call.op = "create_mapping_policy" -> Fresh(Policies)
      [] call.op = "create_api_key"        -> Fresh(Keys)
      [] OTHER                             -> {call.id}

\* What the answer carries: the new key, the models the provider's own API
\* lists (upstream_models.rs), or nothing new.
BodiesFor(call) ==
    CASE call.op \in {"create_api_key", "rotate_api_key"} -> Fresh(Hashes)
      [] call.op = "provider_available_models" ->
             SUBSET {pm \in ProviderModels : ProviderOf[pm] = call.id}
      [] OTHER -> {call.with}

Answer(c, answer, id, with) ==
    calls' = [calls EXCEPT ![c] =
                 IF @.page = "other" THEN None
                 ELSE [@ EXCEPT !.at = answer, !.id = id, !.with = with]]

Serve(c) ==
    LET call == calls[c] IN
    /\ call.at = "sent"
    /\ \E id \in IdsFor(call), with \in BodiesFor(call) :
          /\ \/ OnModels(call.op, id, with)
             \/ OnProviders(call.op, id, with)
             \/ OnPolicies(call.op, id, with)
             \/ OnKeys(call.op, id, with)
             \/ FindsNothing(call.op, id) /\ UNCHANGED <<db, used>>
             \/ /\ call.op = "provider_available_models"
                /\ db.providers[id] # None
                /\ UNCHANGED <<db, used>>
          /\ Answer(c, "ok", id, with)

\* Mutant: the policy's row is left alone, so nothing makes a second update
\* of it wait.
ReplaceUnlocked(c) ==
    LET call == calls[c] IN
    /\ call.at = "sent" /\ call.op = "update_mapping_policy"
    /\ db.mapping_policies[call.id] # None
    /\ call.with.routes \subseteq db.provider_models
    /\ calls' = [calls EXCEPT ![c].at = "replaced",
                              ![c].cleared = DocumentOf(db, call.id).routes]
    /\ UNCHANGED <<db, used>>

\* UPDATE, DELETE and INSERT, seen by nobody else yet.
Replace(c) ==
    LET call == calls[c] IN
    /\ call.at = "sent" /\ call.op = "update_mapping_policy"
    /\ ~RowLocked(call.id)
    /\ db.mapping_policies[call.id] # None
    /\ call.with.routes \subseteq db.provider_models
    /\ calls' = [calls EXCEPT ![c].at = "replaced",
                              ![c].cleared = DocumentOf(db, call.id).routes]
    /\ UNCHANGED <<db, used>>

\* The transaction takes away the routes it found and adds its own.
Commit(c) ==
    LET call == calls[c]
        p == call.id
    IN  /\ call.at = "replaced"
        /\ db' = [db EXCEPT !.mapping_policies[p].enabled = call.with.enabled,
                            !.rate_limit_rules[p] = call.with.rule,
                            !.mapping_policy_routes =
                                (@ \ ({p} \X call.cleared)) \cup ({p} \X call.with.routes)]
        /\ Answer(c, "ok", p, call.with)
        /\ UNCHANGED used

\* A constraint is broken, the row is gone, two transactions wait for each
\* other and PostgreSQL aborts one, or the database is away.
Refuse(c) ==
    /\ calls[c].at \in {"sent", "replaced"}
    /\ Answer(c, "failed", calls[c].id, calls[c].with)
    /\ UNCHANGED <<db, used>>

\* What was asked has been done, but the client does not hear of it.
LoseAnswer(c) ==
    /\ calls[c].at = "ok"
    /\ calls' = [calls EXCEPT ![c].at = "failed"]
    /\ UNCHANGED <<db, used>>

ApiStep == \E c \in Live : Serve(c) \/ Replace(c) \/ Commit(c) \/ Refuse(c) \/ LoseAnswer(c)
-----------------------------------------------------------------------------
\* However updates of one policy interleave with each other, with deletions
\* and with failures (update_mapping_policy), each save takes effect whole
\* and once or not at all: the tables implement PolicyDocuments.
SavesAreWhole == Docs!Spec
=============================================================================
