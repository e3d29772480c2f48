------------------------------ MODULE PolicyPage ------------------------------
(***************************************************************************)
(* The page of a mapping policy                                             *)
(* (admin-web/src/features/admin/policy-page.tsx).  Everything is edited in *)
(* the draft and saved whole.  A route that is disabled in the draft counts *)
(* as one taken out, as it does for every reader of the tables; weights,    *)
(* priorities and the strategy behave like the rule's value.                *)
(***************************************************************************)
EXTENDS ConsoleStore

PolicyDraft ==
    [epichust_model : Models \cup {None}, enabled : BOOLEAN,
     rule : Limits \cup {None}, routes : SUBSET ProviderModels]

\* Mutant: the draft is sent as it is, with the model it names.
DocumentWithModel(draft) == draft

Document(draft) == [enabled |-> draft.enabled, rule |-> draft.rule, routes |-> draft.routes]

OnPolicyPage == OnPage("routes")

editPolicyModel(m) ==
    /\ OnPolicyPage
    /\ data.tables.epichust_models[m] # None
    /\ Edit([page.draft EXCEPT !.epichust_model = m])

editPolicyEnabled(enabled) ==
    OnPolicyPage /\ Edit([page.draft EXCEPT !.enabled = enabled])

\* A type that has no rule is given one.
handleAddRateLimitRules(limit) ==
    OnPolicyPage /\ page.draft.rule = None /\ Edit([page.draft EXCEPT !.rule = limit])

\* A rule is given another value, or removed.
editRule(limit) ==
    OnPolicyPage /\ page.draft.rule # None /\ Edit([page.draft EXCEPT !.rule = limit])

availableRouteModels == data.tables.provider_models \ page.draft.routes

addRouteInline(pm) ==
    /\ OnPolicyPage
    /\ pm \in availableRouteModels
    /\ Edit([page.draft EXCEPT !.routes = @ \cup {pm}])

removeRoute(pm) ==
    /\ OnPolicyPage
    /\ pm \in page.draft.routes
    /\ Edit([page.draft EXCEPT !.routes = @ \ {pm}])

\* A model chosen anew for a policy that exists is not sent.
handleSavePolicy ==
    /\ OnPolicyPage
    /\ page.draft.epichust_model # None
    /\ ~isPending("create_mapping_policy") /\ ~isPending("update_mapping_policy")
    /\ \/ /\ IsNew
          /\ mutateAsync("create_mapping_policy", None, page.draft, "handleSavePolicy", {})
       \/ /\ ~IsNew
          /\ mutateAsync("update_mapping_policy", Item, Document(page.draft),
                         "handleSavePolicy", {})
    /\ UNCHANGED page

handleDeletePolicy ==
    /\ OnPolicyPage /\ ~IsNew
    /\ ~isPending("delete_mapping_policy")
    /\ mutateAsync("delete_mapping_policy", Item, None, "handleDeletePolicy", {})
    /\ UNCHANGED page

\* The draft stays as it is, also when a picture with other values follows.
PolicyAnswer(c) ==
    \E by \in {"handleSavePolicy", "handleDeletePolicy"} :
        \/ Succeeds(c, by) /\ UNCHANGED page
        \/ Fails(c, by)

\* The parts of the page: buttons, fields, rules and routes.
PolicyHeader == handleSavePolicy \/ handleDeletePolicy

PolicyStatus ==
    \/ \E m \in Models : editPolicyModel(m)
    \/ \E enabled \in BOOLEAN : editPolicyEnabled(enabled)

RuleList ==
    \/ \E limit \in Limits : handleAddRateLimitRules(limit)
    \/ \E limit \in Limits \cup {None} : editRule(limit)

RouteList == \E pm \in ProviderModels : addRouteInline(pm) \/ removeRoute(pm)

PolicyStep ==
    \/ PolicyHeader \/ PolicyStatus \/ RuleList \/ RouteList
    \/ \E c \in Live : PolicyAnswer(c)
=============================================================================
