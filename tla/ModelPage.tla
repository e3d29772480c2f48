------------------------------ MODULE ModelPage ------------------------------
(***************************************************************************)
(* The page of an epichust model                                            *)
(* (admin-web/src/features/admin/model-page.tsx).  Only the name is edited; *)
(* the type behaves like it.                                                *)
(***************************************************************************)
EXTENDS ConsoleStore

ModelDraft == [model_name : Names \cup {None}]

OnModelPage == OnPage("models")

editModel(name) == OnModelPage /\ Edit([model_name |-> name])

\* The server trims the name; an empty one is replaced by a default.
handleSaveModel ==
    /\ OnModelPage /\ IsNew
    /\ ~isPending("create_epichust_model")
    /\ \E name \in IF page.draft.model_name = None THEN Names ELSE {page.draft.model_name} :
          mutateAsync("create_epichust_model", None, name, "handleSaveModel", {})
    /\ UNCHANGED page

handleUpdateModel ==
    /\ OnModelPage /\ ~IsNew
    /\ ~isPending("update_epichust_model")
    /\ mutateAsync("update_epichust_model", Item, page.draft.model_name, "handleUpdateModel", {})
    /\ UNCHANGED page

handleDeleteModel ==
    /\ OnModelPage /\ ~IsNew
    /\ ~isPending("delete_epichust_model")
    /\ mutateAsync("delete_epichust_model", Item, None, "handleDeleteModel", {})
    /\ UNCHANGED page

modelPolicies ==
    {p \in Rows(data.tables.mapping_policies) : data.tables.mapping_policies[p].epichust_model = Item}

openModelPolicy(p) == OnModelPage /\ p \in modelPolicies /\ navigateToPolicy(p)

\* The page stays as it is; a created model is not opened, and may be created
\* again.
ModelAnswer(c) ==
    \E by \in {"handleSaveModel", "handleUpdateModel", "handleDeleteModel"} :
        \/ Succeeds(c, by) /\ UNCHANGED page
        \/ Fails(c, by)

\* The parts of the page: buttons, fields, and the policies of the model.
ModelHeader == handleSaveModel \/ handleUpdateModel \/ handleDeleteModel

ModelStatus == \E name \in Names : editModel(name)

ModelPolicyList == \E p \in Policies : openModelPolicy(p)

ModelStep ==
    \/ ModelHeader \/ ModelStatus \/ ModelPolicyList
    \/ \E c \in Live : ModelAnswer(c)
=============================================================================
