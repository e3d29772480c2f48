----------------------------- MODULE ProviderPage -----------------------------
(***************************************************************************)
(* The page of a provider and its models                                    *)
(* (admin-web/src/features/admin/provider-page.tsx).  Fetching the models   *)
(* of a provider is one handler with many requests: it creates a provider   *)
(* that is new, asks the admin API for what the provider offers, and        *)
(* registers the models one by one.                                         *)
(***************************************************************************)
EXTENDS ConsoleStore

ProviderDraft == [endpoint : Endpoints \cup {None}, providerModels : SUBSET ProviderModels]

OnProviderPage == OnPage("providers")

editProvider(endpoint) ==
    OnProviderPage /\ Edit([page.draft EXCEPT !.endpoint = endpoint])

\* The base URL and key to be sent; what is left empty takes some default.
endpointSent == IF page.draft.endpoint = None THEN Endpoints ELSE {page.draft.endpoint}

\* Models put into the draft of a new provider are not sent.
handleSaveProvider ==
    /\ OnProviderPage /\ IsNew
    /\ ~isPending("create_provider")
    /\ \E e \in endpointSent :
          mutateAsync("create_provider", None, e, "handleSaveProvider", {})
    /\ UNCHANGED page

handleUpdateProvider ==
    /\ OnProviderPage /\ ~IsNew
    /\ ~isPending("update_provider")
    /\ mutateAsync("update_provider", Item, page.draft.endpoint, "handleUpdateProvider", {})
    /\ UNCHANGED page

handleDeleteProvider ==
    /\ OnProviderPage /\ ~IsNew
    /\ ~isPending("delete_provider")
    /\ mutateAsync("delete_provider", Item, None, "handleDeleteProvider", {})
    /\ UNCHANGED page

\* The modal is closed at once, so a model can be added twice.
addProviderModel(pm) ==
    /\ OnProviderPage
    /\ \/ /\ ~IsNew /\ ProviderOf[pm] = Item
          /\ mutateAsync("create_provider_model", Item, pm, "addProviderModel", {})
          /\ UNCHANGED page
       \/ IsNew /\ Edit([page.draft EXCEPT !.providerModels = @ \cup {pm}])

removeProviderModel(pm) ==
    /\ OnProviderPage
    /\ pm \in page.draft.providerModels
    /\ \/ /\ ~IsNew
          /\ mutateAsync("delete_provider_model", pm, None, "removeProviderModel", {})
          /\ UNCHANGED page
       \/ IsNew /\ Edit([page.draft EXCEPT !.providerModels = @ \ {pm}])

fetching == \E c \in Live : calls[c].page = "mounted" /\ calls[c].by = "doFetchModels"

doFetchModels ==
    /\ OnProviderPage
    /\ ~fetching
    /\ \/ /\ IsNew
          /\ \E e \in endpointSent : mutateAsync("create_provider", None, e, "doFetchModels", {})
       \/ /\ ~IsNew
          /\ mutateAsync("provider_available_models", Item, None, "doFetchModels", {})
    /\ UNCHANGED page

Continue(c, op, id, with, todo) ==
    calls' = [calls EXCEPT ![c].op = op, ![c].id = id, ![c].with = with,
                           ![c].at = "sent", ![c].todo = todo]

\* The next model offered is registered; after the last the page refreshes.
RegisterNext(c, provider, models) ==
    \/ /\ models = {}
       /\ Over(c)
    \/ \E pm \in models :
          Continue(c, "create_provider_model", provider, pm, models \ {pm})

\* The new provider has an id now, its models can be asked for.
FetchCreated(c) ==
    /\ Answered(c, "doFetchModels", "ok") /\ calls[c].op = "create_provider"
    /\ onSuccess
    /\ Continue(c, "provider_available_models", calls[c].id, None, {})
    /\ UNCHANGED <<db, used, sidebar, tour, page>>

FetchListed(c) ==
    /\ Answered(c, "doFetchModels", "ok") /\ calls[c].op = "provider_available_models"
    /\ RegisterNext(c, calls[c].id, calls[c].with)
    /\ IF calls[c].with = {} THEN refetch ELSE UNCHANGED fetch
    /\ UNCHANGED <<db, used, data, isError, version, acked, sidebar, tour, page>>

FetchRegistered(c) ==
    /\ Answered(c, "doFetchModels", "ok") /\ calls[c].op = "create_provider_model"
    /\ onSuccess
    /\ RegisterNext(c, calls[c].id, calls[c].todo)
    /\ setState(c, [page EXCEPT !.draft.providerModels = @ \cup {calls[c].with}])
    /\ UNCHANGED <<db, used, sidebar, tour>>

\* A model that cannot be registered is skipped; any other failure ends it.
FetchFailed(c) ==
    /\ Answered(c, "doFetchModels", "failed")
    /\ \/ /\ calls[c].op # "create_provider_model"
          /\ Over(c)
          /\ UNCHANGED fetch
       \/ /\ calls[c].op = "create_provider_model"
          /\ RegisterNext(c, calls[c].id, calls[c].todo)
          /\ IF calls[c].todo = {} THEN refetch ELSE UNCHANGED fetch
    /\ UNCHANGED <<db, used, data, isError, version, acked, sidebar, tour, page>>

ProviderAnswer(c) ==
    \/ \E by \in {"handleSaveProvider", "handleUpdateProvider", "handleDeleteProvider"} :
          \/ Succeeds(c, by) /\ UNCHANGED page
          \/ Fails(c, by)
    \/ /\ Succeeds(c, "addProviderModel")
       /\ setState(c, [page EXCEPT !.draft.providerModels = @ \cup {calls[c].with}])
    \/ /\ Succeeds(c, "removeProviderModel")
       /\ setState(c, [page EXCEPT !.draft.providerModels = @ \ {calls[c].id}])
    \/ Fails(c, "addProviderModel") \/ Fails(c, "removeProviderModel")
    \/ FetchCreated(c) \/ FetchListed(c) \/ FetchRegistered(c) \/ FetchFailed(c)

\* The parts of the page: buttons, fields, and the models of the provider.
ProviderHeader == handleSaveProvider \/ handleUpdateProvider \/ handleDeleteProvider

ProviderStatus == \E e \in Endpoints : editProvider(e)

\* The name typed into the modal is that of a model of the provider.
InputModal == \E pm \in ProviderModels : addProviderModel(pm)

ProviderModelList ==
    doFetchModels \/ InputModal \/ \E pm \in ProviderModels : removeProviderModel(pm)

ProviderStep ==
    \/ ProviderHeader \/ ProviderStatus \/ ProviderModelList
    \/ \E c \in Live : ProviderAnswer(c)
=============================================================================
