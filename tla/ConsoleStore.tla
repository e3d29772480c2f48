----------------------------- MODULE ConsoleStore -----------------------------
(***************************************************************************)
(* What the pages of the admin console share: the store with the section    *)
(* and the selected item (admin-web/src/stores/admin-store.ts), the         *)
(* navigation (components/layout), and React's life cycle of the page that  *)
(* shows the item (features/admin/*-page.tsx).  A page keeps a draft made   *)
(* from the picture when it is mounted, and is remounted only when its key, *)
(* the item's id, changes.  Its handlers are asynchronous: they go on when  *)
(* the page is gone, but no longer reach its state.                         *)
(***************************************************************************)
EXTENDS AdminData

CONSTANTS
    Others,     \* requests of other administrators: op, id and with
    Tours       \* bound: what may happen at the console, one of these: the
                \* sections visited, how many requests and changes to drafts,
                \* and which requests of others

VARIABLES
    sidebar,    \* sidebarResource and selectedSidebarItemId
    page,       \* the page mounted, or None
    tour        \* what is left of the tour chosen

consoleVars == <<sidebar, page, tour>>

NEW_SIDEBAR_ITEM_ID == "__new__"

SidebarResource == {"dashboard", "providers", "models", "routes", "keys", "audit"}

LIST_SECTIONS == {"providers", "models", "routes", "keys"}

ASSUME ConsoleAssumption ==
    Tours \subseteq [sections : SUBSET SidebarResource, calls : 0..MaxCalls, edits : Nat,
                     others : SUBSET Others]

ASSUME IdsAssumption ==
    /\ {None, NEW_SIDEBAR_ITEM_ID} \cap (Models \cup Providers \cup Policies \cup Keys) = {}
    /\ None # NEW_SIDEBAR_ITEM_ID

ASSUME OthersAssumption == \A other \in Others : WellFormed(other.op, other.id, other.with)

\* Nothing selected is the empty string in the code, None here.
StoreInit ==
    /\ sidebar = [resource |-> "dashboard", selected |-> None]
    /\ page = None
    /\ tour \in Tours

Newest(ids) == IF ids = {} THEN None ELSE CHOOSE id \in ids : \A other \in ids : Age[other] <= Age[id]

\* The rows of a section, and the one on top.
buildRows(resource, d) ==
    CASE resource = "providers" -> Rows(d.tables.providers)
      [] resource = "models"    -> Rows(d.tables.epichust_models)
      [] resource = "routes"    -> Rows(d.tables.mapping_policies)
      [] resource = "keys"      -> Rows(d.tables.api_keys)
      [] OTHER                  -> {}

FirstRow(resource, d) ==
    IF resource = "routes" THEN d.first ELSE Newest(buildRows(resource, d))

\* Mutant: the page follows the list, not the selection.
getFirstItem(resource, selected, d) == FirstRow(resource, d)

getSelectedItem(resource, selected, d) ==
    IF selected \in buildRows(resource, d) THEN selected ELSE FirstRow(resource, d)

NoPage == <<None, None>>

\* The key of the page to be shown for a sidebar and a picture.
PageKey(s, d) ==
    IF d = None \/ s.resource \notin LIST_SECTIONS THEN NoPage
    ELSE IF s.selected = NEW_SIDEBAR_ITEM_ID THEN <<s.resource, NEW_SIDEBAR_ITEM_ID>>
    ELSE LET id == getSelectedItem(s.resource, s.selected, d)
         IN  IF id = None THEN NoPage ELSE <<s.resource, id>>
-----------------------------------------------------------------------------
\* The drafts the pages begin with.
createModelDraft(id, d) ==
    [model_name |-> IF id = NEW_SIDEBAR_ITEM_ID THEN None ELSE d.tables.epichust_models[id]]

createProviderDraft(id, d) ==
    IF id = NEW_SIDEBAR_ITEM_ID THEN [endpoint |-> None, providerModels |-> {}]
    ELSE [endpoint       |-> d.tables.providers[id],
          providerModels |-> {pm \in d.tables.provider_models : ProviderOf[pm] = id}]

createPolicyDraft(id, d) ==
    IF id = NEW_SIDEBAR_ITEM_ID
    THEN [epichust_model |-> None, enabled |-> TRUE, rule |-> None, routes |-> {}]
    ELSE LET document == DocumentOf(d.tables, id) IN
         [epichust_model |-> d.tables.mapping_policies[id].epichust_model,
          enabled |-> document.enabled, rule |-> document.rule, routes |-> document.routes]

createApiKeyDraft(id, d) ==
    IF id = NEW_SIDEBAR_ITEM_ID THEN [enabled |-> TRUE, mappingPolicies |-> {}]
    ELSE [enabled         |-> d.tables.api_keys[id].enabled,
          mappingPolicies |-> {l[2] : l \in {l \in d.tables.api_key_mapping_policies : l[1] = id}}]

createDraft(key, d) ==
    CASE key[1] = "models"    -> createModelDraft(key[2], d)
      [] key[1] = "providers" -> createProviderDraft(key[2], d)
      [] key[1] = "routes"    -> createPolicyDraft(key[2], d)
      [] key[1] = "keys"      -> createApiKeyDraft(key[2], d)

\* of is the item the draft was made from, picked the selection in the page's
\* modal, secret the new key it reveals.
Mount(key, d) ==
    [key |-> key, draft |-> createDraft(key, d), of |-> key[2], picked |-> {}, secret |-> None]

Shown == IF page = None THEN NoPage ELSE page.key

Unmounted(cs) ==
    [c \in DOMAIN cs |-> IF cs[c] # None /\ cs[c].page = "mounted"
                         THEN [cs[c] EXCEPT !.page = "gone"] ELSE cs[c]]

\* by is the handler that waits for the answer, todo what it has left to do.
NewCall(op, id, with, by, todo) ==
    [op |-> op, id |-> id, with |-> with, cleared |-> {}, at |-> "sent", page |-> "mounted",
     by |-> by, todo |-> todo, of |-> IF page = None THEN None ELSE page.of]

\* A provider without models is asked for them as soon as its page is shown
\* (unless the bound on requests is reached).
MountEffect(key, d, cs) ==
    IF /\ key[1] = "providers" /\ key[2] # NEW_SIDEBAR_ITEM_ID
       /\ createProviderDraft(key[2], d).providerModels = {}
       /\ Len(cs) < tour.calls
    THEN Append(cs, [NewCall("provider_available_models", key[2], None, "doFetchModels", {})
                         EXCEPT !.of = key[2]])
    ELSE cs

\* Mutant: the page has no key and is kept for the next item of its section.
RenderKeyless(s, d) ==
    LET key == PageKey(s, d) IN
    IF key = Shown THEN UNCHANGED <<page, calls>>
    ELSE IF key = NoPage THEN page' = None /\ calls' = Unmounted(calls)
    ELSE IF key[1] = Shown[1] THEN page' = [page EXCEPT !.key = key] /\ UNCHANGED calls
    ELSE page' = Mount(key, d) /\ calls' = MountEffect(key, d, Unmounted(calls))

Render(s, d) ==
    LET key == PageKey(s, d) IN
    IF key = Shown THEN UNCHANGED <<page, calls>>
    ELSE IF key = NoPage THEN page' = None /\ calls' = Unmounted(calls)
    ELSE page' = Mount(key, d) /\ calls' = MountEffect(key, d, Unmounted(calls))
-----------------------------------------------------------------------------
\* A section of the rail is chosen; components mounted for it use the query.
setSidebarResource(resource) ==
    /\ sidebar' = [resource |-> resource, selected |-> None]
    /\ Render(sidebar', data)
    /\ IF resource # sidebar.resource /\ ~({resource, sidebar.resource} \subseteq LIST_SECTIONS)
       THEN useAdminData ELSE UNCHANGED dataVars
    /\ UNCHANGED <<db, used, tour>>

\* A row of the list, or its add button.
setSelectedSidebarItemId(id) ==
    /\ sidebar.resource \in LIST_SECTIONS
    /\ \/ id = NEW_SIDEBAR_ITEM_ID
       \/ data # None /\ id \in buildRows(sidebar.resource, data)
    /\ sidebar' = [sidebar EXCEPT !.selected = id]
    /\ Render(sidebar', data)
    /\ UNCHANGED <<db, used, dataVars, tour>>

\* From the page of a model or a key to one of its policies.
navigateToPolicy(p) ==
    /\ "routes" \in tour.sections
    /\ sidebar' = [resource |-> "routes", selected |-> p]
    /\ Render(sidebar', data)
    /\ UNCHANGED <<db, used, dataVars, tour>>

\* The Refresh buttons; a page's is disabled while a fetch is under way.
onRefresh ==
    /\ data # None
    /\ page # None => fetch = None
    /\ refetch
    /\ UNCHANGED <<db, used, calls, data, isError, version, acked, sidebar, tour, page>>

\* The picture is replaced and the page rendered with it.
DataArrives ==
    /\ Arrive
    /\ Render(sidebar, data')
    /\ UNCHANGED <<db, used, sidebar, tour>>

DataFails == FetchFails /\ UNCHANGED <<db, used, calls, sidebar, tour, page>>

Server == ApiStep /\ WatchTables /\ UNCHANGED consoleVars

Navigate ==
    \/ \E resource \in tour.sections : setSidebarResource(resource)
    \/ \E id \in Models \cup Providers \cup Policies \cup Keys \cup {NEW_SIDEBAR_ITEM_ID} :
          setSelectedSidebarItemId(id)
    \/ onRefresh
-----------------------------------------------------------------------------
\* What the handlers of the pages are made of.

OnPage(resource) == page # None /\ page.key[1] = resource

Item == page.key[2]

IsNew == Item = NEW_SIDEBAR_ITEM_ID

isPending(op) == \E c \in Live : calls[c].page = "mounted" /\ calls[c].op = op

Edit(draft) ==
    /\ tour.edits > 0
    /\ tour' = [tour EXCEPT !.edits = @ - 1]
    /\ page' = [page EXCEPT !.draft = draft]
    /\ UNCHANGED <<db, used, calls, dataVars, sidebar>>

mutateAsync(op, id, with, by, todo) ==
    /\ Len(calls) < tour.calls
    /\ calls' = Append(calls, NewCall(op, id, with, by, todo))
    /\ UNCHANGED <<db, used, dataVars, sidebar, tour>>

\* The answer to c has come, to handler by.
Answered(c, by, answer) == calls[c].page # "other" /\ calls[c].by = by /\ calls[c].at = answer

Over(c) == calls' = [calls EXCEPT ![c] = None]

\* The page's state is changed by a handler, if the page is still there.
setState(c, pg) ==
    IF calls[c].page = "mounted" THEN page' = pg ELSE UNCHANGED page

\* A handler with a single request is told that it succeeded, or failed.
Succeeds(c, by) ==
    /\ Answered(c, by, "ok")
    /\ onSuccess
    /\ Over(c)
    /\ UNCHANGED <<db, used, sidebar, tour>>

Fails(c, by) ==
    /\ Answered(c, by, "failed")
    /\ Over(c)
    /\ UNCHANGED <<db, used, dataVars, sidebar, tour, page>>
=============================================================================
