----------------------------- MODULE AdminConsole -----------------------------
(***************************************************************************)
(* One admin console (admin-web/src/App.tsx, features/admin), the admin API *)
(* it talks to, and other administrators who change the same tables.  The   *)
(* person at the console navigates, edits drafts and presses buttons at any *)
(* moment, also while requests are under way.                               *)
(***************************************************************************)
EXTENDS ModelPage, ProviderPage, PolicyPage, ApiKeyPage

\* What a mounted page may be.
Page ==
    [key : LIST_SECTIONS \X (Models \cup Providers \cup Policies \cup Keys \cup {NEW_SIDEBAR_ITEM_ID}),
     draft : ModelDraft \cup ProviderDraft \cup PolicyDraft \cup ApiKeyDraft,
     of : Models \cup Providers \cup Policies \cup Keys \cup {NEW_SIDEBAR_ITEM_ID},
     picked : SUBSET Policies, secret : Hashes \cup {None}]

\* What a request to save a policy may be.
SaveCall ==
    [op : {"update_mapping_policy"}, id : Policies, with : Documents,
     cleared : SUBSET ProviderModels, at : {"sent", "replaced", "ok", "failed"},
     page : {"mounted", "gone", "other"}, by : {"handleSavePolicy", None}, todo : {{}},
     of : Models \cup Providers \cup Policies \cup Keys \cup {NEW_SIDEBAR_ITEM_ID, None}]

ASSUME NoneAssumption == None \notin Page /\ None \notin SaveCall

vars == <<controlVars, calls, dataVars, consoleVars>>

Init == ApiInit /\ DataInit /\ StoreInit

OtherCall ==
    /\ Len(calls) < tour.calls
    /\ \E other \in tour.others :
          calls' = Append(calls, [NewCall(other.op, other.id, other.with, None, {})
                                      EXCEPT !.page = "other", !.of = None])
    /\ UNCHANGED <<db, used, dataVars, sidebar, tour, page>>

Next ==
    \/ Navigate
    \/ ModelStep \/ ProviderStep \/ PolicyStep \/ ApiKeyStep
    \/ DataArrives \/ DataFails
    \/ OtherCall \/ Server

Spec == Init /\ [][Next]_vars
-----------------------------------------------------------------------------
\* The console and the requests stay well typed: a page has the draft of its
\* own section, a picture is one of tables that could exist, a fetch looks at
\* no tables older than its beginning.
TypeOK ==
    /\ ControlTypeOK
    /\ \A c \in Live :
          /\ calls[c].at \in {"sent", "replaced", "ok", "failed"}
          /\ calls[c].page \in {"mounted", "gone", "other"}
          /\ calls[c].page = "mounted" => page # None
          /\ calls[c].op = "update_mapping_policy" => calls[c].with \in Documents
    /\ data # None => data \in Picture /\ data.asOf <= version
    /\ fetch # None => fetch \in Fetch /\ fetch.seen[Len(fetch.seen)] = db
    /\ acked <= version
    /\ sidebar.resource \in SidebarResource
    /\ page # None =>
          /\ page.key = PageKey(sidebar, data)
          /\ page.draft \in CASE page.key[1] = "models"    -> ModelDraft
                              [] page.key[1] = "providers" -> ProviderDraft
                              [] page.key[1] = "routes"    -> PolicyDraft
                              [] page.key[1] = "keys"      -> ApiKeyDraft

\* What a page writes goes to the item its draft was taken from, however the
\* selection, the picture and the answers change meanwhile (the keys of the
\* pages): nobody overwrites one policy with the draft of another.
SavesGoHome ==
    \A c \in Live :
        calls[c].op \in {"update_epichust_model", "update_provider", "update_mapping_policy",
                         "update_api_key"} /\ calls[c].page # "other"
        => calls[c].of = calls[c].id

Chosen(d) ==
    \/ sidebar.selected = NEW_SIDEBAR_ITEM_ID
    \/ d # None /\ sidebar.selected \in buildRows(sidebar.resource, d)

\* A new picture does not take what is being edited away: as long as the
\* chosen item is in it, the page and its draft are as they were
\* (getSelectedItem), though drafts of items that were only shown for want of
\* a choice, or are deleted by somebody else, may be lost.
KeptThroughRefresh ==
    [][data' # data /\ data # None /\ Chosen(data) /\ Chosen(data') => page' = page]_vars
=============================================================================
