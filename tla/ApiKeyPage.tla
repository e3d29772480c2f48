------------------------------ MODULE ApiKeyPage ------------------------------
(***************************************************************************)
(* The page of an API key (admin-web/src/features/admin/api-key-page.tsx).  *)
(* The plaintext of a new key comes with the answer that made it and is     *)
(* nowhere else: it is shown in a modal of the page that asked, if that is  *)
(* still there.  The policies picked in another modal are attached one by   *)
(* one.  The key's name behaves like its being enabled.                     *)
(***************************************************************************)
EXTENDS ConsoleStore

ApiKeyDraft == [enabled : BOOLEAN, mappingPolicies : SUBSET Policies]

OnApiKeyPage == OnPage("keys")

editKeyEnabled(enabled) ==
    OnApiKeyPage /\ Edit([page.draft EXCEPT !.enabled = enabled])

\* The policies of the draft are not sent.
handleSaveKey ==
    /\ OnApiKeyPage /\ IsNew
    /\ ~isPending("create_api_key")
    /\ mutateAsync("create_api_key", None, None, "handleSaveKey", {})
    /\ UNCHANGED page

handleUpdateKey ==
    /\ OnApiKeyPage /\ ~IsNew
    /\ ~isPending("update_api_key")
    /\ mutateAsync("update_api_key", Item, page.draft.enabled, "handleUpdateKey", {})
    /\ UNCHANGED page

handleRotateKey ==
    /\ OnApiKeyPage /\ ~IsNew
    /\ ~isPending("rotate_api_key")
    /\ mutateAsync("rotate_api_key", Item, None, "handleRotateKey", {})
    /\ UNCHANGED page

handleDeleteKey ==
    /\ OnApiKeyPage /\ ~IsNew
    /\ ~isPending("delete_api_key")
    /\ mutateAsync("delete_api_key", Item, None, "handleDeleteKey", {})
    /\ UNCHANGED page

closeSecret ==
    /\ OnApiKeyPage
    /\ page.secret # None
    /\ page' = [page EXCEPT !.secret = None]
    /\ UNCHANGED <<db, used, calls, dataVars, sidebar, tour>>

\* A policy of the key's draft, unless the picture no longer has it.
openKeyPolicy(p) ==
    /\ OnApiKeyPage
    /\ p \in page.draft.mappingPolicies \cap Rows(data.tables.mapping_policies)
    /\ navigateToPolicy(p)
-----------------------------------------------------------------------------
attachablePolicies == Rows(data.tables.mapping_policies) \ page.draft.mappingPolicies

\* The modal's boxes; a picked policy may leave the list before it is confirmed.
toggle(p) ==
    /\ OnApiKeyPage
    /\ p \in attachablePolicies
    /\ page' = [page EXCEPT !.picked = IF p \in @ THEN @ \ {p} ELSE @ \cup {p}]
    /\ UNCHANGED <<db, used, calls, dataVars, sidebar, tour>>

handleClose ==
    /\ OnApiKeyPage
    /\ page.picked # {}
    /\ page' = [page EXCEPT !.picked = {}]
    /\ UNCHANGED <<db, used, calls, dataVars, sidebar, tour>>

\* Confirmed: the policies still in the picture are attached to the key, or
\* put into the draft of a new one.
handleAttachPolicies ==
    /\ OnApiKeyPage
    /\ page.picked # {}
    /\ LET found == page.picked \cap Rows(data.tables.mapping_policies) IN
       \/ /\ ~IsNew
          /\ \E p \in found :
                mutateAsync("attach_api_key_mapping_policy", Item, p,
                            "handleAttachPolicies", found \ {p})
          /\ page' = [page EXCEPT !.picked = {}]
       \/ /\ ~IsNew /\ found = {}
          /\ refetch
          /\ page' = [page EXCEPT !.picked = {}]
          /\ UNCHANGED <<db, used, calls, data, isError, version, acked, sidebar, tour>>
       \/ /\ IsNew
          /\ page' = [page EXCEPT !.picked = {}, !.draft.mappingPolicies = @ \cup found]
          /\ UNCHANGED <<db, used, calls, dataVars, sidebar, tour>>

\* The next one is attached, whether or not the last one could be; at the end
\* the page refreshes.
AttachAnswer(c) ==
    /\ \/ Answered(c, "handleAttachPolicies", "ok") /\ onSuccess
       \/ /\ Answered(c, "handleAttachPolicies", "failed")
          /\ IF calls[c].todo = {} THEN refetch ELSE UNCHANGED fetch
          /\ UNCHANGED <<data, isError, version, acked>>
    /\ \/ calls[c].todo = {} /\ Over(c)
       \/ \E p \in calls[c].todo :
             calls' = [calls EXCEPT ![c].with = p, ![c].at = "sent", ![c].todo = @ \ {p}]
    /\ UNCHANGED <<db, used, sidebar, tour, page>>

\* The draft of a key that exists goes on listing what was detached.
removeMappingPolicy(p) ==
    /\ OnApiKeyPage
    /\ p \in page.draft.mappingPolicies
    /\ \/ /\ ~IsNew
          /\ mutateAsync("detach_api_key_mapping_policy", Item, p, "removeMappingPolicy", {})
          /\ UNCHANGED page
       \/ IsNew /\ Edit([page.draft EXCEPT !.mappingPolicies = @ \ {p}])

KeyAnswer(c) ==
    \/ \E by \in {"handleUpdateKey", "handleDeleteKey", "removeMappingPolicy"} :
          Succeeds(c, by) /\ UNCHANGED page
    \/ \E by \in {"handleSaveKey", "handleRotateKey"} :
          Succeeds(c, by) /\ setState(c, [page EXCEPT !.secret = calls[c].with])
    \/ \E by \in {"handleUpdateKey", "handleDeleteKey", "removeMappingPolicy",
                  "handleSaveKey", "handleRotateKey"} : Fails(c, by)
    \/ AttachAnswer(c)

\* The parts of the page: buttons, fields, policies, and the two modals.
KeyHeader == handleSaveKey \/ handleUpdateKey \/ handleDeleteKey

KeyStatus == handleRotateKey \/ \E enabled \in BOOLEAN : editKeyEnabled(enabled)

KeyPolicyList == \E p \in Policies : openKeyPolicy(p) \/ removeMappingPolicy(p)

AddItemModal == handleClose \/ handleAttachPolicies \/ \E p \in Policies : toggle(p)

ApiKeyStep ==
    \/ KeyHeader \/ KeyStatus \/ KeyPolicyList \/ AddItemModal \/ closeSecret
    \/ \E c \in Live : KeyAnswer(c)
=============================================================================
