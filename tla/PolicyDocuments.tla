--------------------------- MODULE PolicyDocuments ---------------------------
(***************************************************************************)
(* What whoever saves a mapping policy may rely on, however the tables are  *)
(* written (admin-api/src/repositories.rs): a policy is one document.  A    *)
(* save replaces it whole and in one step, or not at all, and does so once; *)
(* nothing else rewrites it, only the routes to targets that are deleted    *)
(* drop out.                                                                *)
(***************************************************************************)
CONSTANTS Callers, Policies, Documents, Targets, None

VARIABLES
    docs,       \* the document of each policy that exists
    pending     \* the saves submitted and not yet decided

vars == <<docs, pending>>

Save == [caller : Callers, policy : Policies, document : Documents]

Init == docs \in [Policies -> Documents \cup {None}] /\ pending = {}

Submit(save) ==
    /\ \A other \in pending : other.caller # save.caller
    /\ pending' = pending \cup {save}
    /\ UNCHANGED docs

TakeEffect(save) ==
    /\ docs[save.policy] # None
    /\ docs' = [docs EXCEPT ![save.policy] = save.document]
    /\ pending' = pending \ {save}

Fail(save) == pending' = pending \ {save} /\ UNCHANGED docs

Create(p, document) ==
    /\ docs[p] = None
    /\ docs' = [docs EXCEPT ![p] = document]
    /\ UNCHANGED pending

Delete(gone) ==
    /\ docs' = [p \in Policies |-> IF p \in gone THEN None ELSE docs[p]]
    /\ UNCHANGED pending

DropTargets(gone) ==
    /\ docs' = [p \in Policies |-> IF docs[p] = None THEN None
                                   ELSE [docs[p] EXCEPT !.routes = @ \ gone]]
    /\ UNCHANGED pending

Next ==
    /\ vars' # vars
    /\ \/ \E save \in pending : TakeEffect(save) \/ Fail(save)
       \/ \E save \in Save : Submit(save)
       \/ \E p \in Policies, document \in Documents : Create(p, document)
       \/ \E gone \in SUBSET Policies : Delete(gone)
       \/ \E gone \in SUBSET Targets : DropTargets(gone)

Spec == Init /\ [][Next]_vars
=============================================================================
