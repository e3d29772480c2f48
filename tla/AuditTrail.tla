----------------------------- MODULE AuditTrail -----------------------------
(***************************************************************************)
(* What the gateway's audit log promises, whoever writes it                 *)
(* (gateway/src/audit_writer.rs): a row offered is accepted or refused on   *)
(* the spot; the accepted rows are settled in the order they were accepted, *)
(* each exactly once, at most BatchSize at a time, and those settled        *)
(* together share one fate.                                                 *)
(***************************************************************************)
EXTENDS Integers, Sequences

CONSTANTS Rows, BatchSize

VARIABLES
    accepted,   \* the rows accepted, in order
    refused,    \* the rows refused
    done        \* the rows settled so far, each with its fate

vars == <<accepted, refused, done>>

Fates == {"stored", "rejected", "unreachable", "exited"}

Unsettled == Len(accepted) - Len(done)

Init == accepted = <<>> /\ refused = {} /\ done = <<>>

Offer(row) ==
    /\ \/ accepted' = Append(accepted, row) /\ UNCHANGED refused
       \/ refused' = refused \cup {row} /\ UNCHANGED accepted
    /\ UNCHANGED done

\* The next n rows are settled together.
SettleNext(n, fate) ==
    /\ done' = done \o [i \in 1..n |-> [row |-> accepted[Len(done) + i], fate |-> fate]]
    /\ UNCHANGED <<accepted, refused>>

Settle ==
    \E n \in 1..BatchSize, fate \in Fates \ {"exited"} :
        n <= Unsettled /\ SettleNext(n, fate)

\* The process ends and takes along whatever is unsettled.
Exit == SettleNext(Unsettled, "exited")

Next == (\E row \in Rows : Offer(row)) \/ Settle \/ Exit

Spec == Init /\ [][Next]_vars

FairSpec == Spec /\ WF_vars(Settle \/ Exit)
=============================================================================
