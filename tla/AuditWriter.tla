----------------------------- MODULE AuditWriter -----------------------------
(***************************************************************************)
(* The background audit writer (gateway/src/audit_writer.rs) and the end of *)
(* logging that feeds it (gateway/src/proxy.rs).  Handlers try_send rows to *)
(* a bounded channel and never wait.  The writer connects, receives a first *)
(* row, adds what arrives before a deadline up to BatchSize rows, inserts   *)
(* the batch with one statement, and forgets it whether that worked or not. *)
(* The insert fails as a whole if the database cannot be reached, or if one *)
(* row refers to an API key or provider that has been deleted meanwhile     *)
(* (the foreign keys of audit_logs).                                        *)
(***************************************************************************)
EXTENDS Integers, Sequences, FiniteSets

CONSTANTS
    Rows,       \* audit rows, one per request
    Entities,   \* API keys and providers rows refer to
    RefersTo,   \* the entities each row refers to
    Capacity,   \* CHANNEL_CAPACITY, 8192 in the code
    BatchSize   \* BATCH_SIZE, 256 in the code

ASSUME AuditWriterAssumption ==
    /\ RefersTo \in [Rows -> SUBSET Entities]
    /\ Capacity \in Nat \ {0}
    /\ BatchSize \in Nat \ {0}

VARIABLES
    chan,       \* the channel
    batch,      \* the writer's batch
    writer,     \* where the writer stands
    open,       \* some sender is left
    entities,   \* the entities that exist in the database
    accepted,   \* history: rows the channel took, in order
    refused,    \* history: rows dropped because it was full
    done        \* history: rows the writer is through with, and their fate;
                \* those "stored" are the table audit_logs

vars == <<chan, batch, writer, open, entities, accepted, refused, done>>

Trail == INSTANCE AuditTrail
             WITH accepted <- accepted, refused <- refused, done <- done

InSeq(s) == {s[i] : i \in DOMAIN s}

Init ==
    /\ chan = <<>>
    /\ batch = <<>>
    /\ writer = "connecting"
    /\ open = TRUE
    /\ entities = Entities
    /\ accepted = <<>>
    /\ refused = {}
    /\ done = <<>>

\* Mutant: a full channel makes room by dropping its oldest row.
try_send_evicting(row) ==
    /\ open
    /\ row \notin InSeq(accepted) \cup refused
    /\ chan' = Append(IF Len(chan) < Capacity THEN chan ELSE Tail(chan), row)
    /\ accepted' = Append(accepted, row)
    /\ UNCHANGED <<batch, writer, open, entities, refused, done>>

\* logging: the row is built while its entities are in the gateway's cache,
\* which may be later than they are in the database.
try_send(row) ==
    /\ open
    /\ row \notin InSeq(accepted) \cup refused
    /\ \/ /\ Len(chan) < Capacity
          /\ chan' = Append(chan, row)
          /\ accepted' = Append(accepted, row)
          /\ UNCHANGED refused
       \/ /\ Len(chan) = Capacity
          /\ refused' = refused \cup {row}
          /\ UNCHANGED <<chan, accepted>>
    /\ UNCHANGED <<batch, writer, open, entities, done>>

\* Mutant: the thread returns when its first attempt to connect fails.
ConnectOnce ==
    /\ writer = "connecting"
    /\ writer' \in {"receiving", "stopped"}
    /\ UNCHANGED <<chan, batch, open, entities, accepted, refused, done>>

\* PgPool::connect succeeds; until it does it is retried.
Connect ==
    /\ writer = "connecting"
    /\ writer' = "receiving"
    /\ UNCHANGED <<chan, batch, open, entities, accepted, refused, done>>

\* Mutant: the newest row is taken first.
ReceiveNewest ==
    /\ chan # <<>>
    /\ batch' = Append(batch, chan[Len(chan)])
    /\ chan' = SubSeq(chan, 1, Len(chan) - 1)
    /\ UNCHANGED <<open, entities, accepted, refused, done>>

Receive ==
    /\ chan # <<>>
    /\ batch' = Append(batch, Head(chan))
    /\ chan' = Tail(chan)
    /\ UNCHANGED <<open, entities, accepted, refused, done>>

RecvFirst == writer = "receiving" /\ Receive /\ writer' = "coalescing"

\* Mutant: the batch has no size limit.
RecvMoreUnbounded ==
    /\ writer = "coalescing"
    /\ Receive
    /\ UNCHANGED writer

RecvMore ==
    /\ writer = "coalescing"
    /\ Len(batch) < BatchSize
    /\ Receive
    /\ UNCHANGED writer

\* Mutant: there is no deadline, only a full batch is inserted.
EndFullBatch ==
    /\ writer = "coalescing"
    /\ Len(batch) = BatchSize
    /\ writer' = "inserting"
    /\ UNCHANGED <<chan, batch, open, entities, accepted, refused, done>>

\* The deadline passes, the batch is full, or no row can come any more.
EndBatch ==
    /\ writer = "coalescing"
    /\ writer' = "inserting"
    /\ UNCHANGED <<chan, batch, open, entities, accepted, refused, done>>

Settled(rows, fate) == [i \in DOMAIN rows |-> [row |-> rows[i], fate |-> fate]]

ForeignKeysHold == \A row \in InSeq(batch) : RefersTo[row] \subseteq entities

\* Mutant: the batch is not cleared.
insert_batch_uncleared(fate) ==
    /\ writer = "inserting"
    /\ \/ fate = "stored" /\ ForeignKeysHold
       \/ fate = "rejected" /\ ~ForeignKeysHold
       \/ fate = "unreachable"
    /\ done' = done \o Settled(batch, fate)
    /\ writer' = "receiving"
    /\ UNCHANGED <<chan, batch, open, entities, accepted, refused>>

\* insert_batch, then batch.clear().  The request ids are fresh, so ON CONFLICT
\* DO NOTHING has nothing to do.
insert_batch(fate) ==
    /\ writer = "inserting"
    /\ \/ fate = "stored" /\ ForeignKeysHold
       \/ fate = "rejected" /\ ~ForeignKeysHold
       \/ fate = "unreachable"
    /\ done' = done \o Settled(batch, fate)
    /\ batch' = <<>>
    /\ writer' = "receiving"
    /\ UNCHANGED <<chan, open, entities, accepted, refused>>

\* The service drops its senders; recv still hands out what is in the channel.
CloseChannel ==
    /\ open
    /\ open' = FALSE
    /\ UNCHANGED <<chan, batch, writer, entities, accepted, refused, done>>

Stop ==
    /\ writer = "receiving"
    /\ chan = <<>>
    /\ ~open
    /\ writer' = "stopped"
    /\ UNCHANGED <<chan, batch, open, entities, accepted, refused, done>>

\* The process ends; nobody joins the writer's thread.
Exit ==
    /\ writer # "exited"
    /\ writer' = "exited"
    /\ open' = FALSE
    /\ done' = done \o Settled(batch \o chan, "exited")
    /\ batch' = <<>>
    /\ chan' = <<>>
    /\ UNCHANGED <<entities, accepted, refused>>

\* The admin API deletes an entity; rows already stored keep a NULL instead.
DeleteEntity(e) ==
    /\ entities' = entities \ {e}
    /\ UNCHANGED <<chan, batch, writer, open, accepted, refused, done>>

Insert == \E fate \in {"stored", "rejected", "unreachable"} : insert_batch(fate)

Write == Connect \/ RecvFirst \/ RecvMore \/ EndBatch \/ Insert \/ Stop

Next ==
    \/ \E row \in Rows : try_send(row)
    \/ Write
    \/ CloseChannel
    \/ Exit
    \/ \E e \in Entities : DeleteEntity(e)

Spec == Init /\ [][Next]_vars

\* The writer's thread keeps running: the database is reachable at last, the
\* timer fires, and every insert ends, with success or with an error.
FairSpec ==
    /\ Spec
    /\ WF_vars(Connect) /\ WF_vars(RecvFirst) /\ WF_vars(EndBatch)
    /\ WF_vars(Insert) /\ WF_vars(Stop)
-----------------------------------------------------------------------------
Pending == batch \o chan

TypeOK ==
    /\ chan \in Seq(Rows) /\ Len(chan) <= Capacity
    /\ batch \in Seq(Rows) /\ Len(batch) <= BatchSize
    /\ writer \in {"connecting", "receiving", "coalescing", "inserting", "stopped", "exited"}
    /\ open \in BOOLEAN
    /\ entities \subseteq Entities
    /\ accepted \in Seq(Rows)
    /\ refused \subseteq Rows
    /\ done \in Seq([row : Rows, fate : Trail!Fates])

\* Nothing is lost, duplicated or reordered between channel, batch and table
\* (try_send, the receive loop, insert_batch and batch.clear): the rows
\* settled, then those in the batch, then those in the channel are exactly the
\* rows accepted, in the order they were accepted.
NothingSlipsAway ==
    accepted = [i \in DOMAIN done |-> done[i].row] \o batch \o chan

\* A request has one audit row at most, whatever the channel, the batches and
\* the failures do to it.
AtMostOnce ==
    \A i, j \in DOMAIN done : done[i].row = done[j].row => i = j

\* When the senders are gone the writer empties the channel, inserts its last
\* batch and stops (recv yields None only then), unless the process ends first.
DrainsWhenClosed == ~open ~> Pending = <<>> /\ writer \in {"stopped", "exited"}

\* The writer is an audit trail: rows are settled in order, once, in batches.
TrailSpec == Trail!Spec

\* As long as the writer's thread runs, no accepted row is left in limbo.
TrailProgress == Trail!FairSpec
-----------------------------------------------------------------------------
\* The stronger claims the repository makes and the code does not keep.

\* deploy/sql/004_audit_log_fk_set_null.sql:3, "Audit history should outlive
\* the referenced entities": no row is lost because of a deleted entity.
HistoryOutlivesEntities == \A i \in DOMAIN done : done[i].fate # "rejected"
=============================================================================
