-------------------------- MODULE AuditWriterProofs --------------------------
(***************************************************************************)
(* Proofs about AuditWriter: for every channel capacity and batch size, and *)
(* whatever fails, the accepted rows are settled in order and once, and the *)
(* writer implements AuditTrail.                                            *)
(***************************************************************************)
EXTENDS AuditWriter, SequenceTheorems, TLAPS

\* A row is accepted once.
AcceptedOnce ==
    \A i, j \in DOMAIN accepted : accepted[i] = accepted[j] => i = j

\* There is a batch exactly while the writer coalesces or inserts one.
BatchInHand == batch # <<>> <=> writer \in {"coalescing", "inserting"}

IInv == TypeOK /\ BatchInHand /\ NothingSlipsAway /\ AcceptedOnce

RowsOf(d) == [i \in DOMAIN d |-> d[i].row]

Outcome == [row : Rows, fate : Trail!Fates]
-----------------------------------------------------------------------------
\* Facts about sequences of rows: appending, and moving the head of the second
\* part to the end of the first, keep the whole in order.
LEMMA AppendToLast ==
    ASSUME NEW s \in Seq(Rows), NEW t \in Seq(Rows), NEW x \in Rows
    PROVE  Append(s \o t, x) = s \o Append(t, x)
PROOF
  <1>1. /\ s \o t \in Seq(Rows)
        /\ Append(s \o t, x) \in Seq(Rows)
        /\ Append(t, x) \in Seq(Rows)
        /\ s \o Append(t, x) \in Seq(Rows)
    BY ConcatProperties
  <1>2. Len(s) \in Nat /\ Len(t) \in Nat
    OBVIOUS
  <1>3. /\ Len(Append(s \o t, x)) = Len(s) + Len(t) + 1
        /\ Len(s \o Append(t, x)) = Len(s) + Len(t) + 1
    BY <1>1
  <1>4. ASSUME NEW i \in 1..(Len(s) + Len(t) + 1)
        PROVE  Append(s \o t, x)[i] = (s \o Append(t, x))[i]
    BY <1>1, <1>2, <1>3
  <1> QED BY <1>1, <1>3, <1>4, SeqEqual

LEMMA MoveHead ==
    ASSUME NEW s \in Seq(Rows), NEW b \in Seq(Rows), NEW c \in Seq(Rows), c # <<>>
    PROVE  /\ Append(b, Head(c)) \in Seq(Rows)
           /\ Tail(c) \in Seq(Rows)
           /\ (s \o b) \o c = (s \o Append(b, Head(c))) \o Tail(c)
PROOF
  <1>1. Head(c) \in Rows /\ Tail(c) \in Seq(Rows) /\ Len(Tail(c)) = Len(c) - 1
        /\ \A i \in 1..Len(Tail(c)) : Tail(c)[i] = c[i + 1]
    BY HeadTailProperties
  <1>2. Append(b, Head(c)) \in Seq(Rows)
    BY <1>1
  <1>3. c = <<Head(c)>> \o Tail(c)
    <2>1. <<Head(c)>> \in Seq(Rows) /\ Len(<<Head(c)>>) = 1
      BY <1>1
    <2>2. <<Head(c)>> \o Tail(c) \in Seq(Rows)
      BY <1>1, <2>1, ConcatProperties
    <2>3. Len(c) \in Nat /\ Len(<<Head(c)>> \o Tail(c)) = Len(c)
      BY <1>1, <2>1
    <2>4. ASSUME NEW i \in 1..Len(c) PROVE c[i] = (<<Head(c)>> \o Tail(c))[i]
      BY <1>1, <2>1, <2>3
    <2> QED BY <2>2, <2>3, <2>4, SeqEqual
  <1>4. <<Head(c)>> \in Seq(Rows) /\ Append(b, Head(c)) = b \o <<Head(c)>>
    BY <1>1
  <1>5. s \o b \in Seq(Rows)
    BY ConcatProperties
  <1>a. \A x, y, z \in Seq(Rows) : (x \o y) \o z = x \o (y \o z)
    BY ConcatAssociative
  <1>6. (s \o b) \o c = ((s \o b) \o <<Head(c)>>) \o Tail(c)
    <2>1. ((s \o b) \o <<Head(c)>>) \o Tail(c) = (s \o b) \o (<<Head(c)>> \o Tail(c))
      BY <1>1, <1>4, <1>5, <1>a, Zenon
    <2> QED BY <2>1, <1>3, Zenon
  <1>7. (s \o b) \o <<Head(c)>> = s \o Append(b, Head(c))
    <2>1. (s \o b) \o <<Head(c)>> = s \o (b \o <<Head(c)>>)
      BY <1>4, <1>a, Zenon
    <2> QED BY <2>1, <1>4, Zenon
  <1> QED BY <1>1, <1>2, <1>6, <1>7

\* Settling rows adds one outcome for each, in order.
LEMMA SettledShape ==
    ASSUME NEW rows \in Seq(Rows), NEW fate \in Trail!Fates
    PROVE  /\ Settled(rows, fate) \in Seq(Outcome)
           /\ Len(Settled(rows, fate)) = Len(rows)
           /\ \A i \in 1..Len(rows) :
                 Settled(rows, fate)[i] = [row |-> rows[i], fate |-> fate]
PROOF
  <1>1. DOMAIN rows = 1..Len(rows) /\ Len(rows) \in Nat
    OBVIOUS
  <1>2. \A i \in 1..Len(rows) : [row |-> rows[i], fate |-> fate] \in Outcome
    BY ElementOfSeq DEF Outcome
  <1>3. Settled(rows, fate) = [i \in 1..Len(rows) |-> [row |-> rows[i], fate |-> fate]]
    BY <1>1 DEF Settled
  <1> QED BY <1>1, <1>2, <1>3

LEMMA RowsOfShape ==
    ASSUME NEW d \in Seq(Outcome)
    PROVE  /\ RowsOf(d) \in Seq(Rows)
           /\ Len(RowsOf(d)) = Len(d)
           /\ \A i \in 1..Len(d) : RowsOf(d)[i] = d[i].row
PROOF
  <1>1. DOMAIN d = 1..Len(d) /\ Len(d) \in Nat
    OBVIOUS
  <1>2. \A i \in 1..Len(d) : d[i] \in Outcome
    BY ElementOfSeq
  <1>3. \A i \in 1..Len(d) : d[i].row \in Rows
    BY <1>2 DEF Outcome
  <1>4. RowsOf(d) = [i \in 1..Len(d) |-> d[i].row]
    BY <1>1 DEF RowsOf
  <1> QED BY <1>1, <1>3, <1>4

LEMMA RowsOfSettled ==
    ASSUME NEW d \in Seq(Outcome), NEW rows \in Seq(Rows), NEW fate \in Trail!Fates
    PROVE  /\ d \o Settled(rows, fate) \in Seq(Outcome)
           /\ RowsOf(d \o Settled(rows, fate)) = RowsOf(d) \o rows
PROOF
  <1>1. PICK t \in Seq(Outcome) :
          /\ t = Settled(rows, fate)
          /\ Len(t) = Len(rows)
          /\ \A i \in 1..Len(rows) : t[i].row = rows[i]
    <2>1. \A i \in 1..Len(rows) :
             Settled(rows, fate)[i] = [row |-> rows[i], fate |-> fate]
      BY SettledShape, Zenon
    <2>2. ASSUME NEW i \in 1..Len(rows) PROVE Settled(rows, fate)[i].row = rows[i]
      <3>1. Settled(rows, fate)[i] = [row |-> rows[i], fate |-> fate]
        BY <2>1, Zenon
      <3>2. [row |-> rows[i], fate |-> fate].row = rows[i]
        OBVIOUS
      <3> QED BY <3>1, <3>2, Zenon
    <2> QED BY <2>2, SettledShape, Zenon
  <1>2. Len(d) \in Nat /\ Len(rows) \in Nat
    OBVIOUS
  <1>3. PICK e \in Seq(Outcome) :
          /\ e = d \o t
          /\ Len(e) = Len(d) + Len(rows)
          /\ \A i \in 1..(Len(d) + Len(rows)) :
                e[i] = IF i <= Len(d) THEN d[i] ELSE t[i - Len(d)]
    <2>1. /\ d \o t \in Seq(Outcome)
          /\ Len(d \o t) = Len(d) + Len(t)
          /\ \A i \in 1..(Len(d) + Len(t)) :
                (d \o t)[i] = IF i <= Len(d) THEN d[i] ELSE t[i - Len(d)]
      BY ConcatProperties
    <2> QED BY <2>1, <1>1
  <1>4. PICK r \in Seq(Rows) :
          /\ r = RowsOf(d)
          /\ Len(r) = Len(d)
          /\ \A i \in 1..Len(d) : r[i] = d[i].row
    BY RowsOfShape
  <1>5. PICK q \in Seq(Rows) :
          /\ q = RowsOf(e)
          /\ Len(q) = Len(e)
          /\ \A i \in 1..Len(e) : q[i] = e[i].row
    BY RowsOfShape
  <1>6. /\ r \o rows \in Seq(Rows)
        /\ Len(r \o rows) = Len(d) + Len(rows)
        /\ \A i \in 1..(Len(d) + Len(rows)) :
              (r \o rows)[i] = IF i <= Len(d) THEN r[i] ELSE rows[i - Len(d)]
    <2>1. /\ r \o rows \in Seq(Rows)
          /\ Len(r \o rows) = Len(r) + Len(rows)
          /\ \A i \in 1..(Len(r) + Len(rows)) :
                (r \o rows)[i] = IF i <= Len(r) THEN r[i] ELSE rows[i - Len(r)]
      BY ConcatProperties
    <2> QED BY <2>1, <1>4
  <1>7. ASSUME NEW i \in 1..(Len(d) + Len(rows))
        PROVE  q[i] = (r \o rows)[i]
    <2>1. CASE i <= Len(d)
      <3>1. i \in 1..Len(d)
        BY <2>1, <1>2
      <3> QED BY <3>1, <1>2, <1>3, <1>4, <1>5, <1>6
    <2>2. CASE i > Len(d)
      <3>1. i - Len(d) \in 1..Len(rows) /\ ~(i <= Len(d))
        BY <2>2, <1>2
      <3>2. q[i] = t[i - Len(d)].row
        BY <3>1, <1>3, <1>5
      <3> QED BY <3>1, <3>2, <1>1, <1>6
    <2>3. i <= Len(d) \/ i > Len(d)
      BY <1>2
    <2> QED BY <2>1, <2>2, <2>3
  <1>8. q = r \o rows
    BY <1>3, <1>5, <1>6, <1>7, SeqEqual
  <1> QED BY <1>1, <1>3, <1>4, <1>5, <1>8
-----------------------------------------------------------------------------
\* The outcome of Settle and Exit on what is settled and what is accepted.
LEMMA TypedHistory ==
    ASSUME TypeOK
    PROVE  /\ done \in Seq(Outcome)
           /\ RowsOf(done) = [i \in DOMAIN done |-> done[i].row]
           /\ RowsOf(done) \in Seq(Rows)
           /\ batch \o chan \in Seq(Rows)
PROOF
  <1>1. done \in Seq(Outcome) /\ batch \in Seq(Rows) /\ chan \in Seq(Rows)
    BY DEF TypeOK, Outcome
  <1> QED BY <1>1, RowsOfShape, ConcatProperties DEF RowsOf

LEMMA InsertSettles ==
    ASSUME IInv, NEW fate \in Trail!Fates, done' = done \o Settled(batch, fate)
    PROVE  /\ done' \in Seq(Outcome)
           /\ RowsOf(done') = RowsOf(done) \o batch
PROOF
  <1>1. done \in Seq(Outcome) /\ batch \in Seq(Rows)
    BY TypedHistory DEF IInv, TypeOK
  <1> QED BY <1>1, RowsOfSettled

LEMMA ExitSettles ==
    ASSUME IInv, NEW fate \in Trail!Fates, done' = done \o Settled(batch \o chan, fate)
    PROVE  /\ done' \in Seq(Outcome)
           /\ RowsOf(done') = (RowsOf(done) \o batch) \o chan
PROOF
  <1>1. /\ done \in Seq(Outcome) /\ RowsOf(done) \in Seq(Rows)
        /\ batch \in Seq(Rows) /\ chan \in Seq(Rows) /\ batch \o chan \in Seq(Rows)
    BY TypedHistory DEF IInv, TypeOK
  <1>2. /\ done' \in Seq(Outcome)
        /\ RowsOf(done') = RowsOf(done) \o (batch \o chan)
    BY <1>1, RowsOfSettled
  <1>3. \A x, y, z \in Seq(Rows) : (x \o y) \o z = x \o (y \o z)
    BY ConcatAssociative
  <1> QED BY <1>1, <1>2, <1>3, Zenon
-----------------------------------------------------------------------------
LEMMA InitInv == Init => IInv
PROOF
  <1> SUFFICES ASSUME Init PROVE IInv
    OBVIOUS
  <1>1. TypeOK
    BY AuditWriterAssumption DEF Init, TypeOK
  <1>2. BatchInHand /\ AcceptedOnce
    BY DEF Init, BatchInHand, AcceptedOnce
  <1>3. NothingSlipsAway
    <2>1. [i \in DOMAIN <<>> |-> <<>>[i].row] = <<>>
      OBVIOUS
    <2> QED BY <2>1 DEF Init, NothingSlipsAway
  <1> QED BY <1>1, <1>2, <1>3 DEF IInv

\* Types and the batch, whatever the step.
LEMMA TypeStep == IInv /\ [Next]_vars => TypeOK' /\ BatchInHand'
PROOF
  <1> SUFFICES ASSUME IInv, [Next]_vars PROVE TypeOK' /\ BatchInHand'
    OBVIOUS
  <1> USE AuditWriterAssumption
  <1>0. TypeOK /\ BatchInHand
    BY DEF IInv
  <1>1. ASSUME NEW row \in Rows, try_send(row) PROVE TypeOK' /\ BatchInHand'
    <2>1. CASE chan' = Append(chan, row) /\ Len(chan) < Capacity /\ accepted' = Append(accepted, row) /\ UNCHANGED refused
      BY <1>0, <1>1, <2>1 DEF try_send, TypeOK, BatchInHand
    <2>2. CASE refused' = refused \cup {row} /\ UNCHANGED <<chan, accepted>>
      BY <1>0, <1>1, <2>2 DEF try_send, TypeOK, BatchInHand
    <2> QED BY <1>1, <2>1, <2>2 DEF try_send
  <1>2. CASE Connect
    BY <1>0, <1>2 DEF Connect, TypeOK, BatchInHand
  <1>3. CASE RecvFirst \/ RecvMore
    <2>1. chan # <<>> /\ batch' = Append(batch, Head(chan)) /\ chan' = Tail(chan)
      BY <1>3 DEF RecvFirst, RecvMore, Receive
    <2>2. /\ batch \in Seq(Rows) /\ chan \in Seq(Rows)
          /\ Head(chan) \in Rows /\ chan' \in Seq(Rows) /\ Len(chan') = Len(chan) - 1
      BY <1>0, <2>1, HeadTailProperties DEF TypeOK
    <2>3. batch' \in Seq(Rows) /\ Len(batch') = Len(batch) + 1 /\ batch' # <<>>
      BY <2>1, <2>2
    <2>4. Len(batch) < BatchSize
      <3>1. CASE RecvFirst
        BY <1>0, <3>1 DEF RecvFirst, BatchInHand
      <3> QED BY <1>3, <3>1 DEF RecvMore
    <2>5. writer' = "coalescing" /\ UNCHANGED <<open, entities, accepted, refused, done>>
      BY <1>3 DEF RecvFirst, RecvMore, Receive
    <2>6. Len(chan) \in Nat /\ Len(batch) \in Nat /\ Len(chan) <= Capacity
      BY <1>0 DEF TypeOK
    <2> QED BY <1>0, <2>2, <2>3, <2>4, <2>5, <2>6 DEF TypeOK, BatchInHand
  <1>4. CASE EndBatch
    BY <1>0, <1>4 DEF EndBatch, TypeOK, BatchInHand
  <1>5. ASSUME NEW fate \in {"stored", "rejected", "unreachable"}, insert_batch(fate)
        PROVE  TypeOK' /\ BatchInHand'
    <2>1. done' \in Seq(Outcome)
      <3>1. fate \in Trail!Fates
        BY DEF Trail!Fates
      <3> QED BY <1>5, <3>1, InsertSettles DEF insert_batch
    <2>2. /\ batch' = <<>> /\ writer' = "receiving"
          /\ UNCHANGED <<chan, open, entities, accepted, refused>>
      BY <1>5 DEF insert_batch
    <2> QED BY <1>0, <2>1, <2>2 DEF TypeOK, BatchInHand, Outcome
  <1>6. CASE Stop
    BY <1>0, <1>6 DEF Stop, TypeOK, BatchInHand
  <1>7. CASE CloseChannel
    BY <1>0, <1>7 DEF CloseChannel, TypeOK, BatchInHand
  <1>8. CASE Exit
    <2>1. done' \in Seq(Outcome)
      <3>1. "exited" \in Trail!Fates
        BY DEF Trail!Fates
      <3> QED BY <1>8, <3>1, ExitSettles DEF Exit
    <2>2. /\ batch' = <<>> /\ chan' = <<>> /\ writer' = "exited" /\ open' = FALSE
          /\ UNCHANGED <<entities, accepted, refused>>
      BY <1>8 DEF Exit
    <2>3. BatchInHand'
      BY <2>2 DEF BatchInHand
    <2>4. chan' \in Seq(Rows) /\ batch' \in Seq(Rows) /\ Len(chan') = 0 /\ Len(batch') = 0
      BY <2>2
    <2>5. done' \in Seq([row : Rows, fate : Trail!Fates])
      BY <2>1, Zenon DEF Outcome
    <2>6. writer' \in {"connecting", "receiving", "coalescing", "inserting", "stopped", "exited"}
          /\ open' \in BOOLEAN
      BY <2>2
    <2> QED BY <1>0, <2>2, <2>3, <2>4, <2>5, <2>6 DEF TypeOK
  <1>9. ASSUME NEW e \in Entities, DeleteEntity(e) PROVE TypeOK' /\ BatchInHand'
    BY <1>0, <1>9 DEF DeleteEntity, TypeOK, BatchInHand
  <1>10. CASE UNCHANGED vars
    BY <1>0, <1>10 DEF vars, TypeOK, BatchInHand
  <1>11. (\E fate \in {"stored", "rejected", "unreachable"} : insert_batch(fate))
            => TypeOK' /\ BatchInHand'
    BY <1>5, Zenon
  <1>12. Next => TypeOK' /\ BatchInHand'
    BY <1>1, <1>2, <1>3, <1>4, <1>6, <1>7, <1>8, <1>9, <1>11, Zenon
    DEF Next, Write, Insert
  <1> QED BY <1>10, <1>12, Zenon

\* What is settled, batched and queued stays what was accepted.
LEMMA OrderStep == IInv /\ [Next]_vars => NothingSlipsAway'
PROOF
  <1> SUFFICES ASSUME IInv, [Next]_vars PROVE NothingSlipsAway'
    OBVIOUS
  <1> USE DEF NothingSlipsAway
  <1>0. /\ TypeOK /\ accepted = (RowsOf(done) \o batch) \o chan
        /\ RowsOf(done) \in Seq(Rows)
        /\ batch \in Seq(Rows) /\ chan \in Seq(Rows)
        /\ RowsOf(done) \o batch \in Seq(Rows)
    <2>1. RowsOf(done) \in Seq(Rows) /\ batch \in Seq(Rows) /\ chan \in Seq(Rows)
      BY TypedHistory DEF IInv, TypeOK
    <2> QED BY <2>1, ConcatProperties DEF IInv, RowsOf
  <1> DEFINE Kept == accepted' = (RowsOf(done') \o batch') \o chan'
  <1>a. SUFFICES Kept
    BY DEF RowsOf
  <1> HIDE DEF NothingSlipsAway
  <1>1. ASSUME NEW row \in Rows, try_send(row) PROVE Kept
    <2>1. CASE chan' = Append(chan, row) /\ accepted' = Append(accepted, row)
      <3>1. accepted' = (RowsOf(done) \o batch) \o chan'
        BY <1>0, <2>1, AppendToLast, Zenon
      <3> QED BY <1>1, <3>1 DEF try_send
    <2>2. CASE UNCHANGED <<chan, accepted>>
      BY <1>0, <1>1, <2>2 DEF try_send
    <2> QED BY <1>1, <2>1, <2>2 DEF try_send
  <1>2. CASE RecvFirst \/ RecvMore
    <2>1. /\ chan # <<>> /\ batch' = Append(batch, Head(chan)) /\ chan' = Tail(chan)
          /\ accepted' = accepted /\ done' = done
      BY <1>2 DEF RecvFirst, RecvMore, Receive
    <2>2. (RowsOf(done) \o batch) \o chan
             = (RowsOf(done) \o Append(batch, Head(chan))) \o Tail(chan)
      BY <1>0, <2>1, MoveHead
    <2>3. RowsOf(done') = RowsOf(done)
      BY <2>1, Zenon
    <2> QED BY <1>0, <2>1, <2>2, <2>3
  <1>3. ASSUME NEW fate \in {"stored", "rejected", "unreachable"}, insert_batch(fate)
        PROVE  Kept
    <2>1. fate \in Trail!Fates
      BY DEF Trail!Fates
    <2>2. RowsOf(done') = RowsOf(done) \o batch
      BY <1>3, <2>1, InsertSettles DEF insert_batch
    <2>3. (RowsOf(done) \o batch) \o <<>> = RowsOf(done) \o batch
      BY <1>0, ConcatEmptySeq
    <2>4. batch' = <<>> /\ chan' = chan /\ accepted' = accepted
      BY <1>3 DEF insert_batch
    <2> QED BY <1>0, <2>2, <2>3, <2>4, Zenon
  <1>4. CASE Exit
    <2>1. "exited" \in Trail!Fates
      BY DEF Trail!Fates
    <2>2. RowsOf(done') = accepted
      BY <1>0, <1>4, <2>1, ExitSettles DEF Exit
    <2>3. accepted \in Seq(Rows)
      BY <1>0 DEF TypeOK
    <2>4. (accepted \o <<>>) \o <<>> = accepted
      BY <2>3, ConcatEmptySeq
    <2>5. batch' = <<>> /\ chan' = <<>> /\ accepted' = accepted
      BY <1>4 DEF Exit
    <2> QED BY <2>2, <2>4, <2>5, Zenon
  <1>5. CASE Connect \/ EndBatch \/ Stop \/ CloseChannel \/ (\E e \in Entities : DeleteEntity(e))
             \/ UNCHANGED vars
    <2>1. UNCHANGED <<accepted, done, batch, chan>>
      BY <1>5 DEF Connect, EndBatch, Stop, CloseChannel, DeleteEntity, vars
    <2> QED BY <1>0, <2>1
  <1> HIDE DEF Kept
  <1> QED BY <1>1, <1>2, <1>3, <1>4, <1>5 DEF Next, Write, Insert

\* A row already accepted is not offered again.
LEMMA OnceStep == IInv /\ [Next]_vars => AcceptedOnce'
PROOF
  <1> SUFFICES ASSUME IInv, [Next]_vars PROVE AcceptedOnce'
    OBVIOUS
  <1>0. AcceptedOnce /\ accepted \in Seq(Rows)
    BY DEF IInv, TypeOK
  <1>1. ASSUME NEW row \in Rows, try_send(row), accepted' = Append(accepted, row)
        PROVE  AcceptedOnce'
    <2>1. \A i \in 1..Len(accepted) : accepted[i] # row
      BY <1>0, <1>1 DEF try_send, InSeq
    <2>2. /\ Len(accepted) \in Nat
          /\ DOMAIN accepted = 1..Len(accepted)
          /\ DOMAIN accepted' = 1..(Len(accepted) + 1)
          /\ \A i \in 1..(Len(accepted) + 1) :
                accepted'[i] = IF i <= Len(accepted) THEN accepted[i] ELSE row
      BY <1>0, <1>1
    <2> QED BY <1>0, <2>1, <2>2 DEF AcceptedOnce
  <1>2. CASE UNCHANGED accepted
    BY <1>0, <1>2 DEF AcceptedOnce
  <1> QED BY <1>1, <1>2 DEF Next, Write, Insert, try_send, Connect, RecvFirst, RecvMore,
          Receive, EndBatch, insert_batch, Stop, CloseChannel, Exit, DeleteEntity, vars

LEMMA StepInv == IInv /\ [Next]_vars => IInv'
PROOF BY TypeStep, OrderStep, OnceStep DEF IInv

\* The settled rows are the first of the accepted ones, the batch comes next.
LEMMA AcceptedParts ==
    ASSUME IInv
    PROVE  /\ Len(accepted) \in Nat /\ Len(done) \in Nat
           /\ Len(batch) \in Nat /\ Len(chan) \in Nat
           /\ Len(accepted) = Len(done) + Len(batch) + Len(chan)
           /\ \A i \in 1..Len(done) : accepted[i] = done[i].row
           /\ \A i \in 1..Len(batch \o chan) : accepted[Len(done) + i] = (batch \o chan)[i]
           /\ \A i \in 1..Len(batch) : accepted[Len(done) + i] = batch[i]
PROOF
  <1>1. PICK r \in Seq(Rows) :
          /\ r = RowsOf(done)
          /\ Len(r) = Len(done)
          /\ \A i \in 1..Len(done) : r[i] = done[i].row
    BY RowsOfShape, TypedHistory DEF IInv
  <1>2. batch \in Seq(Rows) /\ chan \in Seq(Rows)
    BY DEF IInv, TypeOK
  <1>3. PICK p \in Seq(Rows) :
          /\ p = batch \o chan
          /\ Len(p) = Len(batch) + Len(chan)
          /\ \A i \in 1..(Len(batch) + Len(chan)) :
                p[i] = IF i <= Len(batch) THEN batch[i] ELSE chan[i - Len(batch)]
    <2>1. /\ batch \o chan \in Seq(Rows)
          /\ Len(batch \o chan) = Len(batch) + Len(chan)
          /\ \A i \in 1..(Len(batch) + Len(chan)) :
                (batch \o chan)[i] = IF i <= Len(batch) THEN batch[i] ELSE chan[i - Len(batch)]
      BY <1>2, ConcatProperties, Zenon
    <2> QED BY <2>1
  <1>4. accepted = r \o p
    <2>1. \A x, y, z \in Seq(Rows) : (x \o y) \o z = x \o (y \o z)
      BY ConcatAssociative
    <2>2. accepted = (r \o batch) \o chan
      BY <1>1 DEF IInv, NothingSlipsAway, RowsOf
    <2> QED BY <1>2, <1>3, <2>1, <2>2, Zenon
  <1>5. /\ Len(r \o p) = Len(r) + Len(p)
        /\ \A i \in 1..(Len(r) + Len(p)) :
              (r \o p)[i] = IF i <= Len(r) THEN r[i] ELSE p[i - Len(r)]
    BY ConcatProperties
  <1>6. /\ Len(accepted) = Len(done) + Len(p)
        /\ \A i \in 1..(Len(done) + Len(p)) :
              accepted[i] = IF i <= Len(done) THEN r[i] ELSE p[i - Len(done)]
    BY <1>1, <1>4, <1>5
  <1>7. Len(done) \in Nat /\ Len(batch) \in Nat /\ Len(chan) \in Nat /\ Len(p) \in Nat
    BY <1>1, <1>2
  <1>8. \A i \in 1..Len(done) : accepted[i] = done[i].row
    BY <1>1, <1>6, <1>7
  <1>9. ASSUME NEW i \in 1..Len(p) PROVE accepted[Len(done) + i] = p[i]
    <2>1. /\ Len(done) + i \in 1..(Len(done) + Len(p))
          /\ ~(Len(done) + i <= Len(done))
          /\ (Len(done) + i) - Len(done) = i
      BY <1>7
    <2> QED BY <1>6, <2>1
  <1>10. ASSUME NEW i \in 1..Len(batch) PROVE accepted[Len(done) + i] = batch[i]
    <2>1. i \in 1..Len(p) /\ i \in 1..(Len(batch) + Len(chan)) /\ i <= Len(batch)
      BY <1>3, <1>7
    <2> QED BY <1>3, <1>9, <2>1
  <1> QED BY <1>3, <1>6, <1>7, <1>8, <1>9, <1>10

LEMMA InvImpliesOnce == IInv => AtMostOnce
PROOF
  <1> SUFFICES ASSUME IInv, NEW i \in DOMAIN done, NEW j \in DOMAIN done,
                      done[i].row = done[j].row
               PROVE  i = j
    BY DEF AtMostOnce
  <1>1. DOMAIN done = 1..Len(done) /\ DOMAIN accepted = 1..Len(accepted)
    BY DEF IInv, TypeOK
  <1>2. accepted[i] = accepted[j] /\ i \in DOMAIN accepted /\ j \in DOMAIN accepted
    BY <1>1, AcceptedParts
  <1> QED BY <1>2 DEF IInv, AcceptedOnce

\* The inductive invariant holds.
THEOREM IInvHolds == Spec => []IInv
PROOF
  <1>1. IInv /\ [Next]_vars => IInv'
    BY StepInv
  <1> QED BY <1>1, InitInv, PTL DEF Spec

\* Channel and batch keep to their capacities, and every field to its type, for
\* every channel capacity and batch size.
THEOREM TypeCorrect == Spec => []TypeOK
PROOF
  <1>1. IInv => TypeOK
    BY DEF IInv
  <1> QED BY <1>1, IInvHolds, PTL

\* What was accepted is what is settled, in the batch and in the channel, in
\* that order, whatever fails: no row is lost, doubled or overtaken on its way.
THEOREM RowsAreKept == Spec => []NothingSlipsAway
PROOF
  <1>1. IInv => NothingSlipsAway
    BY DEF IInv
  <1> QED BY <1>1, IInvHolds, PTL

\* No request gets a second audit row.
THEOREM RowsAreSettledOnce == Spec => []AtMostOnce
PROOF BY InvImpliesOnce, IInvHolds, PTL
-----------------------------------------------------------------------------
\* An insert settles the batch: the next Len(batch) accepted rows.
LEMMA InsertIsSettle ==
    ASSUME IInv, NEW fate \in {"stored", "rejected", "unreachable"}, insert_batch(fate)
    PROVE  Trail!Settle
PROOF
  <1> DEFINE n == Len(batch)
  <1>1. /\ fate \in Trail!Fates \ {"exited"}
        /\ batch \in Seq(Rows)
    BY DEF IInv, TypeOK, Trail!Fates
  <1>2. n \in 1..BatchSize
    <2>1. batch # <<>> /\ Len(batch) <= BatchSize
      BY DEF IInv, BatchInHand, TypeOK, insert_batch
    <2> QED BY <1>1, <2>1, EmptySeq, AuditWriterAssumption
  <1>3. n <= Trail!Unsettled
    BY AcceptedParts DEF Trail!Unsettled
  <1>4. Settled(batch, fate) = [i \in 1..n |-> [row |-> accepted[Len(done) + i], fate |-> fate]]
    <2>1. DOMAIN batch = 1..n
      BY <1>1
    <2> QED BY <2>1, AcceptedParts DEF Settled
  <1>5. Trail!SettleNext(n, fate)
    BY <1>4 DEF insert_batch, Trail!SettleNext
  <1> HIDE DEF n
  <1> QED BY <1>1, <1>2, <1>3, <1>5 DEF Trail!Settle

\* The exit settles all that is left.
LEMMA ExitIsExit ==
    ASSUME IInv, Exit
    PROVE  Trail!Exit
PROOF
  <1> DEFINE p == batch \o chan
  <1>1. p \in Seq(Rows) /\ batch \in Seq(Rows) /\ chan \in Seq(Rows)
    BY TypedHistory DEF IInv, TypeOK
  <1>2. DOMAIN p = 1..Len(p) /\ Len(p) = Len(batch) + Len(chan)
    BY <1>1, ConcatProperties
  <1>3. Trail!Unsettled = Len(p)
    BY <1>2, AcceptedParts DEF Trail!Unsettled
  <1>4. Settled(p, "exited")
          = [i \in 1..Len(p) |-> [row |-> accepted[Len(done) + i], fate |-> "exited"]]
    BY <1>2, AcceptedParts DEF Settled
  <1>5. done' = done \o Settled(p, "exited") /\ UNCHANGED <<accepted, refused>>
    BY DEF Exit
  <1> HIDE DEF p
  <1> QED BY <1>3, <1>4, <1>5 DEF Trail!Exit, Trail!SettleNext

\* Every step of the writer, the handlers and the failures is a step of the
\* audit trail or none.
LEMMA StepRefines == IInv /\ [Next]_vars => [Trail!Next]_(Trail!vars)
PROOF
  <1> SUFFICES ASSUME IInv, [Next]_vars PROVE Trail!Next \/ UNCHANGED Trail!vars
    OBVIOUS
  <1>1. ASSUME NEW row \in Rows, try_send(row) PROVE Trail!Next
    <2>1. Trail!Offer(row)
      BY <1>1 DEF try_send, Trail!Offer
    <2> QED BY <2>1 DEF Trail!Next
  <1>2. ASSUME NEW fate \in {"stored", "rejected", "unreachable"}, insert_batch(fate)
        PROVE  Trail!Next
    BY <1>2, InsertIsSettle DEF Trail!Next
  <1>3. CASE Exit
    BY <1>3, ExitIsExit DEF Trail!Next
  <1>4. CASE Connect \/ RecvFirst \/ RecvMore \/ EndBatch \/ Stop \/ CloseChannel
             \/ (\E e \in Entities : DeleteEntity(e)) \/ UNCHANGED vars
    BY <1>4 DEF Connect, RecvFirst, RecvMore, Receive, EndBatch, Stop, CloseChannel,
            DeleteEntity, vars, Trail!vars
  <1> QED BY <1>1, <1>2, <1>3, <1>4 DEF Next, Write, Insert

\* The writer with its channel, its batches and its failures implements the
\* abstract audit trail, for every capacity and batch size.
THEOREM WriterIsTrail == Spec => TrailSpec
PROOF
  <1>1. Init => Trail!Init
    BY DEF Init, Trail!Init
  <1> QED BY <1>1, IInvHolds, StepRefines, PTL DEF Spec, TrailSpec, Trail!Spec
=============================================================================
