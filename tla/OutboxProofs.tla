----------------------------- MODULE OutboxProofs -----------------------------
(***************************************************************************)
(* Proofs about Outbox for every set of events, batches and instances and  *)
(* every value of BatchSize, MaxAttempts and the bounds.                   *)
(***************************************************************************)
EXTENDS Outbox, TLAPS

(***************************************************************************)
(* The inductive invariant.  A stale copy is harmless because what it      *)
(* claims was true when it was taken and cannot become false: failures and *)
(* received only grow and a recorded event stays recorded.                 *)
(***************************************************************************)

\* Whatever a copy of an entry says about event e is backed by the history.
Backed(entry, e) ==
  /\ entry.status # "absent" => phase[e] = "recorded"
  /\ entry.status = "processed" => e \in received
  /\ entry.status = "failed" => failures[e] >= MaxAttempts
  /\ entry.attempts <= failures[e]

RowsBacked ==
  \A e \in Events : /\ Backed(rows[e], e)
                    /\ phase[e] = "recorded" => rows[e].status # "absent"

Working == {"ingest", "save", "update"}

BatchBacked(b) ==
  /\ \A e \in Events : Backed(batch[b].fetched[e], e)
  /\ batch[b].pc \in Working =>
       /\ batch[b].event \in Events
       /\ batch[b].entry.status # "absent"
       /\ Backed(batch[b].entry, batch[b].event)

IInv ==
  /\ TypeOK
  /\ RowsBacked
  /\ \A b \in Batches : BatchBacked(b)
  /\ ForwardedWasAccepted

(***************************************************************************)
(* Facts about the entity and repository operators.                        *)
(***************************************************************************)

\* NewEntry, MarkProcessed, RecordAttemptFailure and Persisted build rows
\* from rows, and NoRow is one.
LEMMA RowTypes ==
  /\ NoRow \in Row
  /\ \A t \in Nat : NewEntry(t) \in Row
  /\ \A r \in Row : MarkProcessed(r) \in Row /\ RecordAttemptFailure(r) \in Row
  /\ \A r, l, x \in Row : Persisted(r, l, x) \in Row
BY OutboxAssumption DEF NoRow, Row, Status, NewEntry, MarkProcessed,
                        RecordAttemptFailure, Persisted

\* IdleBatch and LoopBatch build batch states.
LEMMA BatchTypes ==
  /\ IdleBatch \in BatchState
  /\ \A f \in [Events -> Row] : LoopBatch(f) \in BatchState
BY RowTypes DEF IdleBatch, LoopBatch, BatchState

\* save() leaves every column either as the table has it or as the entity
\* has it, never a third value.
LEMMA PersistedColumns ==
  ASSUME NEW r \in Row, NEW l \in Row, NEW x \in Row
  PROVE  /\ Persisted(r, l, x).status \in {r.status, x.status}
         /\ Persisted(r, l, x).attempts \in {r.attempts, x.attempts}
BY DEF Persisted, Row

(***************************************************************************)
(* The histories only grow.                                                *)
(***************************************************************************)
Grows ==
  /\ \A e \in Events : phase[e] = "recorded" => phase'[e] = "recorded"
  /\ received \subseteq received'
  /\ \A e \in Events : failures[e] <= failures'[e]

\* No action takes back a recorded event, a received event or a failure.
LEMMA NextGrows == IInv /\ [Next]_vars => Grows
<1> SUFFICES ASSUME IInv, [Next]_vars PROVE Grows
  OBVIOUS
<1> USE DEF IInv, TypeOK, Grows
<1>1. CASE UNCHANGED vars
  BY <1>1 DEF vars
<1>2. ASSUME NEW e \in Events, Bus(e) \/ LateArrival(e) PROVE Grows
  BY <1>2 DEF Bus, Publish, PublishRejected, WriteToOutbox, WriteToOutboxFails,
              LateArrival
<1>3. ASSUME NEW b \in Batches, IngestFails(b) PROVE Grows
  <2>1. batch[b].event \in Events
    BY <1>3 DEF IngestFails, BatchBacked, Working
  <2>2. QED
    BY <1>3, <2>1 DEF IngestFails
<1>4. ASSUME NEW b \in Batches, Processor(b), ~IngestFails(b) PROVE Grows
  BY <1>4 DEF Processor, FindPending, Ingest, IngestSucceeds, SaveLoads,
              SaveUpdates, SaveFails, BatchDone
<1>5. ASSUME NEW i \in Instances, Lifecycle(i) PROVE Grows
  BY <1>5 DEF Lifecycle, OnModuleDestroy, Exit, Crash, Down, OnModuleInit
<1>6. CASE ResetFailed
  BY <1>6 DEF ResetFailed
<1>7. QED
  BY <1>1, <1>2, <1>3, <1>4, <1>5, <1>6 DEF Next

\* A copy that was backed stays backed.
LEMMA BackedStays ==
  ASSUME TypeOK, TypeOK', Grows, NEW e \in Events, NEW x \in Row, Backed(x, e)
  PROVE  Backed(x, e)'
BY OutboxAssumption DEF Backed, Grows, TypeOK, Row

(***************************************************************************)
(* Every action preserves the types.                                       *)
(***************************************************************************)
LEMMA TypeStep == IInv /\ [Next]_vars => TypeOK'
<1> SUFFICES ASSUME IInv, [Next]_vars PROVE TypeOK'
  OBVIOUS
<1> USE OutboxAssumption, RowTypes, BatchTypes DEF IInv, TypeOK
<1>1. CASE UNCHANGED vars
  BY <1>1 DEF vars
<1>2. ASSUME NEW e \in Events, Bus(e) \/ LateArrival(e) PROVE TypeOK'
  BY <1>2 DEF Bus, Publish, PublishRejected, WriteToOutbox, WriteToOutboxFails,
              LateArrival, Phase
<1>3. ASSUME NEW b \in Batches, Processor(b) PROVE TypeOK'
  <2> USE DEF BatchState
  <2>0. batch[b].pc \in Working => batch[b].event \in Events
    BY DEF BatchBacked
  <2>1. CASE FindPending(b)
    <3>1. PICK S \in SUBSET Events :
            batch' = [batch EXCEPT ![b] =
              LoopBatch([e \in Events |-> IF e \in S THEN rows[e] ELSE NoRow])]
      BY <2>1 DEF FindPending
    <3>2. [e \in Events |-> IF e \in S THEN rows[e] ELSE NoRow] \in [Events -> Row]
      OBVIOUS
    <3>3. batch' \in [Batches -> BatchState]
      BY <3>1, <3>2
    <3>4. QED
      BY <2>1, <3>3 DEF FindPending
  <2>2. CASE Ingest(b)
    BY <2>2 DEF Ingest, Remaining
  <2>3. CASE IngestSucceeds(b)
    BY <2>0, <2>3 DEF IngestSucceeds, Working
  <2>4. CASE IngestFails(b)
    <3>1. failures' \in [Events -> Nat]
      BY <2>0, <2>4 DEF IngestFails, Working
    <3>2. batch' \in [Batches -> BatchState]
      BY <2>4 DEF IngestFails
    <3>3. QED
      BY <2>0, <2>4, <3>1, <3>2 DEF IngestFails, Working
  <2>5. CASE SaveLoads(b)
    BY <2>0, <2>5 DEF SaveLoads, Working
  <2>6. CASE SaveUpdates(b)
    BY <2>0, <2>6 DEF SaveUpdates, NextEntry, Working
  <2>7. CASE SaveFails(b)
    BY <2>7 DEF SaveFails, NextEntry
  <2>8. CASE BatchDone(b)
    BY <2>8 DEF BatchDone
  <2>9. QED
    BY <1>3, <2>1, <2>2, <2>3, <2>4, <2>5, <2>6, <2>7, <2>8 DEF Processor
<1>4. ASSUME NEW i \in Instances, Lifecycle(i) PROVE TypeOK'
  BY <1>4 DEF Lifecycle, OnModuleDestroy, Exit, Crash, Down, OnModuleInit, Phase
<1>5. CASE ResetFailed
  BY <1>5 DEF ResetFailed, Row
<1>6. QED
  BY <1>1, <1>2, <1>3, <1>4, <1>5 DEF Next

(***************************************************************************)
(* Every action preserves the rest of the invariant.                       *)
(***************************************************************************)

\* The rows stay backed: an insert and the reset write a fresh entry, and an
\* update mixes columns of a backed row and a backed entity.
LEMMA RowsStep == IInv /\ [Next]_vars => RowsBacked'
<1> SUFFICES ASSUME IInv, [Next]_vars PROVE RowsBacked'
  OBVIOUS
<1>1. TypeOK /\ TypeOK' /\ Grows
  BY TypeStep, NextGrows DEF IInv
<1>2. ASSUME rows' = rows,
             \A e \in Events : phase'[e] = "recorded" => phase[e] = "recorded"
      PROVE  RowsBacked'
  BY <1>1, <1>2, BackedStays DEF RowsBacked, IInv, TypeOK
<1>3. ASSUME NEW e \in Events, WriteToOutbox(e) PROVE RowsBacked'
  <2>1. PICK t \in Stamps : rows' = [rows EXCEPT ![e] = NewEntry(t)]
    BY <1>3 DEF WriteToOutbox
  <2>2. phase' = [phase EXCEPT ![e] = "recorded"]
    BY <1>3 DEF WriteToOutbox
  <2>3. Backed(rows[e], e)' /\ rows'[e].status # "absent"
    BY <1>1, <2>1, <2>2, OutboxAssumption DEF Backed, NewEntry, TypeOK
  <2>4. ASSUME NEW f \in Events, f # e
        PROVE  Backed(rows[f], f)' /\ (phase'[f] = "recorded" => rows'[f].status # "absent")
    <3>1. rows'[f] = rows[f] /\ phase'[f] = phase[f]
      BY <1>1, <2>1, <2>2, <2>4 DEF TypeOK
    <3>2. QED
      BY <1>1, <3>1, BackedStays DEF RowsBacked, IInv, TypeOK
  <2>5. QED
    BY <2>3, <2>4 DEF RowsBacked
<1>4. ASSUME NEW b \in Batches, SaveUpdates(b) PROVE RowsBacked'
  <2>1. PICK ev \in Events, x \in Row, l \in Row :
          /\ ev = batch[b].event /\ x = batch[b].entry /\ l = batch[b].loaded
          /\ Backed(x, ev) /\ x.status # "absent"
    BY <1>4, <1>1 DEF SaveUpdates, IInv, BatchBacked, Working, TypeOK, BatchState
  <2>2. rows' = [rows EXCEPT ![ev] = Persisted(rows[ev], l, x)]
        /\ UNCHANGED <<phase, received, failures>>
    BY <1>4, <2>1 DEF SaveUpdates
  <2>3. rows[ev] \in Row /\ Backed(rows[ev], ev) /\ rows[ev].status # "absent"
    BY <2>1, <1>1 DEF IInv, RowsBacked, Backed, TypeOK
  <2>4. rows'[ev] = Persisted(rows[ev], l, x)
    BY <1>1, <2>1, <2>2 DEF TypeOK
  <2>5. rows'[ev].status \in {rows[ev].status, x.status}
        /\ rows'[ev].attempts \in {rows[ev].attempts, x.attempts}
    BY <2>1, <2>3, <2>4, PersistedColumns
  <2>6. Backed(rows[ev], ev)' /\ rows'[ev].status # "absent"
    BY <2>1, <2>2, <2>3, <2>5 DEF Backed
  <2>7. ASSUME NEW f \in Events, f # ev
        PROVE  Backed(rows[f], f)' /\ rows'[f] = rows[f] /\ phase'[f] = phase[f]
    <3>1. rows'[f] = rows[f] /\ phase'[f] = phase[f]
      BY <1>1, <2>2, <2>7 DEF TypeOK
    <3>2. QED
      BY <1>1, <3>1, BackedStays DEF RowsBacked, IInv, TypeOK
  <2>8. QED
    BY <2>6, <2>7 DEF RowsBacked, IInv
<1>5. CASE ResetFailed
  <2>1. ASSUME NEW e \in Events
        PROVE  Backed(rows[e], e)' /\ (phase'[e] = "recorded" => rows'[e].status # "absent")
    <3>1. UNCHANGED <<phase, received, failures>>
      BY <1>5 DEF ResetFailed
    <3>2. Backed(rows[e], e) /\ (phase[e] = "recorded" => rows[e].status # "absent")
      BY DEF IInv, RowsBacked
    <3>3. CASE rows[e].status = "failed"
      <4>1. rows'[e] = NewEntry(rows[e].createdAt)
        BY <1>5, <3>3 DEF ResetFailed
      <4>2. rows'[e].status = "pending" /\ rows'[e].attempts = 0
        BY <4>1 DEF NewEntry
      <4>3. QED
        BY <1>1, <3>1, <3>2, <3>3, <4>2 DEF Backed, TypeOK
    <3>4. CASE rows[e].status # "failed"
      <4>1. rows'[e] = rows[e]
        BY <1>5, <3>4 DEF ResetFailed
      <4>2. QED
        BY <3>1, <3>2, <4>1 DEF Backed
    <3>5. QED
      BY <3>3, <3>4
  <2>2. QED
    BY <2>1 DEF RowsBacked
<1>6. ASSUME NEW e \in Events, Bus(e) \/ LateArrival(e), ~WriteToOutbox(e)
      PROVE  RowsBacked'
  BY <1>1, <1>2, <1>6 DEF Bus, Publish, PublishRejected, WriteToOutboxFails,
                          LateArrival, TypeOK
<1>7. ASSUME NEW b \in Batches, Processor(b), ~SaveUpdates(b) PROVE RowsBacked'
  BY <1>2, <1>7 DEF Processor, FindPending, Ingest, IngestSucceeds, IngestFails,
                    SaveLoads, SaveFails, BatchDone
<1>8. ASSUME NEW i \in Instances, Lifecycle(i) PROVE RowsBacked'
  BY <1>1, <1>2, <1>8 DEF Lifecycle, OnModuleDestroy, Exit, Crash, Down, OnModuleInit
<1>9. CASE UNCHANGED vars
  BY <1>2, <1>9 DEF vars
<1>10. QED
  BY <1>3, <1>4, <1>5, <1>6, <1>7, <1>8, <1>9 DEF Next

\* The copies a batch holds stay backed: findPending copies backed rows, and
\* the entity methods record exactly what ingest reported.
LEMMA BatchStep == IInv /\ [Next]_vars => \A b \in Batches : BatchBacked(b)'
<1> SUFFICES ASSUME IInv, [Next]_vars, NEW c \in Batches PROVE BatchBacked(c)'
  OBVIOUS
<1>1. TypeOK /\ TypeOK' /\ Grows /\ BatchBacked(c) /\ RowsBacked
  BY TypeStep, NextGrows DEF IInv
<1>2. ASSUME batch'[c] = batch[c] PROVE BatchBacked(c)'
  <2>1. batch[c] \in BatchState
    BY <1>1 DEF TypeOK
  <2>2. \A e \in Events : Backed(batch[c].fetched[e], e)'
    BY <1>1, <1>2, <2>1, BackedStays DEF BatchBacked, BatchState
  <2>3. ASSUME batch[c].pc \in Working
        PROVE  /\ batch[c].event \in Events /\ batch[c].entry.status # "absent"
               /\ Backed(batch[c].entry, batch[c].event)'
    <3>1. PICK ev \in Events, x \in Row :
            ev = batch[c].event /\ x = batch[c].entry /\ x.status # "absent" /\ Backed(x, ev)
      BY <1>1, <2>1, <2>3 DEF BatchBacked, BatchState
    <3>2. Backed(x, ev)'
      BY <1>1, <3>1, BackedStays
    <3>3. QED
      BY <1>2, <3>1, <3>2
  <2>4. QED
    BY <1>2, <2>2, <2>3 DEF BatchBacked
<1>3. ASSUME NEW f \in [Events -> Row], \A e \in Events : Backed(f[e], e)',
             batch'[c] = LoopBatch(f) \/ batch'[c] = IdleBatch
      PROVE  BatchBacked(c)'
  <2>1. CASE batch'[c] = LoopBatch(f)
    BY <1>3, <2>1 DEF BatchBacked, LoopBatch, Working
  <2>2. CASE batch'[c] = IdleBatch
    <3>1. \A e \in Events : Backed(NoRow, e)'
      BY <1>1 DEF Backed, NoRow, TypeOK
    <3>2. \A e \in Events : batch'[c].fetched[e] = NoRow
      BY <2>2 DEF IdleBatch
    <3>3. QED
      BY <2>2, <3>1, <3>2 DEF BatchBacked, IdleBatch, Working
  <2>3. QED
    BY <1>3, <2>1, <2>2
<1>4. PICK f \in [Events -> Row] :
        f = batch[c].fetched /\ \A e \in Events : Backed(f[e], e)'
  <2>1. PICK f \in [Events -> Row] :
          f = batch[c].fetched /\ \A e \in Events : Backed(f[e], e)
    BY <1>1 DEF BatchBacked, BatchState, TypeOK
  <2>2. QED
    BY <1>1, <2>1, BackedStays
<1>5. \A e \in Events : Backed(NoRow, e)'
  BY <1>1 DEF Backed, NoRow, TypeOK
<1>6. ASSUME batch[c].pc \in Working
      PROVE  \E ev \in Events, x \in Row :
               /\ ev = batch[c].event /\ x = batch[c].entry
               /\ x.status # "absent" /\ Backed(x, ev)
  BY <1>1, <1>6 DEF BatchBacked, BatchState, TypeOK
<1>7. ASSUME NEW ev \in Events, NEW x \in Row, x.status # "absent", Backed(x, ev)',
             batch'[c].fetched = f, batch'[c].event = ev, batch'[c].entry = x
      PROVE  BatchBacked(c)'
  BY <1>4, <1>7 DEF BatchBacked
<1>8. CASE FindPending(c)
  <2>1. PICK r \in [Events -> Row] : r = rows
    BY <1>1 DEF TypeOK
  <2>2. PICK S \in SUBSET Events :
          batch'[c] = LoopBatch([e \in Events |-> IF e \in S THEN r[e] ELSE NoRow])
    BY <1>1, <1>8, <2>1 DEF FindPending, TypeOK
  <2>3. \A e \in Events : Backed(r[e], e)'
    BY <1>1, <2>1, BackedStays DEF RowsBacked
  <2>4. [e \in Events |-> IF e \in S THEN r[e] ELSE NoRow] \in [Events -> Row]
    BY <2>1, RowTypes
  <2>5. \A e \in Events :
          Backed([d \in Events |-> IF d \in S THEN r[d] ELSE NoRow][e], e)'
    BY <1>5, <2>3
  <2>6. QED
    BY <1>3, <2>2, <2>4, <2>5
<1>9. CASE Ingest(c)
  <2>1. PICK ev \in Events :
          /\ f[ev].status # "absent"
          /\ batch'[c] = [pc      |-> "ingest",
                          fetched |-> [f EXCEPT ![ev] = NoRow],
                          event   |-> ev,
                          entry   |-> f[ev],
                          loaded  |-> NoRow]
    BY <1>1, <1>4, <1>9 DEF Ingest, Remaining, TypeOK
  <2>2. \A e \in Events : Backed([f EXCEPT ![ev] = NoRow][e], e)'
    BY <1>4, <1>5
  <2>3. Backed(f[ev], ev)'
    BY <1>4, <2>1
  <2>4. QED
    BY <2>1, <2>2, <2>3 DEF BatchBacked
<1>10. CASE IngestSucceeds(c)
  <2>1. PICK ev \in Events, x \in Row :
          ev = batch[c].event /\ x = batch[c].entry /\ x.status # "absent" /\ Backed(x, ev)
    BY <1>6, <1>10 DEF IngestSucceeds, Working
  <2>2. /\ batch'[c].fetched = f /\ batch'[c].event = ev
        /\ batch'[c].entry = MarkProcessed(x) /\ ev \in received'
    BY <1>1, <1>4, <1>10, <2>1 DEF IngestSucceeds, TypeOK, BatchState
  <2>3. Backed(x, ev)'
    BY <1>1, <2>1, BackedStays
  <2>4. Backed(MarkProcessed(x), ev)' /\ MarkProcessed(x).status # "absent"
    BY <2>1, <2>2, <2>3 DEF Backed, MarkProcessed, Row
  <2>5. QED
    BY <1>7, <2>1, <2>2, <2>4, RowTypes
<1>11. CASE IngestFails(c)
  <2>1. PICK ev \in Events, x \in Row :
          ev = batch[c].event /\ x = batch[c].entry /\ x.status # "absent" /\ Backed(x, ev)
    BY <1>6, <1>11 DEF IngestFails, Working
  <2>2. /\ batch'[c].fetched = f /\ batch'[c].event = ev
        /\ batch'[c].entry = RecordAttemptFailure(x)
    BY <1>1, <1>4, <1>11, <2>1 DEF IngestFails, TypeOK, BatchState
  <2>3. /\ failures[ev] \in Nat /\ failures'[ev] = failures[ev] + 1
        /\ UNCHANGED <<phase, received>>
    BY <1>1, <1>11, <2>1 DEF IngestFails, TypeOK
  <2>4. /\ Backed(RecordAttemptFailure(x), ev)'
        /\ RecordAttemptFailure(x).status # "absent"
    BY <2>1, <2>3, OutboxAssumption DEF Backed, RecordAttemptFailure, Row
  <2>5. QED
    BY <1>7, <2>1, <2>2, <2>4, RowTypes
<1>12. CASE SaveLoads(c)
  <2>1. PICK ev \in Events, x \in Row :
          ev = batch[c].event /\ x = batch[c].entry /\ x.status # "absent" /\ Backed(x, ev)
    BY <1>6, <1>12 DEF SaveLoads, Working
  <2>2. /\ batch'[c].fetched = f /\ batch'[c].event = ev /\ batch'[c].entry = x
    BY <1>1, <1>4, <1>12, <2>1 DEF SaveLoads, TypeOK, BatchState
  <2>3. QED
    BY <1>1, <1>7, <2>1, <2>2, BackedStays
<1>13. CASE SaveUpdates(c) \/ SaveFails(c) \/ BatchDone(c)
  <2>1. batch'[c] = LoopBatch(f) \/ batch'[c] = IdleBatch
    BY <1>1, <1>4, <1>13 DEF SaveUpdates, SaveFails, BatchDone, NextEntry, TypeOK
  <2>2. QED
    BY <1>3, <1>4, <2>1
<1>14. ASSUME NEW b \in Batches, Processor(b) PROVE BatchBacked(c)'
  <2>1. CASE b = c
    BY <1>8, <1>9, <1>10, <1>11, <1>12, <1>13, <1>14, <2>1 DEF Processor
  <2>2. CASE b # c
    <3>1. batch'[c] = batch[c]
      BY <1>1, <1>14, <2>2 DEF Processor, FindPending, Ingest, IngestSucceeds,
           IngestFails, SaveLoads, SaveUpdates, SaveFails, BatchDone, NextEntry, TypeOK
    <3>2. QED
      BY <1>2, <3>1
  <2>3. QED
    BY <2>1, <2>2
<1>15. ASSUME NEW i \in Instances, Lifecycle(i) PROVE BatchBacked(c)'
  <2>1. batch'[c] = batch[c] \/ batch'[c] = IdleBatch
    BY <1>15 DEF Lifecycle, OnModuleDestroy, Exit, Crash, Down, OnModuleInit
  <2>2. QED
    BY <1>2, <1>3, <1>4, <2>1
<1>16. ASSUME NEW e \in Events, Bus(e) \/ LateArrival(e) PROVE BatchBacked(c)'
  BY <1>2, <1>16 DEF Bus, Publish, PublishRejected, WriteToOutbox,
                     WriteToOutboxFails, LateArrival
<1>17. CASE ResetFailed \/ UNCHANGED vars
  BY <1>2, <1>17 DEF ResetFailed, vars
<1>18. QED
  BY <1>14, <1>15, <1>16, <1>17 DEF Next

\* Only recorded events reach the backbone: a batch ingests what it fetched.
LEMMA ForwardedStep == IInv /\ [Next]_vars => ForwardedWasAccepted'
<1> SUFFICES ASSUME IInv, [Next]_vars PROVE ForwardedWasAccepted'
  OBVIOUS
<1>1. TypeOK /\ TypeOK' /\ Grows /\ ForwardedWasAccepted
  BY TypeStep, NextGrows DEF IInv
<1>2. ASSUME \A e \in (received' \cup late') \ (received \cup late) :
               phase[e] = "recorded"
      PROVE  ForwardedWasAccepted'
  BY <1>1, <1>2 DEF ForwardedWasAccepted, Grows, TypeOK
<1>3. ASSUME NEW b \in Batches, batch[b].pc = "ingest"
      PROVE  phase[batch[b].event] = "recorded"
  BY <1>3 DEF IInv, BatchBacked, Backed, Working
<1>4. ASSUME NEW e \in Events, Bus(e) \/ LateArrival(e) PROVE ForwardedWasAccepted'
  BY <1>2, <1>4 DEF Bus, Publish, PublishRejected, WriteToOutbox,
                    WriteToOutboxFails, LateArrival
<1>5. ASSUME NEW b \in Batches, Processor(b) PROVE ForwardedWasAccepted'
  BY <1>2, <1>3, <1>5 DEF Processor, FindPending, Ingest, IngestSucceeds,
       IngestFails, SaveLoads, SaveUpdates, SaveFails, BatchDone
<1>6. ASSUME NEW i \in Instances, Lifecycle(i) PROVE ForwardedWasAccepted'
  BY <1>2, <1>3, <1>6 DEF Lifecycle, OnModuleDestroy, Exit, Crash, Down, OnModuleInit
<1>7. CASE ResetFailed \/ UNCHANGED vars
  BY <1>2, <1>7 DEF ResetFailed, vars
<1>8. QED
  BY <1>4, <1>5, <1>6, <1>7 DEF Next

(***************************************************************************)
(* The theorems.                                                           *)
(***************************************************************************)

\* Before any event is published nothing is claimed.
LEMMA InitIInv == Init => IInv
<1> SUFFICES ASSUME Init PROVE IInv
  OBVIOUS
<1>1. TypeOK
  BY RowTypes, BatchTypes DEF Init, TypeOK, Phase
<1>2. RowsBacked
  BY DEF Init, RowsBacked, Backed, NoRow
<1>3. ASSUME NEW b \in Batches PROVE BatchBacked(b)
  BY DEF Init, BatchBacked, Backed, IdleBatch, NoRow, Working
<1>4. ForwardedWasAccepted
  BY DEF Init, ForwardedWasAccepted
<1>5. QED
  BY <1>1, <1>2, <1>3, <1>4 DEF IInv

\* The inductive invariant holds in every reachable state.
THEOREM Invariance == Spec => []IInv
<1>1. Init => IInv
  BY InitIInv
<1>2. IInv /\ [Next]_vars => IInv'
  BY TypeStep, RowsStep, BatchStep, ForwardedStep DEF IInv
<1>3. QED
  BY <1>1, <1>2, PTL DEF Spec

\* Type correctness of the table, the batches and the histories.
THEOREM TypeCorrect == Spec => []TypeOK
<1>1. IInv => TypeOK
  BY DEF IInv
<1>2. QED
  BY <1>1, Invariance, PTL

\* A processed entry is an event the backbone holds, for any number of
\* overlapping batches and instances.
THEOREM ProcessedSafe == Spec => []ProcessedWasReceived
<1>1. IInv => ProcessedWasReceived
  BY DEF IInv, RowsBacked, Backed, ProcessedWasReceived
<1>2. QED
  BY <1>1, Invariance, PTL

\* No entry is given up before MAX_ATTEMPTS failed ingest calls.
THEOREM GivenUpSafe == Spec => []GivenUpAfterMaxAttempts
<1>1. IInv => GivenUpAfterMaxAttempts
  BY DEF IInv, RowsBacked, Backed, GivenUpAfterMaxAttempts
<1>2. QED
  BY <1>1, Invariance, PTL

\* Nothing reaches the backbone that the inner bus did not accept.
THEOREM ForwardedSafe == Spec => []ForwardedWasAccepted
<1>1. IInv => ForwardedWasAccepted
  BY DEF IInv
<1>2. QED
  BY <1>1, Invariance, PTL
===============================================================================
