------------------------ MODULE OutboxSequentialProofs ------------------------
(***************************************************************************)
(* With a single slot the outbox implements EventForwarder, for every set  *)
(* of events and every value of the other constants.                       *)
(***************************************************************************)
EXTENDS OutboxSequential, OutboxProofs

(***************************************************************************)
(* The strengthening of SnapshotIsCurrent: while a batch works on an entry *)
(* the row is still pending, and the entry is not among those to come.     *)
(***************************************************************************)
Current(b) ==
  /\ \A e \in Events : batch[b].fetched[e].status # "absent" =>
       /\ rows[e] = batch[b].fetched[e]
       /\ rows[e].status = "pending"
  /\ batch[b].pc \in Working =>
       /\ rows[batch[b].event].status = "pending"
       /\ batch[b].fetched[batch[b].event].status = "absent"
  /\ batch[b].pc = "ingest" => rows[batch[b].event] = batch[b].entry
  /\ batch[b].pc = "update" => rows[batch[b].event] = batch[b].loaded

\* Nothing is fetched before the first poll.
LEMMA InitCurrent == Init => \A b \in Batches : Current(b)
BY DEF Init, Current, IdleBatch, NoRow, Working

\* save() with an up-to-date loaded row stores the entity's status.
LEMMA PersistedFresh ==
  ASSUME NEW r \in Row, NEW x \in Row
  PROVE  Persisted(r, r, x).status = x.status
BY DEF Persisted, Row

\* The only batch keeps its snapshot current: rows of fetched entries are
\* pending, and neither an insert nor the reset touches a pending row.
LEMMA CurrentStep ==
  ASSUME NEW b, Batches = {b}, IInv, IInv', Current(b), [Next]_vars
  PROVE  Current(b)'
<1>1. /\ b \in Batches /\ TypeOK /\ TypeOK' /\ batch[b] \in BatchState
      /\ batch[b].fetched \in [Events -> Row]
      /\ batch[b].pc \in Working => batch[b].event \in Events
  BY DEF IInv, TypeOK, BatchState, BatchBacked
<1>2. ASSUME batch'[b] = batch[b],
             \A e \in Events : rows[e].status = "pending" => rows'[e] = rows[e]
      PROVE  Current(b)'
  BY <1>1, <1>2 DEF Current, Working
<1>3. ASSUME batch'[b] = IdleBatch PROVE Current(b)'
  BY <1>3 DEF Current, IdleBatch, NoRow, Working
<1>4. CASE FindPending(b)
  <2>1. PICK S \in SUBSET Events :
          /\ S \subseteq Pending
          /\ batch'[b] = LoopBatch([e \in Events |-> IF e \in S THEN rows[e] ELSE NoRow])
    BY <1>1, <1>4 DEF FindPending, OldestPending, TypeOK
  <2>2. rows' = rows
    BY <1>4 DEF FindPending
  <2>3. batch'[b].pc = "loop" /\ \A e \in Events :
          batch'[b].fetched[e] = IF e \in S THEN rows[e] ELSE NoRow
    BY <2>1 DEF LoopBatch
  <2>4. QED
    BY <2>1, <2>2, <2>3 DEF Current, Working, Pending, NoRow
<1>5. CASE Ingest(b)
  <2>1. PICK ev \in Events :
          /\ batch[b].fetched[ev].status # "absent"
          /\ batch'[b] = [pc      |-> "ingest",
                          fetched |-> [batch[b].fetched EXCEPT ![ev] = NoRow],
                          event   |-> ev,
                          entry   |-> batch[b].fetched[ev],
                          loaded  |-> NoRow]
    BY <1>1, <1>5 DEF Ingest, Remaining, TypeOK
  <2>2. rows' = rows
    BY <1>5 DEF Ingest
  <2>3. \A e \in Events : batch'[b].fetched[e] =
                            IF e = ev THEN NoRow ELSE batch[b].fetched[e]
    BY <1>1, <2>1
  <2>4. QED
    BY <2>1, <2>2, <2>3 DEF Current, NoRow
<1>6. CASE IngestSucceeds(b) \/ IngestFails(b) \/ SaveLoads(b)
  <2>1. /\ rows' = rows /\ batch[b].pc \in Working
        /\ batch'[b].fetched = batch[b].fetched /\ batch'[b].event = batch[b].event
        /\ \/ batch'[b].pc = "save"
           \/ batch'[b].pc = "update" /\ batch'[b].loaded = rows[batch[b].event]
    BY <1>1, <1>6 DEF IngestSucceeds, IngestFails, SaveLoads, Working, TypeOK, BatchState
  <2>2. QED
    BY <1>1, <2>1 DEF Current, Working
<1>7. CASE SaveUpdates(b)
  <2>1. PICK ev \in Events : ev = batch[b].event /\ batch[b].fetched[ev].status = "absent"
    BY <1>1, <1>7 DEF SaveUpdates, Working, Current
  <2>2. \A e \in Events : e # ev => rows'[e] = rows[e]
    BY <1>1, <1>7, <2>1 DEF SaveUpdates, TypeOK
  <2>3. batch'[b].pc = "loop" /\ batch'[b].fetched = batch[b].fetched
    BY <1>1, <1>7 DEF SaveUpdates, NextEntry, LoopBatch, TypeOK
  <2>4. QED
    BY <2>1, <2>2, <2>3 DEF Current, Working
<1>8. CASE SaveFails(b)
  <2>1. rows' = rows /\ batch'[b].pc = "loop" /\ batch'[b].fetched = batch[b].fetched
    BY <1>1, <1>8 DEF SaveFails, NextEntry, LoopBatch, TypeOK
  <2>2. QED
    BY <2>1 DEF Current, Working
<1>9. CASE BatchDone(b)
  BY <1>1, <1>3, <1>9 DEF BatchDone, TypeOK
<1>10. ASSUME NEW i \in Instances, Lifecycle(i) PROVE Current(b)'
  BY <1>1, <1>2, <1>3, <1>10 DEF Lifecycle, OnModuleDestroy, Exit, Crash, Down, OnModuleInit
<1>11. ASSUME NEW e \in Events, Bus(e) \/ LateArrival(e) PROVE Current(b)'
  <2>1. WriteToOutbox(e) => rows[e].status # "pending"
    BY DEF WriteToOutbox, IInv, RowsBacked, Backed
  <2>2. /\ batch'[b] = batch[b]
        /\ \A f \in Events : rows[f].status = "pending" => rows'[f] = rows[f]
    BY <1>1, <1>11, <2>1 DEF Bus, Publish, PublishRejected, WriteToOutbox,
         WriteToOutboxFails, LateArrival, TypeOK
  <2>3. QED
    BY <1>2, <2>2
<1>12. CASE ResetFailed \/ UNCHANGED vars
  BY <1>2, <1>12 DEF ResetFailed, vars
<1>13. QED
  BY <1>1, <1>4, <1>5, <1>6, <1>7, <1>8, <1>9, <1>10, <1>11, <1>12 DEF Next, Processor

\* With one slot a batch never writes from a stale row.
THEOREM SnapshotCurrent ==
  ASSUME NEW CONSTANT b, Batches = {b}
  PROVE  Spec => []SnapshotIsCurrent
<1>1. Init => Current(b)
  BY InitCurrent
<1>2. IInv /\ IInv' /\ Current(b) /\ [Next]_vars => Current(b)'
  BY CurrentStep
<1>3. Current(b) => SnapshotIsCurrent
  BY DEF Current, SnapshotIsCurrent, Remaining
<1>4. QED
  BY <1>1, <1>2, <1>3, Invariance, PTL DEF Spec

(***************************************************************************)
(* Refinement.                                                             *)
(***************************************************************************)
fvars == <<Stage, received, failures>>

\* The table before the first insert is the forwarder's initial state.
LEMMA InitRefines == Init => Forwarder!Init
BY DEF Init, Forwarder!Init, Stage, NoRow

\* A step that leaves the statuses alone leaves the stages alone.
LEMMA StageUnchanged ==
  ASSUME \A e \in Events : rows'[e].status = rows[e].status
  PROVE  Stage' = Stage
BY DEF Stage

\* A step that changes one status changes one stage.
LEMMA StageChanges ==
  ASSUME NEW ev \in Events, NEW s,
         \A e \in Events : e # ev => rows'[e].status = rows[e].status,
         \/ rows'[ev].status = "pending"   /\ s = "queued"
         \/ rows'[ev].status = "processed" /\ s = "done"
         \/ rows'[ev].status = "failed"    /\ s = "parked"
  PROVE  Stage' = [Stage EXCEPT ![ev] = s]
BY DEF Stage

\* Every step of the single-slot outbox is a step of the forwarder or leaves
\* its state unchanged.
LEMMA StepRefines ==
  ASSUME NEW b, Batches = {b}, IInv, IInv', Current(b), [Next]_vars
  PROVE  [Forwarder!Next]_fvars
<1>1. /\ b \in Batches /\ TypeOK /\ TypeOK' /\ BatchBacked(b) /\ RowsBacked
      /\ batch[b] \in BatchState
  BY DEF IInv, TypeOK
<1> USE DEF fvars
<1>2. ASSUME rows' = rows, UNCHANGED <<received, failures>>
      PROVE  [Forwarder!Next]_fvars
  BY <1>2, StageUnchanged
<1>3. ASSUME NEW e \in Events, WriteToOutbox(e) PROVE [Forwarder!Next]_fvars
  <2>1. rows[e].status = "absent"
    BY <1>1, <1>3 DEF WriteToOutbox, RowsBacked, Backed
  <2>2. /\ rows'[e].status = "pending"
        /\ \A f \in Events : f # e => rows'[f].status = rows[f].status
    BY <1>1, <1>3 DEF WriteToOutbox, NewEntry, TypeOK
  <2>3. Stage' = [Stage EXCEPT ![e] = "queued"]
    BY <2>2, StageChanges
  <2>4. Stage[e] = "outside"
    BY <2>1 DEF Stage
  <2>5. Forwarder!Enqueue(e)
    BY <1>3, <2>3, <2>4 DEF Forwarder!Enqueue, WriteToOutbox
  <2>6. QED
    BY <2>5 DEF Forwarder!Next
<1>4. ASSUME NEW e \in Events, LateArrival(e) PROVE [Forwarder!Next]_fvars
  <2>1. rows[e].status # "absent"
    BY <1>1, <1>4 DEF LateArrival, IInv, ForwardedWasAccepted, RowsBacked
  <2>2. Stage[e] # "outside" /\ Stage' = Stage
    BY <1>1, <1>4, <2>1, StageUnchanged DEF Stage, LateArrival, TypeOK, Row, Status
  <2>3. Forwarder!Deliver(e)
    BY <1>4, <2>2 DEF Forwarder!Deliver, LateArrival
  <2>4. QED
    BY <2>3 DEF Forwarder!Next
<1>5. ASSUME IngestSucceeds(b) PROVE [Forwarder!Next]_fvars
  <2>1. PICK ev \in Events : ev = batch[b].event /\ rows[ev].status = "pending"
    BY <1>1, <1>5 DEF IngestSucceeds, BatchBacked, Current, Working
  <2>2. Stage[ev] # "outside" /\ Stage' = Stage
    BY <1>5, <2>1, StageUnchanged DEF Stage, IngestSucceeds
  <2>3. Forwarder!Deliver(ev)
    BY <1>5, <2>1, <2>2 DEF Forwarder!Deliver, IngestSucceeds
  <2>4. QED
    BY <2>3 DEF Forwarder!Next
<1>6. ASSUME IngestFails(b) PROVE [Forwarder!Next]_fvars
  <2>1. PICK ev \in Events : ev = batch[b].event /\ rows[ev].status = "pending"
    BY <1>1, <1>6 DEF IngestFails, BatchBacked, Current, Working
  <2>2. Stage[ev] = "queued" /\ Stage' = Stage
    BY <1>6, <2>1, StageUnchanged DEF Stage, IngestFails
  <2>3. Forwarder!Fail(ev)
    BY <1>6, <2>1, <2>2 DEF Forwarder!Fail, IngestFails
  <2>4. QED
    BY <2>3 DEF Forwarder!Next
<1>7. ASSUME SaveUpdates(b) PROVE [Forwarder!Next]_fvars
  <2>1. PICK ev \in Events, x \in Row :
          /\ ev = batch[b].event /\ x = batch[b].entry
          /\ x.status # "absent" /\ Backed(x, ev)
          /\ rows[ev] = batch[b].loaded /\ rows[ev].status = "pending"
    BY <1>1, <1>7 DEF SaveUpdates, BatchBacked, Current, Working, BatchState
  <2>2. rows[ev] \in Row /\ rows'[ev] = Persisted(rows[ev], rows[ev], x)
    BY <1>1, <1>7, <2>1 DEF SaveUpdates, TypeOK
  <2>3. rows'[ev].status = x.status
    BY <2>1, <2>2, PersistedFresh
  <2>4. \A f \in Events : f # ev => rows'[f].status = rows[f].status
    BY <1>1, <1>7, <2>1 DEF SaveUpdates, TypeOK
  <2>5. UNCHANGED <<received, failures>> /\ Stage[ev] = "queued"
    BY <1>7, <2>1 DEF SaveUpdates, Stage
  <2>6. CASE x.status = "pending"
    BY <2>1, <2>3, <2>4, <2>5, <2>6, StageUnchanged
  <2>7. CASE x.status = "processed"
    <3>1. Stage' = [Stage EXCEPT ![ev] = "done"]
      BY <2>3, <2>4, <2>7, StageChanges
    <3>2. Forwarder!Complete(ev)
      BY <2>1, <2>5, <2>7, <3>1 DEF Forwarder!Complete, Backed
    <3>3. QED
      BY <3>2 DEF Forwarder!Next
  <2>8. CASE x.status = "failed"
    <3>1. Stage' = [Stage EXCEPT ![ev] = "parked"]
      BY <2>3, <2>4, <2>8, StageChanges
    <3>2. Forwarder!Park(ev)
      BY <2>1, <2>5, <2>8, <3>1 DEF Forwarder!Park, Backed
    <3>3. QED
      BY <3>2 DEF Forwarder!Next
  <2>9. QED
    BY <2>1, <2>6, <2>7, <2>8 DEF Row, Status
<1>8. ASSUME ResetFailed PROVE [Forwarder!Next]_fvars
  <2>1. \A e \in Events : rows'[e].status =
          IF rows[e].status = "failed" THEN "pending" ELSE rows[e].status
    BY <1>8 DEF ResetFailed, NewEntry
  <2>2. \A e \in Events : rows[e].status \in {"absent", "pending", "processed", "failed"}
    BY <1>1 DEF TypeOK, Row, Status
  <2>3. Forwarder!Requeue
    BY <1>8, <2>1, <2>2 DEF Forwarder!Requeue, ResetFailed, Stage
  <2>4. QED
    BY <2>3 DEF Forwarder!Next
<1>9. ASSUME NEW e \in Events, Publish(e) \/ PublishRejected(e) \/ WriteToOutboxFails(e)
      PROVE  [Forwarder!Next]_fvars
  BY <1>2, <1>9 DEF Publish, PublishRejected, WriteToOutboxFails
<1>10. ASSUME FindPending(b) \/ Ingest(b) \/ SaveLoads(b) \/ SaveFails(b) \/ BatchDone(b)
       PROVE  [Forwarder!Next]_fvars
  BY <1>2, <1>10 DEF FindPending, Ingest, SaveLoads, SaveFails, BatchDone
<1>11. ASSUME NEW i \in Instances, Lifecycle(i) PROVE [Forwarder!Next]_fvars
  BY <1>2, <1>11 DEF Lifecycle, OnModuleDestroy, Exit, Crash, Down, OnModuleInit
<1>12. CASE UNCHANGED vars
  BY <1>2, <1>12 DEF vars
<1>13. QED
  BY <1>3, <1>4, <1>5, <1>6, <1>7, <1>8, <1>9, <1>10, <1>11, <1>12
     DEF Next, Bus, Processor

\* Without overlapping batches the outbox is the forwarder ADR-008 describes.
THEOREM RefinesForwarder ==
  ASSUME NEW CONSTANT b, Batches = {b}
  PROVE  Spec => ForwarderSpec
<1>1. Init => Current(b) /\ Forwarder!Init
  BY InitCurrent, InitRefines
<1>2. IInv /\ IInv' /\ Current(b) /\ [Next]_vars => Current(b)'
  BY CurrentStep
<1>3. IInv /\ IInv' /\ Current(b) /\ [Next]_vars => [Forwarder!Next]_fvars
  BY StepRefines
<1>4. QED
  BY <1>1, <1>2, <1>3, Invariance, PTL DEF Spec, ForwarderSpec, Forwarder!Spec, fvars
===============================================================================
