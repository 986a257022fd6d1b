-------------------------------- MODULE Outbox --------------------------------
(***************************************************************************)
(* Forwarding of platform events to the Event Streaming backbone.          *)
(*                                                                         *)
(* ForwardingEventBus.publish hands an event to the inner bus and then     *)
(* inserts a row into outbox_entries; OutboxProcessorService polls that    *)
(* table every POLL_INTERVAL_MS and posts each pending entry to the        *)
(* backbone.  setInterval starts a new processBatch whether or not the     *)
(* previous one has finished, and every API instance runs the service, so  *)
(* several batches are in flight, each over its own snapshot of the table. *)
(*                                                                         *)
(* A row keeps its status, its attempts and its createdAt.  last_error and *)
(* processed_at are written by the processor and read by nobody; the       *)
(* envelope columns never change after the insert.                         *)
(***************************************************************************)
EXTENDS Naturals, FiniteSets

CONSTANTS
  Events,         \* event ids the API publishes; one row per id at most
  GlobalEvents,   \* those published with tenantId 'global' (user registration)
  NoEvent,        \* a value that is no event id
  Batches,        \* slots for concurrent invocations of processBatch
  Instances,      \* API instances
  HostOf,         \* the instance a batch slot, or an event's handler, runs in
  Stamps,         \* values of createdAt (the instances' clocks may disagree)
  BatchSize,      \* BATCH_SIZE
  MaxAttempts,    \* MAX_ATTEMPTS
  SchemaCurrent,  \* the table has the columns OutboxEntryOrmEntity declares
  MaxFaults,      \* bound: crashes, shutdowns and failing database writes
  MaxResets       \* bound: times an operator requeues the failed entries

ASSUME OutboxAssumption ==
  /\ IsFiniteSet(Events)
  /\ GlobalEvents \subseteq Events
  /\ NoEvent \notin Events
  /\ HostOf \in [Events \cup Batches -> Instances]
  /\ Stamps \subseteq Nat
  /\ BatchSize \in Nat \ {0}
  /\ MaxAttempts \in Nat \ {0}
  /\ SchemaCurrent \in BOOLEAN
  /\ MaxFaults \in Nat
  /\ MaxResets \in Nat

VARIABLES
  phase,     \* per event: how far its publish call got
  rows,      \* outbox_entries, by event id
  batch,     \* per slot: the state of a running processBatch
  received,  \* events the backbone has appended at least once
  late,      \* events with an abandoned ingest request the backbone may still see
  failures,  \* history: failed ingest calls per event
  host,      \* per instance: "running", "stopping" or "down"
  faults,    \* faults so far
  resets     \* operator resets so far

vars == <<phase, rows, batch, received, late, failures, host, faults, resets>>

(***************************************************************************)
(* Types.                                                                  *)
(***************************************************************************)
Phase == {"new", "accepted", "rejected", "recorded", "unrecorded"}

Status == {"pending", "processed", "failed"}

Row == [status : Status \cup {"absent"}, attempts : Nat, createdAt : Nat]

NoRow == [status |-> "absent", attempts |-> 0, createdAt |-> 0]

BatchState == [pc      : {"idle", "loop", "ingest", "save", "update"},
               fetched : [Events -> Row],
               event   : Events \cup {NoEvent},
               entry   : Row,
               loaded  : Row]

\* A batch between two entries.
LoopBatch(fetched) == [pc      |-> "loop",
                       fetched |-> fetched,
                       event   |-> NoEvent,
                       entry   |-> NoRow,
                       loaded  |-> NoRow]

IdleBatch == [pc      |-> "idle",
              fetched |-> [e \in Events |-> NoRow],
              event   |-> NoEvent,
              entry   |-> NoRow,
              loaded  |-> NoRow]

\* Type invariant: the rows, the batches in flight and the bookkeeping stay
\* within the values OutboxEntryEntity and processBatch can produce.
TypeOK ==
  /\ phase \in [Events -> Phase]
  /\ rows \in [Events -> Row]
  /\ batch \in [Batches -> BatchState]
  /\ received \subseteq Events
  /\ late \subseteq Events
  /\ failures \in [Events -> Nat]
  /\ host \in [Instances -> {"running", "stopping", "down"}]
  /\ faults \in Nat
  /\ resets \in Nat

Init ==
  /\ phase = [e \in Events |-> "new"]
  /\ rows = [e \in Events |-> NoRow]
  /\ batch = [b \in Batches |-> IdleBatch]
  /\ received = {}
  /\ late = {}
  /\ failures = [e \in Events |-> 0]
  /\ host = [i \in Instances |-> "running"]
  /\ faults = 0
  /\ resets = 0

(***************************************************************************)
(* OutboxEntryEntity.                                                      *)
(***************************************************************************)
\* Mutant: the insert relies on a default status the column does not have.
NewEntryUntyped(t) == [status |-> "new", attempts |-> 0, createdAt |-> t]

NewEntry(t) == [status |-> "pending", attempts |-> 0, createdAt |-> t]

MarkProcessed(entry) == [status    |-> "processed",
                         attempts  |-> entry.attempts,
                         createdAt |-> entry.createdAt]

\* Mutant: off by one, the entry is given up one attempt early.
RecordAttemptFailureEarly(entry) ==
  [status    |-> IF entry.attempts + 2 >= MaxAttempts THEN "failed" ELSE entry.status,
   attempts  |-> entry.attempts + 1,
   createdAt |-> entry.createdAt]

RecordAttemptFailure(entry) ==
  [status    |-> IF entry.attempts + 1 >= MaxAttempts THEN "failed" ELSE entry.status,
   attempts  |-> entry.attempts + 1,
   createdAt |-> entry.createdAt]

(***************************************************************************)
(* OutboxEntryRepository.                                                  *)
(***************************************************************************)
\* tenant_id and event_id are UUID columns, so 'global' is rejected; every
\* statement names all the columns of OutboxEntryOrmEntity.
Storable(e) == SchemaCurrent /\ e \notin GlobalEvents

\* Mutant: the query forgets the entries that have failed before.
PendingUntried ==
  {e \in Events : rows[e].status = "pending" /\ rows[e].attempts = 0}

Pending == {e \in Events : rows[e].status = "pending"}

\* Mutant: LIMIT is applied to the whole table and the status filtered after.
OldestRowsPending(S) ==
  \E W \in SUBSET Events :
    /\ Cardinality(W) <= BatchSize
    /\ \A e \in W, f \in Events \ W :
         /\ rows[e].status # "absent"
         /\ rows[f].status # "absent" => rows[e].createdAt <= rows[f].createdAt
    /\ S = W \cap Pending

\* What findPending may return: the oldest BatchSize pending rows.
OldestPending(S) ==
  /\ S \subseteq Pending
  /\ S = Pending \/ Cardinality(S) = BatchSize
  /\ Cardinality(S) <= BatchSize
  /\ \A e \in S, f \in Pending \ S : rows[e].createdAt <= rows[f].createdAt

\* TypeORM's save(): the columns of the entity that differ from the row it
\* loaded first are written, the others are left as they are by now.
Persisted(row, loaded, entry) ==
  [status    |-> IF entry.status # loaded.status THEN entry.status ELSE row.status,
   attempts  |-> IF entry.attempts # loaded.attempts THEN entry.attempts
                                                     ELSE row.attempts,
   createdAt |-> row.createdAt]

(***************************************************************************)
(* ForwardingEventBus.publish.                                             *)
(***************************************************************************)
Publish(e) ==
  /\ phase[e] = "new"
  /\ host[HostOf[e]] # "down"
  /\ phase' = [phase EXCEPT ![e] = "accepted"]
  /\ UNCHANGED <<rows, batch, received, late, failures, host, faults, resets>>

\* Mutant: the outbox is written even when the inner bus throws.
PublishRejectedRecorded(e) ==
  /\ phase[e] = "new"
  /\ phase' = [phase EXCEPT ![e] = "rejected"]
  /\ \E t \in Stamps : rows' = [rows EXCEPT ![e] = NewEntry(t)]
  /\ UNCHANGED <<batch, received, late, failures, host, faults, resets>>

\* The inner bus throws: publish rejects and the outbox is never written.
PublishRejected(e) ==
  /\ phase[e] = "new"
  /\ host[HostOf[e]] # "down"
  /\ phase' = [phase EXCEPT ![e] = "rejected"]
  /\ UNCHANGED <<rows, batch, received, late, failures, host, faults, resets>>

WriteToOutbox(e) ==
  /\ phase[e] = "accepted"
  /\ Storable(e)
  /\ phase' = [phase EXCEPT ![e] = "recorded"]
  /\ \E t \in Stamps : rows' = [rows EXCEPT ![e] = NewEntry(t)]
  /\ UNCHANGED <<batch, received, late, failures, host, faults, resets>>

\* The insert fails; the error is logged and publish still resolves.
WriteToOutboxFails(e) ==
  /\ phase[e] = "accepted"
  /\ \/ /\ ~Storable(e)
        /\ UNCHANGED faults
     \/ /\ Storable(e)
        /\ faults < MaxFaults
        /\ faults' = faults + 1
  /\ phase' = [phase EXCEPT ![e] = "unrecorded"]
  /\ UNCHANGED <<rows, batch, received, late, failures, host, resets>>

(***************************************************************************)
(* OutboxProcessorService.processBatch.  A failing findPending ends the    *)
(* invocation with nothing changed: a stuttering step.                     *)
(***************************************************************************)
FindPending(b) ==
  /\ batch[b].pc = "idle"
  /\ host[HostOf[b]] = "running"
  /\ SchemaCurrent
  /\ \E S \in SUBSET Events :
       /\ S # {}
       /\ OldestPending(S)
       /\ batch' = [batch EXCEPT ![b] =
            LoopBatch([e \in Events |-> IF e \in S THEN rows[e] ELSE NoRow])]
  /\ UNCHANGED <<phase, rows, received, late, failures, host, faults, resets>>

\* Entries of the snapshot the loop has not reached yet.
Remaining(b) == {e \in Events : batch[b].fetched[e].status # "absent"}

\* Mutant: the attempt is counted before the request is sent.
IngestCounted(b) ==
  /\ batch[b].pc = "loop"
  /\ \E e \in Remaining(b) :
       batch' = [batch EXCEPT ![b] =
         [pc      |-> "ingest",
          fetched |-> [@.fetched EXCEPT ![e] = NoRow],
          event   |-> e,
          entry   |-> RecordAttemptFailure(@.fetched[e]),
          loaded  |-> NoRow]]
  /\ UNCHANGED <<phase, rows, received, late, failures, host, faults, resets>>

\* The loop takes the next entry in createdAt order and posts it.
Ingest(b) ==
  /\ batch[b].pc = "loop"
  /\ \E e \in Remaining(b) :
       /\ \A f \in Remaining(b) :
            batch[b].fetched[e].createdAt <= batch[b].fetched[f].createdAt
       /\ batch' = [batch EXCEPT ![b] =
            [pc      |-> "ingest",
             fetched |-> [@.fetched EXCEPT ![e] = NoRow],
             event   |-> e,
             entry   |-> @.fetched[e],
             loaded  |-> NoRow]]
  /\ UNCHANGED <<phase, rows, received, late, failures, host, faults, resets>>

\* 2xx: the backbone has appended the event before the client hears of it.
IngestSucceeds(b) ==
  /\ batch[b].pc = "ingest"
  /\ received' = received \cup {batch[b].event}
  /\ batch' = [batch EXCEPT ![b].pc = "save", ![b].entry = MarkProcessed(@)]
  /\ UNCHANGED <<phase, rows, late, failures, host, faults, resets>>

\* Mutant: a failed request is taken for an answer (response.ok not checked).
IngestFailsUnchecked(b) ==
  /\ batch[b].pc = "ingest"
  /\ late' = late \cup {batch[b].event}
  /\ batch' = [batch EXCEPT ![b].pc = "save", ![b].entry = MarkProcessed(@)]
  /\ UNCHANGED <<phase, rows, received, failures, host, faults, resets>>

\* Timeout, network error or an error status.  The client learns nothing of
\* whether the request was, or will still be, applied.
IngestFails(b) ==
  /\ batch[b].pc = "ingest"
  /\ late' = late \cup {batch[b].event}
  /\ failures' = [failures EXCEPT ![batch[b].event] = @ + 1]
  /\ batch' = [batch EXCEPT ![b].pc = "save",
                            ![b].entry = RecordAttemptFailure(@)]
  /\ UNCHANGED <<phase, rows, received, host, faults, resets>>

\* An abandoned request reaches the backbone after all.
LateArrival(e) ==
  /\ e \in late
  /\ late' = late \ {e}
  /\ received' = received \cup {e}
  /\ UNCHANGED <<phase, rows, batch, failures, host, faults, resets>>

SaveLoads(b) ==
  /\ batch[b].pc = "save"
  /\ batch' = [batch EXCEPT ![b].pc = "update",
                            ![b].loaded = rows[batch[b].event]]
  /\ UNCHANGED <<phase, rows, received, late, failures, host, faults, resets>>

NextEntry(b) == batch' = [batch EXCEPT ![b] = LoopBatch(batch[b].fetched)]

SaveUpdates(b) ==
  /\ batch[b].pc = "update"
  /\ rows' = [rows EXCEPT ![batch[b].event] =
                Persisted(@, batch[b].loaded, batch[b].entry)]
  /\ NextEntry(b)
  /\ UNCHANGED <<phase, received, late, failures, host, faults, resets>>

\* save() throws: logged, and the loop goes on with the next entry.
SaveFails(b) ==
  /\ batch[b].pc \in {"save", "update"}
  /\ faults < MaxFaults
  /\ faults' = faults + 1
  /\ NextEntry(b)
  /\ UNCHANGED <<phase, rows, received, late, failures, host, resets>>

BatchDone(b) ==
  /\ batch[b].pc = "loop"
  /\ Remaining(b) = {}
  /\ batch' = [batch EXCEPT ![b] = IdleBatch]
  /\ UNCHANGED <<phase, rows, received, late, failures, host, faults, resets>>

(***************************************************************************)
(* Life of an instance.  onModuleDestroy only stops the timer: batches in  *)
(* flight run on until the process ends.                                   *)
(***************************************************************************)
OnModuleDestroy(i) ==
  /\ host[i] = "running"
  /\ faults < MaxFaults
  /\ faults' = faults + 1
  /\ host' = [host EXCEPT ![i] = "stopping"]
  /\ UNCHANGED <<phase, rows, batch, received, late, failures, resets>>

Down(i) ==
  /\ host' = [host EXCEPT ![i] = "down"]
  /\ phase' = [e \in Events |-> IF HostOf[e] = i /\ phase[e] = "accepted"
                                THEN "unrecorded" ELSE phase[e]]
  /\ batch' = [b \in Batches |-> IF HostOf[b] = i THEN IdleBatch ELSE batch[b]]
  /\ late' = late \cup {e \in Events : \E b \in Batches :
                          /\ HostOf[b] = i
                          /\ batch[b].pc = "ingest"
                          /\ batch[b].event = e}
  /\ UNCHANGED <<rows, received, failures, resets>>

\* The process ends once its event loop is empty.
Exit(i) ==
  /\ host[i] = "stopping"
  /\ \A b \in Batches : HostOf[b] = i => batch[b].pc = "idle"
  /\ \A e \in Events : HostOf[e] = i => phase[e] # "accepted"
  /\ Down(i)
  /\ UNCHANGED faults

\* The process is killed with publishes and batches at any point.
Crash(i) ==
  /\ host[i] # "down"
  /\ faults < MaxFaults
  /\ faults' = faults + 1
  /\ Down(i)

OnModuleInit(i) ==
  /\ host[i] = "down"
  /\ host' = [host EXCEPT ![i] = "running"]
  /\ UNCHANGED <<phase, rows, batch, received, late, failures, faults, resets>>

(***************************************************************************)
(* The recovery procedure of the runbook (ADR-012, surface 1):             *)
(* UPDATE ... SET status = 'pending', attempts = 0 WHERE status = 'failed' *)
(***************************************************************************)
ResetFailed ==
  /\ resets < MaxResets
  /\ \E e \in Events : rows[e].status = "failed"
  /\ rows' = [e \in Events |-> IF rows[e].status = "failed"
                               THEN NewEntry(rows[e].createdAt)
                               ELSE rows[e]]
  /\ resets' = resets + 1
  /\ UNCHANGED <<phase, batch, received, late, failures, host, faults>>

-------------------------------------------------------------------------------
Bus(e) == Publish(e) \/ PublishRejected(e) \/ WriteToOutbox(e) \/ WriteToOutboxFails(e)

Processor(b) ==
  \/ FindPending(b)
  \/ Ingest(b)
  \/ IngestSucceeds(b)
  \/ IngestFails(b)
  \/ SaveLoads(b)
  \/ SaveUpdates(b)
  \/ SaveFails(b)
  \/ BatchDone(b)

Lifecycle(i) == OnModuleDestroy(i) \/ Exit(i) \/ Crash(i) \/ OnModuleInit(i)

Next ==
  \/ \E e \in Events : Bus(e) \/ LateArrival(e)
  \/ \E b \in Batches : Processor(b)
  \/ \E i \in Instances : Lifecycle(i)
  \/ ResetFailed

Spec == Init /\ [][Next]_vars

(***************************************************************************)
(* Fairness.  The timer of a running instance keeps starting batches, an   *)
(* await inside a batch or a publish settles (ingest aborts after          *)
(* timeoutMs; a database call resolves or rejects), and the orchestrator   *)
(* replaces a dead instance.  Nothing is assumed of the outcome of an      *)
(* ingest, of whether events are published, of the operator or of faults,  *)
(* whose number MaxFaults bounds.                                          *)
(***************************************************************************)
FairSpec ==
  /\ Spec
  /\ \A e \in Events : WF_vars(WriteToOutbox(e) \/ WriteToOutboxFails(e))
  /\ \A b \in Batches : WF_vars(Processor(b))
  /\ \A i \in Instances : WF_vars(Exit(i)) /\ WF_vars(OnModuleInit(i))

-------------------------------------------------------------------------------
(***************************************************************************)
(* Properties that hold however many batches overlap.                      *)
(***************************************************************************)

\* An entry is marked processed only if the backbone really holds the event,
\* whatever stale copies other batches write back (markProcessed runs after
\* ingest resolved).
ProcessedWasReceived ==
  \A e \in Events : rows[e].status = "processed" => e \in received

\* The processor gives an entry up only after at least MAX_ATTEMPTS failed
\* ingest calls for it: overlapping saves lose increments of the attempt
\* counter but never invent one.
GivenUpAfterMaxAttempts ==
  \A e \in Events : rows[e].status = "failed" => failures[e] >= MaxAttempts

\* The backbone never hears of an event the inner bus did not accept: publish
\* writes the outbox only after inner.publish resolved, and ingest reads only
\* the outbox.
ForwardedWasAccepted ==
  \A e \in received \cup late : phase[e] = "recorded"

\* Every recorded event is eventually settled for good: no interleaving of
\* overlapping batches, crashes and failed saves bounces an entry between
\* pending and processed or failed forever, and no run of failing entries
\* starves the ones behind it in a batch of BATCH_SIZE.
EventuallySettled ==
  \A e \in Events :
    phase[e] = "recorded" ~> [](rows[e].status \in {"processed", "failed"})

(***************************************************************************)
(* What the documentation says and the code does not keep.                 *)
(***************************************************************************)

\* "status transitions (pending -> processed/failed)": no step takes an entry
\* out of a settled status except the operator's reset.
StatusTransitions ==
  [][\A e \in Events :
       rows[e].status \in {"processed", "failed"} =>
         \/ rows'[e].status = rows[e].status
         \/ rows[e].status = "failed" /\ resets' > resets]_rows
===============================================================================
