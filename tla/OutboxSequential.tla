--------------------------- MODULE OutboxSequential ---------------------------
(***************************************************************************)
(* The outbox when batches do not overlap: one instance polls and every    *)
(* batch ends before the next tick, so Batches has one slot.               *)
(***************************************************************************)
EXTENDS Outbox

\* The stage the table shows an event to be in.
Stage == [e \in Events |->
            CASE rows[e].status = "absent"    -> "outside"
              [] rows[e].status = "pending"   -> "queued"
              [] rows[e].status = "processed" -> "done"
              [] OTHER                        -> "parked"]

Forwarder == INSTANCE EventForwarder
               WITH stage <- Stage, delivered <- received, tries <- failures

\* Without overlap the outbox implements the forwarder it promises to be,
\* through crashes, lost answers, failed saves and operator resets.
ForwarderSpec == Forwarder!Spec

\* What a batch has fetched and not yet saved is what the table holds, so the
\* status update it writes is based on the current row.
SnapshotIsCurrent ==
  \A b \in Batches :
    /\ \A e \in Remaining(b) : rows[e] = batch[b].fetched[e]
    /\ batch[b].pc = "ingest" => rows[batch[b].event] = batch[b].entry
    /\ batch[b].pc = "update" => rows[batch[b].event] = batch[b].loaded
===============================================================================
