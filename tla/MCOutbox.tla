------------------------------- MODULE MCOutbox -------------------------------
(* Small instances of Outbox: which instance every slot and handler runs in. *)
EXTENDS OutboxSequential, TLC

CONSTANTS e1, e2, b1, b2, i1, i2

\* Two API instances, one batch each; the events are published by the first.
TwoHosts == (b2 :> i2) @@ [x \in {e1, e2, b1} |-> i1]

\* One API instance whose batches do not overlap.
SingleSlot == [x \in {e1, e2, b1} |-> i1]

\* One event and two overlapping batches of one instance.
OneEventOneHost == [x \in {e1, b1, b2} |-> i1]
===============================================================================
