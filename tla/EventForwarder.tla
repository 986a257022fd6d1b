---------------------------- MODULE EventForwarder ----------------------------
(***************************************************************************)
(* What the outbox promises its users (ADR-008, ADR-012): an event taken   *)
(* over is offered to the backbone until the backbone has it or until      *)
(* MaxAttempts offers have failed; it is then parked, and only an operator *)
(* puts it back.  Delivery is at least once, so the backbone may be handed *)
(* an event again, but what is done stays done.                            *)
(***************************************************************************)
EXTENDS Naturals

CONSTANTS Events, MaxAttempts

VARIABLES
  stage,      \* per event: "outside", "queued", "done" or "parked"
  delivered,  \* events the backbone holds
  tries       \* failed offers per event

Init ==
  /\ stage = [e \in Events |-> "outside"]
  /\ delivered = {}
  /\ tries = [e \in Events |-> 0]

Enqueue(e) ==
  /\ stage[e] = "outside"
  /\ stage' = [stage EXCEPT ![e] = "queued"]
  /\ UNCHANGED <<delivered, tries>>

Deliver(e) ==
  /\ stage[e] # "outside"
  /\ delivered' = delivered \cup {e}
  /\ UNCHANGED <<stage, tries>>

Fail(e) ==
  /\ stage[e] = "queued"
  /\ tries' = [tries EXCEPT ![e] = @ + 1]
  /\ UNCHANGED <<stage, delivered>>

Complete(e) ==
  /\ stage[e] = "queued"
  /\ e \in delivered
  /\ stage' = [stage EXCEPT ![e] = "done"]
  /\ UNCHANGED <<delivered, tries>>

Park(e) ==
  /\ stage[e] = "queued"
  /\ tries[e] >= MaxAttempts
  /\ stage' = [stage EXCEPT ![e] = "parked"]
  /\ UNCHANGED <<delivered, tries>>

Requeue ==
  /\ stage' = [e \in Events |-> IF stage[e] = "parked" THEN "queued" ELSE stage[e]]
  /\ UNCHANGED <<delivered, tries>>

Next ==
  \/ \E e \in Events : Enqueue(e) \/ Deliver(e) \/ Fail(e) \/ Complete(e) \/ Park(e)
  \/ Requeue

Spec == Init /\ [][Next]_<<stage, delivered, tries>>
===============================================================================
