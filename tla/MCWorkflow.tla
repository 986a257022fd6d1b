------------------------------ MODULE MCWorkflow ------------------------------
(* Small instances of Workflow.                                               *)
EXTENDS Workflow, TLC

CONSTANTS r1, r2, r3, r4, r5, r6, r7, d1, d2, d3, t1, t2

\* Two cancels race the engine's steps for one execution, the start
\* being tried twice; a reader looks on.
Calls ==
  (r1 :> "trigger") @@ (r2 :> "start") @@ (r3 :> "finish") @@ (r4 :> "cancel")
    @@ (r5 :> "cancel") @@ (r6 :> "read") @@ (r7 :> "start")

\* An active and a draft definition of one tenant, an active one of another.
TenantOf == (d1 :> t1) @@ (d2 :> t1) @@ (d3 :> t2)
Active == (d1 :> TRUE) @@ (d2 :> FALSE) @@ (d3 :> TRUE)

\* Callers without a token, with a refresh token, and of two roles and tenants.
Callers == {[type |-> "none", role |-> "viewer", tenant |-> t1],
            [type |-> "refresh", role |-> "owner", tenant |-> t1],
            [type |-> "access", role |-> "member", tenant |-> t1],
            [type |-> "access", role |-> "admin", tenant |-> t2]}

\* One execution and one reader.
TriggerAndRead == (r1 :> "trigger") @@ (r2 :> "read")
===============================================================================
