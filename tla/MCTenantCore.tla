----------------------------- MODULE MCTenantCore -----------------------------
(* Small instances of TenantCore.                                             *)
EXTENDS TenantCore, TLC

CONSTANTS r1, r2, r3, r4, r5, acme, Acme, invalid

\* "Acme" and "acme" are the same slug to TenantSlug; the third matches no
\* organization and is refused.
Lowered == (Acme :> acme) @@ [s \in Slugs |-> s]

\* Two creations from the API and one from the bootstrap script race; an
\* update and a suspension work on what they make.
Calls ==
  (r1 :> "create") @@ (r2 :> "bootstrap") @@ (r3 :> "create")
    @@ (r4 :> "update") @@ (r5 :> "suspend")
===============================================================================
